\* One request at a time, and time goes on.
CONSTANTS
    m1 = m1  r1 = r1
    Mails <- OneMail
    Requests <- OneRequest
    MaxSends = 1
    MaxRetries = 1
    HourPasses = TRUE
SPECIFICATION MailSpec
PROPERTIES ExpiresOnlyOverdue
