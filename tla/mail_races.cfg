\* Two requests race for a mail, workers and time go on.
CONSTANTS
    m1 = m1  r1 = r1  r2 = r2
    Mails = {m1}
    Requests = {r1, r2}
    MaxSends = 3
    MaxRetries = 1
    HourPasses = TRUE
SPECIFICATION ContentionSpec
INVARIANTS SentWasDelivered OneDeliveryPerSend AtMostOnce
PROPERTIES NeverStuck ReturnsWithError ImplementsMailLife
