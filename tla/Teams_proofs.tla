---------------------------- MODULE Teams_proofs ----------------------------
(***************************************************************************)
(* Theorems about Teams, for any number of users, teams, invitations,      *)
(* tokens, events and parallel requests.  That somebody manages the teams  *)
(* is proved for databases that let one transaction write at a time.       *)
(***************************************************************************)
EXTENDS Teams, TLAPS

-----------------------------------------------------------------------------
(* The inductive invariant, by table.                                      *)

ActorPart == events \subseteq Events /\ active \subseteq Users

TeamPart ==
  /\ team \in [TeamIds -> Team \cup {None}]
  /\ \A t \in TeamIds : team[t] # None => team[t].limit_events \subseteq events

\* An invitation that is not used up has admitted nobody.
InvitePart ==
  /\ invite \in [InviteIds -> TeamIds \cup {None, Gone}]
  /\ visit \in [Users -> InviteIds \cup {None}]
  /\ admitted \in [InviteIds -> SUBSET Users]
  /\ \A i \in InviteIds : invite[i] # Gone => admitted[i] = {}
  /\ \A i \in InviteIds : \A u, v \in admitted[i] : u = v

\* A token for all events names none.
TokenPart ==
  /\ token \in [TokenIds -> Token \cup {None}]
  /\ \A k \in TokenIds : token[k] # None =>
       token[k].limit_events \subseteq events /\ (token[k].all_events => token[k].limit_events = {})

\* What was lost is not in a token that works.
DroppedPart ==
  /\ dropped \subseteq TokenIds \X Events
  /\ \A k \in TokenIds, e \in Events : <<k, e>> \in dropped =>
       token[k] # None /\ (token[k].expired \/ e \notin token[k].limit_events)

\* A request takes from the tokens what they lose.
StagedOK(c) ==
  /\ c.row # None => c.row.limit_events \subseteq events
  /\ c.lost \subseteq c.tokens.drop
  /\ \A k \in TokenIds, e \in Events : <<k, e>> \in c.lost => token[k] # None

RequestPart ==
  /\ request \in [Requests -> Staged \cup {None}]
  /\ \A r \in Requests : request[r] # None => StagedOK(request[r])

\* A form for all events names none.
FormPart ==
  /\ form \in [Requests -> TokenForm \cup {None}]
  /\ \A r \in Requests : form[r] # None /\ form[r].all_events => form[r].limit_events = {}

TeamInv == ActorPart /\ TeamPart /\ InvitePart /\ TokenPart /\ DroppedPart /\ RequestPart /\ FormPart

-----------------------------------------------------------------------------
(* What stays when tables stay.                                            *)

LEMMA SameTeams == TeamPart /\ UNCHANGED team /\ events \subseteq events' => TeamPart'
BY DEF TeamPart

LEMMA SameInvites == InvitePart /\ UNCHANGED <<invite, visit, admitted>> => InvitePart'
BY DEF InvitePart

LEMMA SameTokens == TokenPart /\ DroppedPart /\ UNCHANGED <<token, dropped>> /\ events \subseteq events' => TokenPart' /\ DroppedPart'
BY DEF TokenPart, DroppedPart

LEMMA SameRequests ==
  ASSUME RequestPart, UNCHANGED request, events \subseteq events', \A k \in TokenIds : token[k] # None => token'[k] # None
  PROVE  RequestPart'
BY DEF RequestPart, StagedOK

LEMMA SameForms == FormPart /\ UNCHANGED form => FormPart'
BY DEF FormPart

LEMMA SameActors == ActorPart /\ UNCHANGED <<events, active>> => ActorPart'
BY DEF ActorPart

-----------------------------------------------------------------------------
(* Rows.                                                                   *)

LEMMA TeamRow ==
  ASSUME NEW row \in Team, NEW M \in SUBSET Users
  PROVE  LET new == [row EXCEPT !.members = M]
         IN /\ new \in Team /\ new # None /\ new.members = M /\ new.limit_events = row.limit_events
            /\ new.all_events = row.all_events /\ new.can = row.can
<1> DEFINE new == [row EXCEPT !.members = M]
<1>1. /\ new \in Team /\ new.members = M /\ new.limit_events = row.limit_events
      /\ new.all_events = row.all_events /\ new.can = row.can
  BY DEF Team
<1> HIDE DEF new
<1> QED
  BY <1>1, RowAssumption DEF new

LEMMA TeamRowEvents ==
  ASSUME NEW row \in Team, NEW L \in SUBSET Events
  PROVE  LET new == [row EXCEPT !.limit_events = L]
         IN /\ new \in Team /\ new # None /\ new.members = row.members /\ new.limit_events = L
            /\ new.all_events = row.all_events /\ new.can = row.can
<1> DEFINE new == [row EXCEPT !.limit_events = L]
<1>1. /\ new \in Team /\ new.members = row.members /\ new.limit_events = L
      /\ new.all_events = row.all_events /\ new.can = row.can
  BY DEF Team
<1> HIDE DEF new
<1> QED
  BY <1>1, RowAssumption DEF new

-----------------------------------------------------------------------------
(* Changes that wait for their commit.                                     *)

LEMMA StageStep ==
  ASSUME TeamInv, NEW r \in Requests, NEW c \in Staged, StagedOK(c), Stage(r, c)
  PROVE  TeamInv'
<1>1. request' = [request EXCEPT ![r] = c] /\ UNCHANGED <<events, team, invite, token, active, visit, form, admitted, dropped>>
  BY DEF Stage
<1>2. RequestPart'
  BY <1>1 DEF TeamInv, RequestPart, StagedOK
<1> QED
  BY <1>1, <1>2, SameTeams, SameInvites, SameTokens, SameActors, SameForms DEF TeamInv

LEMMA Changes ==
  ASSUME TeamInv, NEW t \in TeamIds, NEW row \in Team \cup {None}, NEW M \in SUBSET Users,
         row # None => row.limit_events \subseteq events
  PROVE  LET c == Change(t, row, M)
         IN /\ c \in Staged /\ StagedOK(c)
            /\ c.team = t /\ c.row = row /\ c.columns /\ c.remove = M
<1>1. NoTokens \in [drop : SUBSET (TokenIds \X Events), expire : SUBSET TokenIds] /\ NoTokens.drop = {}
  BY DEF NoTokens
<1> QED
  BY <1>1 DEF Change, Staged, StagedOK

\* What a member reaches are events of the organiser.
LEMMA Reached ==
  ASSUME TeamPart, NEW u, NEW t \in TeamIds, NEW row \in Team,
         row.limit_events \subseteq events
  PROVE  /\ u \in Administrators /\ u \in active => Reach(u, [team EXCEPT ![t] = row], events) = events
         /\ EventsOf(row, events) \subseteq events
BY DEF Reach, EventsOf

LEMMA RemoveMemberChange ==
  ASSUME TeamInv, NEW t \in TeamIds, NEW u \in Users, team[t] # None, NEW left,
         u \in Administrators /\ u \in active => left = events
  PROVE  LET row == [team[t] EXCEPT !.members = @ \ {u}]
             c == [team |-> t, row |-> row, columns |-> FALSE, remove |-> {u},
                   tokens |-> UpdateTokenEvents(u, TouchedTokens(t, u), left),
                   lost |-> LostTo(t, u, left)]
         IN c \in Staged /\ StagedOK(c)
<1> DEFINE row == [team[t] EXCEPT !.members = @ \ {u}]
           drops == UpdateTokenEvents(u, TouchedTokens(t, u), left)
           lost == LostTo(t, u, left)
           c == [team |-> t, row |-> row, columns |-> FALSE, remove |-> {u}, tokens |-> drops, lost |-> lost]
<1>1. team[t] \in Team /\ team[t].limit_events \subseteq events /\ team[t].members \in SUBSET Users
  BY DEF TeamInv, TeamPart, Team
<1>2. row \in Team /\ row # None /\ row.limit_events = team[t].limit_events
  BY <1>1, TeamRow
<1>3. drops \in [drop : SUBSET (TokenIds \X Events), expire : SUBSET TokenIds]
  BY DEF UpdateTokenEvents, TouchedTokens
<1>4. lost \in SUBSET (TokenIds \X Events)
  BY DEF LostTo
<1>5. ASSUME NEW k \in TokenIds, NEW e \in Events, <<k, e>> \in lost
      PROVE  /\ token[k] # None /\ ~token[k].expired /\ token[k].user = u
             /\ e \in token[k].limit_events /\ e \in EventsOf(team[t], events) /\ e \notin left
  BY <1>5 DEF LostTo, Active
<1>6. lost \subseteq drops.drop
  <2> SUFFICES ASSUME NEW k \in TokenIds, NEW e \in Events, <<k, e>> \in lost
               PROVE  <<k, e>> \in drops.drop
    BY <1>4
  <2>1. /\ token[k] # None /\ ~token[k].expired /\ token[k].user = u
        /\ e \in token[k].limit_events /\ e \in EventsOf(team[t], events) /\ e \notin left
    BY <1>5
  <2>2. ~token[k].all_events /\ e \in events
    BY <2>1 DEF TeamInv, TokenPart
  <2>3. ~(u \in Administrators /\ u \in active)
    BY <2>1, <2>2
  <2>4. k \in TouchedTokens(t, u)
    BY <2>1 DEF TouchedTokens, Active
  <2> DEFINE toks == TouchedTokens(t, u)
             limited == {x \in toks : ~token[x].all_events}
             drop == {d \in limited \X Events : d[2] \in token[d[1]].limit_events \ left}
  <2>5. drops.drop = drop
    BY <2>3 DEF UpdateTokenEvents
  <2>6. k \in limited
    BY <2>2, <2>4
  <2> HIDE DEF limited
  <2> QED
    BY <2>1, <2>5, <2>6
<1> HIDE DEF row, drops, lost
<1>7. c \in Staged /\ c.row = row /\ c.tokens = drops /\ c.lost = lost
  BY <1>2, <1>3, <1>4 DEF Staged
<1>8. StagedOK(c)
  BY <1>1, <1>2, <1>5, <1>6, <1>7 DEF StagedOK
<1> QED
  BY <1>7, <1>8 DEF row, drops, lost

LEMMA RemoveMemberStep ==
  ASSUME TeamInv, NEW r \in Requests, NEW t \in TeamIds, NEW u \in Users, RemoveMember(r, t, u)
  PROVE  TeamInv'
<1> DEFINE row == [team[t] EXCEPT !.members = @ \ {u}]
           left == Reach(u, [team EXCEPT ![t] = row], events)
<1>1. team[t] # None /\ team[t] \in Team /\ team[t].members \in SUBSET Users /\ team[t].limit_events \subseteq events
  BY DEF RemoveMember, TeamInv, TeamPart, Team
<1>2. row \in Team /\ row.limit_events \subseteq events
  BY <1>1, TeamRow
<1> DEFINE c == [team |-> t, row |-> row, columns |-> FALSE, remove |-> {u},
                 tokens |-> UpdateTokenEvents(u, TouchedTokens(t, u), left),
                 lost |-> LostTo(t, u, left)]
<1>3. Stage(r, c)
  BY DEF RemoveMember
<1> HIDE DEF row
<1>4. u \in Administrators /\ u \in active => left = events
  BY <1>2, Reached DEF TeamInv
<1> HIDE DEF left
<1>5. c \in Staged /\ StagedOK(c)
  BY <1>1, <1>4, RemoveMemberChange DEF row
<1> HIDE DEF c
<1> QED
  BY <1>3, <1>5, StageStep

\* The row the API gives to a team.
LEMMA Patched ==
  ASSUME TeamInv, NEW all \in BOOLEAN, NEW limit \in SUBSET events, NEW can \in PermissionSets, NEW members \in SUBSET Users
  PROVE  LET new == [members |-> members, all_events |-> all, limit_events |-> limit, can |-> can]
         IN new \in Team /\ new # None /\ new.limit_events \subseteq events /\ new.members = members
<1> DEFINE new == [members |-> members, all_events |-> all, limit_events |-> limit, can |-> can]
<1>1. new \in Team /\ new.limit_events = limit /\ new.members = members
  BY PermissionsAssumption DEF Team, TeamInv, ActorPart
<1> HIDE DEF new
<1> QED
  BY <1>1, RowAssumption DEF new

\* What the requests stage that edit or delete a team.
LEMMA Edits ==
  ASSUME TeamInv, NEW r \in Requests, NEW t \in TeamIds,
         \/ DeleteTeam(r, t)
         \/ \E all \in BOOLEAN, limit \in SUBSET events, can \in PermissionSets :
              \/ EditTeam(r, t, all, limit, can)
              \/ \E members \in SUBSET Users : PatchTeam(r, t, all, limit, can, members)
  PROVE  \E row \in Team \cup {None}, M \in SUBSET Users :
           /\ Stage(r, Change(t, row, M)) /\ team[t] # None
           /\ row # None => row.limit_events \subseteq events /\ row.members = team[t].members \ M
<1> DEFINE Goal == \E row \in Team \cup {None}, M \in SUBSET Users :
                     /\ Stage(r, Change(t, row, M)) /\ team[t] # None
                     /\ row # None => row.limit_events \subseteq events /\ row.members = team[t].members \ M
<1>1. CASE DeleteTeam(r, t)
  BY <1>1 DEF DeleteTeam
<1>2. ASSUME NEW all \in BOOLEAN, NEW limit \in SUBSET events, NEW can \in PermissionSets,
             EditTeam(r, t, all, limit, can)
      PROVE  Goal
  <2> DEFINE old == team[t]
             L == IF all THEN {} ELSE limit
             row == [old EXCEPT !.all_events = all, !.limit_events = L, !.can = can]
  <2>1. Stage(r, Change(t, row, {})) /\ old # None
    BY <1>2 DEF EditTeam
  <2>2. old \in Team /\ L \in SUBSET Events /\ L \subseteq events /\ can \in SUBSET Permissions
    BY <2>1, PermissionsAssumption DEF TeamInv, TeamPart, ActorPart
  <2> HIDE DEF old, L
  <2>3. row \in Team /\ row.limit_events = L /\ row.members = old.members
    BY <2>2 DEF Team
  <2> HIDE DEF row
  <2>4. old.members \ {} = team[t].members
    BY DEF old
  <2> QED
    BY <2>1, <2>2, <2>3, <2>4 DEF old
<1>3. ASSUME NEW all \in BOOLEAN, NEW limit \in SUBSET events, NEW can \in PermissionSets, NEW members \in SUBSET Users,
             PatchTeam(r, t, all, limit, can, members)
      PROVE  Goal
  <2> DEFINE row == [members |-> members, all_events |-> all, limit_events |-> limit, can |-> can]
             M == team[t].members \ members
  <2>1. Stage(r, Change(t, row, M)) /\ team[t] # None /\ members \subseteq team[t].members
    BY <1>3 DEF PatchTeam
  <2>2. row \in Team /\ row.limit_events \subseteq events /\ row.members = members
    BY Patched
  <2>3. M \in SUBSET Users /\ team[t].members \ M = members
    BY <2>1 DEF TeamInv, TeamPart, Team
  <2> HIDE DEF row, M
  <2> QED
    BY <2>1, <2>2, <2>3
<1> QED
  BY <1>1, <1>2, <1>3

LEMMA EditStep ==
  ASSUME TeamInv, NEW r \in Requests, NEW t \in TeamIds, NEW row \in Team \cup {None}, NEW M \in SUBSET Users,
         Stage(r, Change(t, row, M)), row # None => row.limit_events \subseteq events
  PROVE  TeamInv'
<1> DEFINE c == Change(t, row, M)
<1>1. c \in Staged /\ StagedOK(c)
  BY Changes
<1> HIDE DEF c
<1> QED
  BY <1>1, StageStep DEF c

\* The row of team t when request c commits.
Committed(c) ==
  IF team[c.team] = None \/ c.row = None THEN None
  ELSE [IF c.columns THEN c.row ELSE team[c.team] EXCEPT !.members = team[c.team].members \ c.remove]

LEMMA CommittedRow ==
  ASSUME TeamInv, NEW c \in Staged, StagedOK(c)
  PROVE  /\ c.team \in TeamIds /\ c.columns \in BOOLEAN
         /\ Committed(c) \in Team \cup {None}
         /\ Committed(c) # None =>
              /\ Committed(c).limit_events \subseteq events
              /\ team[c.team] # None /\ c.row # None
              /\ Committed(c).members = team[c.team].members \ c.remove
              /\ LET row == IF c.columns THEN c.row ELSE team[c.team]
                 IN Committed(c).all_events = row.all_events /\ Committed(c).limit_events = row.limit_events
                      /\ Committed(c).can = row.can
         /\ team[c.team] # None /\ c.row # None => Committed(c) # None
<1> DEFINE row == IF c.columns THEN c.row ELSE team[c.team]
           M == team[c.team].members \ c.remove
<1>2. c.team \in TeamIds /\ c.row \in Team \cup {None} /\ c.columns \in BOOLEAN
  BY DEF Staged
<1>3. CASE team[c.team] = None \/ c.row = None
  BY <1>2, <1>3 DEF Committed
<1>4. CASE team[c.team] # None /\ c.row # None
  <2>1. row \in Team /\ row.limit_events \subseteq events
    BY <1>2, <1>4 DEF TeamInv, TeamPart, StagedOK
  <2>2. M \in SUBSET Users
    BY <1>2, <1>4 DEF TeamInv, TeamPart, Team
  <2>3. Committed(c) = [row EXCEPT !.members = M]
    BY <1>4 DEF Committed
  <2> HIDE DEF row, M
  <2>4. /\ Committed(c) \in Team /\ Committed(c) # None /\ Committed(c).members = M
        /\ Committed(c).limit_events = row.limit_events
        /\ Committed(c).all_events = row.all_events /\ Committed(c).can = row.can
    BY <2>1, <2>2, <2>3, TeamRow
  <2> QED
    BY <1>2, <1>4, <2>1, <2>4 DEF row, M
<1> QED
  BY <1>3, <1>4

LEMMA CommitTeams ==
  ASSUME TeamInv, NEW r \in Requests, Commit(r)
  PROVE  team' = [team EXCEPT ![request[r].team] = Committed(request[r])]
BY DEF Commit, Committed

\* A token when a request commits.
LEMMA CommittedToken ==
  ASSUME TeamInv, NEW r \in Requests, Commit(r), NEW k \in TokenIds, token[k] # None
  PROVE  LET c == request[r]
         IN /\ token'[k] \in Token /\ token'[k] # None
            /\ token'[k].limit_events = {e \in token[k].limit_events : <<k, e>> \notin c.tokens.drop}
            /\ token'[k].expired = (token[k].expired \/ k \in c.tokens.expire)
            /\ token'[k].all_events = token[k].all_events
<1> DEFINE c == request[r]
           row == token[k]
           L == {e \in row.limit_events : <<k, e>> \notin c.tokens.drop}
           X == row.expired \/ k \in c.tokens.expire
           new == [row EXCEPT !.limit_events = L, !.expired = X]
<1>1. token' = [j \in TokenIds |-> IF token[j] = None THEN None
           ELSE [token[j] EXCEPT !.limit_events = {e \in @ : <<j, e>> \notin c.tokens.drop},
                                 !.expired = @ \/ j \in c.tokens.expire]]
  BY DEF Commit
<1>2. row \in Token /\ row.expired \in BOOLEAN /\ row.limit_events \in SUBSET Events
  BY DEF TeamInv, TokenPart, Token
<1>3. L \in SUBSET Events /\ X \in BOOLEAN
  BY <1>2
<1>4. token'[k] = new
  BY <1>1
<1> HIDE DEF L, X, row
<1>5. new \in Token /\ new.limit_events = L /\ new.expired = X /\ new.all_events = row.all_events
  BY <1>2, <1>3 DEF Token
<1> HIDE DEF new
<1> QED
  BY <1>4, <1>5, RowAssumption DEF L, X, row

LEMMA CommitStep ==
  ASSUME TeamInv, NEW r \in Requests, Commit(r)
  PROVE  TeamInv'
<1> DEFINE c == request[r]
<1>1. c # None /\ c \in Staged /\ StagedOK(c)
  BY DEF Commit, TeamInv, RequestPart
<1>2. c.tokens.drop \in SUBSET (TokenIds \X Events) /\ c.lost \in SUBSET (TokenIds \X Events)
      /\ c.tokens.expire \in SUBSET TokenIds
  BY <1>1 DEF Staged
<1>3. /\ request' = [request EXCEPT ![r] = None]
      /\ token' = [k \in TokenIds |-> IF token[k] = None THEN None
           ELSE [token[k] EXCEPT !.limit_events = {e \in @ : <<k, e>> \notin c.tokens.drop},
                                 !.expired = @ \/ k \in c.tokens.expire]]
      /\ dropped' = dropped \cup c.lost
      /\ invite' = [i \in InviteIds |-> IF invite[i] = c.team /\ c.row = None THEN Gone ELSE invite[i]]
      /\ UNCHANGED <<events, active, visit, form, admitted>>
  BY DEF Commit
<1>4. TeamPart'
  BY <1>1, <1>3, CommitTeams, CommittedRow DEF TeamInv, TeamPart
<1>5. InvitePart'
  BY <1>3 DEF TeamInv, InvitePart
<1>7. \A k \in TokenIds : token[k] # None =>
        /\ token'[k] \in Token /\ token'[k] # None
        /\ token'[k].limit_events = {e \in token[k].limit_events : <<k, e>> \notin c.tokens.drop}
        /\ token'[k].expired = (token[k].expired \/ k \in c.tokens.expire)
        /\ token'[k].all_events = token[k].all_events
  BY CommittedToken
<1>8. \A k \in TokenIds : token[k] = None => token'[k] = None
  BY <1>3
<1>9. TokenPart'
  <2>1. token' \in [TokenIds -> Token \cup {None}]
    BY <1>3, <1>7, <1>8
  <2>2. ASSUME NEW k \in TokenIds, token'[k] # None
        PROVE  token'[k].limit_events \subseteq events /\ (token'[k].all_events => token'[k].limit_events = {})
    <3>1. token[k] # None
      BY <1>8, <2>2
    <3>2. token'[k].limit_events \subseteq token[k].limit_events /\ token'[k].all_events = token[k].all_events
      BY <1>7, <3>1
    <3> QED
      BY <3>1, <3>2 DEF TeamInv, TokenPart
  <2> QED
    BY <1>3, <2>1, <2>2 DEF TokenPart
<1>10. DroppedPart'
  <2>1. dropped' \subseteq TokenIds \X Events
    BY <1>2, <1>3 DEF TeamInv, DroppedPart
  <2>2. ASSUME NEW k \in TokenIds, NEW e \in Events, <<k, e>> \in dropped'
        PROVE  token'[k] # None /\ (token'[k].expired \/ e \notin token'[k].limit_events)
    <3>1. CASE <<k, e>> \in dropped
      <4>1. token[k] # None /\ (token[k].expired \/ e \notin token[k].limit_events)
        BY <3>1 DEF TeamInv, DroppedPart
      <4> QED
        BY <1>7, <4>1
    <3>2. CASE <<k, e>> \in c.lost
      <4>1. token[k] # None /\ <<k, e>> \in c.tokens.drop
        BY <1>1, <3>2 DEF StagedOK
      <4> QED
        BY <1>7, <4>1
    <3> QED
      BY <1>3, <2>2, <3>1, <3>2
  <2> QED
    BY <2>1, <2>2 DEF DroppedPart
<1>11. RequestPart'
  <2>1. request' \in [Requests -> Staged \cup {None}] /\ \A s \in Requests : request'[s] # None => request'[s] = request[s]
    BY <1>3 DEF TeamInv, RequestPart
  <2> QED
    BY <1>3, <1>7, <2>1 DEF TeamInv, RequestPart, StagedOK
<1> QED
  BY <1>3, <1>4, <1>5, <1>9, <1>10, <1>11, SameActors, SameForms DEF TeamInv

-----------------------------------------------------------------------------
(* Invitations.                                                            *)

LEMMA InviteStep ==
  ASSUME TeamInv, NEW i \in InviteIds,
         RetractInvite(i) \/ \E t \in TeamIds : CreateInvite(i, t) \/ MoveInvite(i, t)
  PROVE  TeamInv'
<1>1. UNCHANGED <<events, team, token, active, visit, request, form, admitted, dropped>>
  BY DEF RetractInvite, CreateInvite, MoveInvite
<1>2. InvitePart'
  BY <1>1, RowAssumption DEF RetractInvite, CreateInvite, MoveInvite, OpenInvites, TeamInv, InvitePart
<1> QED
  BY <1>1, <1>2, SameTeams, SameTokens, SameRequests, SameActors, SameForms DEF TeamInv

LEMMA OpenInviteStep ==
  ASSUME TeamInv, NEW u \in Users, NEW i \in InviteIds, OpenInvite(u, i)
  PROVE  TeamInv'
<1>1. visit' = [visit EXCEPT ![u] = i] /\ UNCHANGED <<events, team, invite, token, active, request, form, admitted, dropped>>
  BY DEF OpenInvite
<1>2. InvitePart'
  BY <1>1 DEF TeamInv, InvitePart
<1> QED
  BY <1>1, <1>2, SameTeams, SameTokens, SameRequests, SameActors, SameForms DEF TeamInv

LEMMA AcceptStep ==
  ASSUME TeamInv, NEW u \in Users, AcceptInvite(u)
  PROVE  TeamInv'
<1> DEFINE i == visit[u]
           t == invite[i]
<1>1. i # None /\ visit' = [visit EXCEPT ![u] = None] /\ UNCHANGED <<events, token, active, form, dropped>>
  BY DEF AcceptInvite
<1>2. i \in InviteIds
  BY <1>1 DEF TeamInv, InvitePart
<1>3. CASE ~StillOpen(i)
  <2>1. UNCHANGED <<team, invite, admitted, request>>
    BY <1>3 DEF AcceptInvite
  <2>2. InvitePart'
    BY <1>1, <2>1 DEF TeamInv, InvitePart
  <2> QED
    BY <1>1, <2>1, <2>2, SameTeams, SameTokens, SameRequests, SameActors, SameForms DEF TeamInv
<1>4. CASE StillOpen(i)
  <2>0. /\ team[t] # None
        /\ team' = [team EXCEPT ![t].members = @ \cup {u}]
        /\ invite' = [invite EXCEPT ![i] = Gone]
        /\ admitted' = [admitted EXCEPT ![i] = @ \cup {u}]
        /\ request' = KeepColumns(t)
    BY <1>4 DEF AcceptInvite
  <2>a. t \in TeamIds
    BY <1>4 DEF StillOpen, OpenInvites
  <2>b. team' = [team EXCEPT ![t] = [team[t] EXCEPT !.members = team[t].members \cup {u}]]
    BY <2>0, <2>a DEF TeamInv, TeamPart
  <2>1. /\ team[t] # None
        /\ team' = [team EXCEPT ![t] = [team[t] EXCEPT !.members = team[t].members \cup {u}]]
        /\ invite' = [invite EXCEPT ![i] = Gone]
        /\ admitted' = [admitted EXCEPT ![i] = admitted[i] \cup {u}]
        /\ request' = KeepColumns(t)
    BY <1>2, <2>0, <2>b DEF TeamInv, InvitePart
  <2>2. t \in TeamIds /\ team[t] \in Team /\ team[t].limit_events \subseteq events /\ team[t].members \in SUBSET Users
    BY <1>4, <2>1 DEF StillOpen, OpenInvites, TeamInv, TeamPart, Team
  <2>3. admitted[i] = {}
    BY <1>2, <2>2, RowAssumption DEF TeamInv, InvitePart
  <2>4. TeamPart'
    <3> DEFINE row == [team[t] EXCEPT !.members = team[t].members \cup {u}]
    <3>1. row \in Team /\ row.limit_events \subseteq events
      BY <2>2, TeamRow
    <3>2. team' = [team EXCEPT ![t] = row] /\ UNCHANGED events
      BY <1>1, <2>1
    <3> HIDE DEF row
    <3> QED
      BY <2>2, <3>1, <3>2 DEF TeamInv, TeamPart
  <2>5. InvitePart'
    <3>1. /\ invite' \in [InviteIds -> TeamIds \cup {None, Gone}] /\ visit' \in [Users -> InviteIds \cup {None}]
          /\ admitted' \in [InviteIds -> SUBSET Users]
      BY <1>1, <1>2, <2>1 DEF TeamInv, InvitePart
    <3>2. /\ \A j \in InviteIds : invite'[j] # Gone => admitted'[j] = {}
          /\ \A j \in InviteIds : \A v, w \in admitted'[j] : v = w
      BY <1>2, <2>1, <2>3 DEF TeamInv, InvitePart
    <3> QED
      BY <3>1, <3>2 DEF InvitePart
  <2>6. RequestPart'
    <3>1. ASSUME NEW r \in Requests, request[r] # None
          PROVE  /\ [request[r] EXCEPT !.row = team[t]] \in Staged
                 /\ StagedOK([request[r] EXCEPT !.row = team[t]])
      <4> DEFINE q == request[r]
                 new == [q EXCEPT !.row = team[t]]
      <4>1. q \in Staged /\ StagedOK(q)
        BY <3>1 DEF TeamInv, RequestPart
      <4> HIDE DEF q
      <4>2. new \in Staged /\ new.row = team[t] /\ new.tokens = q.tokens /\ new.lost = q.lost
        BY <2>2, <4>1 DEF Staged
      <4> HIDE DEF new
      <4>3. StagedOK(new)
        BY <2>2, <4>1, <4>2 DEF StagedOK
      <4> QED
        BY <4>2, <4>3 DEF new, q
    <3>2. ASSUME NEW r \in Requests
          PROVE  /\ request'[r] \in Staged \cup {None}
                 /\ request'[r] # None => StagedOK(request'[r])
      BY <2>1, <3>1 DEF KeepColumns, Busy, TeamInv, RequestPart
    <3>3. request' \in [Requests -> Staged \cup {None}]
      BY <2>1, <3>2 DEF KeepColumns
    <3> QED
      BY <1>1, <3>2, <3>3 DEF RequestPart, StagedOK
  <2> QED
    BY <1>1, <2>4, <2>5, <2>6, SameTokens, SameActors, SameForms DEF TeamInv
<1> QED
  BY <1>3, <1>4

-----------------------------------------------------------------------------
(* Teams, events and accounts.                                             *)

\* A row that is new, with events of the organiser.
LEMMA NewTeam ==
  ASSUME ActorPart, NEW M \in SUBSET Users, NEW all \in BOOLEAN, NEW L \in SUBSET Events, NEW can \in SUBSET Permissions
  PROVE  LET new == [members |-> M, all_events |-> all, limit_events |-> L, can |-> can]
         IN new \in Team /\ new # None /\ new.limit_events = L
<1> DEFINE new == [members |-> M, all_events |-> all, limit_events |-> L, can |-> can]
<1>1. new \in Team /\ new.limit_events = L
  BY DEF Team
<1> HIDE DEF new
<1> QED
  BY <1>1, RowAssumption DEF new

LEMMA CreateTeamStep ==
  ASSUME TeamInv, NEW t \in TeamIds, NEW all \in BOOLEAN, NEW limit \in SUBSET events, NEW can \in PermissionSets,
         CreateTeam(t, all, limit, can)
  PROVE  TeamInv'
<1> DEFINE L == IF all THEN {} ELSE limit
           row == [members |-> {}, all_events |-> all, limit_events |-> L, can |-> can]
<1>1. team' = [team EXCEPT ![t] = row] /\ UNCHANGED <<events, invite, token, active, visit, request, form, admitted, dropped>>
  BY DEF CreateTeam
<1>2. L \in SUBSET Events /\ L \subseteq events /\ can \in SUBSET Permissions
  BY PermissionsAssumption DEF TeamInv, ActorPart
<1> HIDE DEF L
<1>3. row \in Team /\ row.limit_events = L
  BY <1>2, NewTeam DEF TeamInv
<1> HIDE DEF row
<1>4. TeamPart'
  BY <1>1, <1>2, <1>3 DEF TeamInv, TeamPart
<1> QED
  BY <1>1, <1>4, SameInvites, SameTokens, SameRequests, SameActors, SameForms DEF TeamInv

LEMMA CreateEventStep ==
  ASSUME TeamInv, NEW u \in Users, NEW e \in Events, NEW t \in TeamIds, CreateEvent(u, e, t)
  PROVE  TeamInv'
<1> DEFINE row == [members |-> {u}, all_events |-> FALSE, limit_events |-> {e}, can |-> {"control"}]
<1>1. events' = events \cup {e} /\ UNCHANGED <<invite, token, active, visit, request, form, admitted, dropped>>
      /\ (UNCHANGED team \/ team' = [team EXCEPT ![t] = row])
  BY DEF CreateEvent
<1>2. row \in Team /\ row.limit_events = {e}
  <2>1. {u} \in SUBSET Users /\ {e} \in SUBSET Events /\ {"control"} \in SUBSET Permissions /\ FALSE \in BOOLEAN
    BY DEF Permissions
  <2> QED
    BY <2>1, NewTeam DEF TeamInv
<1> HIDE DEF row
<1>3. TeamPart'
  BY <1>1, <1>2 DEF TeamInv, TeamPart
<1>4. ActorPart'
  BY <1>1 DEF TeamInv, ActorPart
<1> QED
  BY <1>1, <1>3, <1>4, SameInvites, SameTokens, SameRequests, SameForms DEF TeamInv

LEMMA ShreddedToken ==
  ASSUME TeamInv, NEW e \in Events, ShredEvent(e), NEW k \in TokenIds, token[k] # None
  PROVE  /\ token'[k] \in Token /\ token'[k] # None /\ token'[k].limit_events = token[k].limit_events \ {e}
         /\ token'[k].expired = token[k].expired /\ token'[k].all_events = token[k].all_events
<1> DEFINE row == token[k]
           new == [row EXCEPT !.limit_events = row.limit_events \ {e}]
<1>1. row \in Token
  BY DEF TeamInv, TokenPart
<1>2. token'[k] = new
  BY DEF ShredEvent
<1> HIDE DEF row
<1>3. new \in Token /\ new.limit_events = row.limit_events \ {e} /\ new.expired = row.expired /\ new.all_events = row.all_events
  BY <1>1 DEF Token
<1> HIDE DEF new
<1> QED
  BY <1>2, <1>3, RowAssumption DEF row

LEMMA ShredStep ==
  ASSUME TeamInv, NEW e \in Events, ShredEvent(e)
  PROVE  TeamInv'
<1>1. /\ Busy = {} /\ events' = events \ {e}
      /\ team' = [t \in TeamIds |-> IF team[t] = None THEN None
                                    ELSE [team[t] EXCEPT !.limit_events = team[t].limit_events \ {e}]]
      /\ token' = [k \in TokenIds |-> IF token[k] = None THEN None
                                      ELSE [token[k] EXCEPT !.limit_events = token[k].limit_events \ {e}]]
      /\ UNCHANGED <<invite, active, visit, request, form, admitted, dropped>>
  BY DEF ShredEvent
<1>2. ASSUME NEW t \in TeamIds, team[t] # None
      PROVE  team'[t] \in Team /\ team'[t].limit_events = team[t].limit_events \ {e}
  <2>1. team[t] \in Team /\ team[t].limit_events \ {e} \in SUBSET Events
    BY <1>2 DEF TeamInv, TeamPart, Team
  <2> QED
    BY <1>1, <1>2, <2>1, TeamRowEvents
<1>3. TeamPart'
  BY <1>1, <1>2 DEF TeamInv, TeamPart
<1>4. \A k \in TokenIds : token[k] # None =>
        /\ token'[k] \in Token /\ token'[k] # None /\ token'[k].limit_events = token[k].limit_events \ {e}
        /\ token'[k].expired = token[k].expired /\ token'[k].all_events = token[k].all_events
  BY ShreddedToken
<1>5. TokenPart' /\ DroppedPart'
  <2>1. token' \in [TokenIds -> Token \cup {None}]
    BY <1>1, <1>4
  <2>2. \A k \in TokenIds : token[k] = None => token'[k] = None
    BY <1>1
  <2>3. ASSUME NEW k \in TokenIds, token'[k] # None
        PROVE  token'[k].limit_events \subseteq events' /\ (token'[k].all_events => token'[k].limit_events = {})
    <3>1. token[k] # None
      BY <2>2, <2>3
    <3>2. token[k].limit_events \subseteq events /\ (token[k].all_events => token[k].limit_events = {})
      BY <3>1 DEF TeamInv, TokenPart
    <3> QED
      BY <1>1, <1>4, <3>1, <3>2
  <2>4. ASSUME NEW k \in TokenIds, NEW f \in Events, <<k, f>> \in dropped
        PROVE  token'[k] # None /\ (token'[k].expired \/ f \notin token'[k].limit_events)
    <3>1. token[k] # None /\ (token[k].expired \/ f \notin token[k].limit_events)
      BY <2>4 DEF TeamInv, DroppedPart
    <3> QED
      BY <1>4, <3>1
  <2>5. TokenPart'
    BY <2>1, <2>3 DEF TokenPart
  <2>6. DroppedPart'
    BY <1>1, <2>4 DEF TeamInv, DroppedPart
  <2> QED
    BY <2>5, <2>6
<1>6. RequestPart'
  BY <1>1 DEF TeamInv, RequestPart, Busy
<1>7. ActorPart'
  BY <1>1 DEF TeamInv, ActorPart
<1> QED
  BY <1>1, <1>3, <1>5, <1>6, <1>7, SameInvites, SameForms DEF TeamInv

LEMMA DeactivateStep ==
  ASSUME TeamInv, NEW u \in Users, DeactivateUser(u)
  PROVE  TeamInv'
<1>1. /\ active' = active \ {u}
      /\ team' = [t \in TeamIds |-> IF team[t] = None THEN None ELSE [team[t] EXCEPT !.members = team[t].members \ {u}]]
      /\ visit' = [visit EXCEPT ![u] = None]
      /\ UNCHANGED <<events, invite, token, request, form, admitted, dropped>>
  BY DEF DeactivateUser
<1>2. ASSUME NEW t \in TeamIds, team[t] # None
      PROVE  team'[t] \in Team /\ team'[t].limit_events = team[t].limit_events
  <2>1. team[t] \in Team /\ team[t].members \ {u} \in SUBSET Users
    BY <1>2 DEF TeamInv, TeamPart, Team
  <2> QED
    BY <1>1, <1>2, <2>1, TeamRow
<1>3. TeamPart'
  BY <1>1, <1>2 DEF TeamInv, TeamPart
<1>4. InvitePart' /\ ActorPart'
  BY <1>1 DEF TeamInv, InvitePart, ActorPart
<1> QED
  BY <1>1, <1>3, <1>4, SameTokens, SameRequests, SameForms DEF TeamInv

-----------------------------------------------------------------------------
(* Tokens.                                                                 *)

\* Tokens of which one is new or changed.
LEMMA TokenStep ==
  ASSUME TeamInv, NEW k \in TokenIds, NEW row \in Token,
         row.limit_events \subseteq events, row.all_events => row.limit_events = {},
         token' = [token EXCEPT ![k] = row], dropped' \subseteq dropped,
         \A e \in Events : <<k, e>> \in dropped' => row.expired \/ e \notin row.limit_events,
         UNCHANGED <<events, team, invite, active, visit, request, admitted>>, FormPart'
  PROVE  TeamInv'
<1>1. row # None
  BY RowAssumption
<1>2. token' \in [TokenIds -> Token \cup {None}] /\ \A j \in TokenIds : token'[j] = IF j = k THEN row ELSE token[j]
  BY DEF TeamInv, TokenPart
<1>3. TokenPart' /\ DroppedPart'
  BY <1>1, <1>2 DEF TeamInv, TokenPart, DroppedPart
<1>4. RequestPart'
  BY <1>1, <1>2, SameRequests DEF TeamInv
<1> QED
  BY <1>3, <1>4, SameTeams, SameInvites, SameActors DEF TeamInv

LEMMA OpenFormStep ==
  ASSUME TeamInv, NEW r \in Requests, NEW k \in TokenIds \cup {None}, NEW u \in Users, NEW all \in BOOLEAN,
         NEW limit \in SUBSET events, OpenTokenForm(r, k, u, all, limit)
  PROVE  TeamInv'
<1> DEFINE L == IF all THEN {} ELSE limit
           f == [id |-> k, user |-> u, all_events |-> all, limit_events |-> L, lapsed |-> FALSE]
<1>1. form' = [form EXCEPT ![r] = f]
      /\ UNCHANGED <<events, team, invite, token, active, visit, request, admitted, dropped>>
  BY DEF OpenTokenForm
<1>2. L \in SUBSET Events /\ (all => L = {})
  BY DEF TeamInv, ActorPart
<1> HIDE DEF L
<1>3. f \in TokenForm /\ f.all_events = all /\ f.limit_events = L
  BY <1>2 DEF TokenForm
<1> HIDE DEF f
<1>4. FormPart'
  BY <1>1, <1>2, <1>3 DEF TeamInv, FormPart
<1> QED
  BY <1>1, <1>4, SameTeams, SameInvites, SameTokens, SameRequests, SameActors DEF TeamInv

LEMMA SaveFormStep ==
  ASSUME TeamInv, NEW r \in Requests, NEW k \in TokenIds, SaveTokenForm(r, k)
  PROVE  TeamInv'
<1> DEFINE f == form[r]
           row == [user |-> f.user, all_events |-> f.all_events,
                   limit_events |-> f.limit_events, expired |-> f.lapsed]
<1>1. /\ f # None /\ f.limit_events \subseteq events
      /\ token' = [token EXCEPT ![k] = row] /\ form' = [form EXCEPT ![r] = None]
      /\ dropped' = {d \in dropped : d[1] # k}
      /\ UNCHANGED <<events, team, invite, active, visit, request, admitted>>
  BY DEF SaveTokenForm
<1>2. f \in TokenForm /\ (f.all_events => f.limit_events = {})
  BY <1>1 DEF TeamInv, FormPart
<1>3. FormPart'
  BY <1>1 DEF TeamInv, FormPart
<1> HIDE DEF f
<1>4. row \in Token /\ row.limit_events = f.limit_events /\ row.all_events = f.all_events
  BY <1>2 DEF Token, TokenForm
<1> HIDE DEF row
<1>5. \A e \in Events : <<k, e>> \notin dropped'
  BY <1>1
<1> QED
  BY <1>1, <1>2, <1>3, <1>4, <1>5, TokenStep

LEMMA DropFormStep ==
  ASSUME TeamInv, NEW r \in Requests, DropTokenForm(r)
  PROVE  TeamInv'
<1>1. form' = [form EXCEPT ![r] = None]
      /\ UNCHANGED <<events, team, invite, token, active, visit, request, admitted, dropped>>
  BY DEF DropTokenForm
<1>2. FormPart'
  BY <1>1 DEF TeamInv, FormPart
<1> QED
  BY <1>1, <1>2, SameTeams, SameInvites, SameTokens, SameRequests, SameActors DEF TeamInv

\* A token whose expiry is set or comes.
LEMMA ExpiredRow ==
  ASSUME TeamInv, NEW k \in TokenIds, token[k] # None, token' = [token EXCEPT ![k].expired = TRUE],
         UNCHANGED <<events, team, invite, active, visit, request, admitted, dropped>>, FormPart'
  PROVE  TeamInv' /\ token'[k] # None /\ token'[k].expired /\ token'[k].limit_events = token[k].limit_events
<1> DEFINE row == token[k]
           new == [row EXCEPT !.expired = TRUE]
<1>1. token' = [token EXCEPT ![k] = new] /\ token'[k] = new
  BY DEF TeamInv, TokenPart
<1>2. row \in Token /\ row.limit_events \subseteq events /\ (row.all_events => row.limit_events = {})
  BY DEF TeamInv, TokenPart
<1> HIDE DEF row
<1>3. new \in Token /\ new.limit_events = row.limit_events /\ new.all_events = row.all_events /\ new.expired = TRUE
  BY <1>2 DEF Token
<1> HIDE DEF new
<1>4. TeamInv'
  BY <1>1, <1>2, <1>3, TokenStep
<1> QED
  BY <1>1, <1>3, <1>4, RowAssumption DEF row

LEMMA RevokeStep ==
  ASSUME TeamInv, NEW k \in TokenIds, RevokeToken(k)
  PROVE  TeamInv' /\ token'[k] # None /\ token'[k].expired /\ token'[k].limit_events = token[k].limit_events
BY ExpiredRow, SameForms DEF RevokeToken, Active, TeamInv

\* The copies of a token that lapses.
LEMMA LapsedForms ==
  ASSUME TeamInv, NEW k \in TokenIds, LapseToken(k)
  PROVE  /\ FormPart'
         /\ \A r \in Requests : /\ form'[r] # None <=> form[r] # None
                                /\ form[r] # None => form'[r].id = form[r].id
<1>1. form' = [r \in Requests |-> IF Fresh(r, k) THEN [form[r] EXCEPT !.lapsed = TRUE] ELSE form[r]]
  BY DEF LapseToken
<1>2. ASSUME NEW r \in Requests
      PROVE  /\ form'[r] \in TokenForm \cup {None}
             /\ form'[r] # None <=> form[r] # None
             /\ form[r] # None => /\ form'[r].id = form[r].id /\ form'[r].all_events = form[r].all_events
                                  /\ form'[r].limit_events = form[r].limit_events
  <2>1. CASE ~Fresh(r, k)
    BY <1>1, <2>1 DEF TeamInv, FormPart
  <2>2. CASE Fresh(r, k)
    <3> DEFINE f == form[r]
               new == [f EXCEPT !.lapsed = TRUE]
    <3>1. f \in TokenForm /\ form'[r] = new
      BY <1>1, <2>2 DEF Fresh, TeamInv, FormPart
    <3> HIDE DEF f
    <3>2. /\ new \in TokenForm /\ new.id = f.id /\ new.all_events = f.all_events
          /\ new.limit_events = f.limit_events
      BY <3>1 DEF TokenForm
    <3> HIDE DEF new
    <3>3. new # None /\ f # None
      BY <3>1, <3>2, RowAssumption
    <3> QED
      BY <3>1, <3>2, <3>3 DEF f
  <2> QED
    BY <2>1, <2>2
<1>3. form' \in [Requests -> TokenForm \cup {None}]
  <2>1. DOMAIN form' = Requests /\ form' = [r \in Requests |-> form'[r]]
    BY <1>1
  <2> QED
    BY <1>2, <2>1
<1>4. FormPart'
  BY <1>2, <1>3 DEF TeamInv, FormPart
<1> QED
  BY <1>2, <1>4

LEMMA LapseStep ==
  ASSUME TeamInv, NEW k \in TokenIds, LapseToken(k)
  PROVE  TeamInv' /\ token'[k] # None /\ token'[k].expired /\ token'[k].limit_events = token[k].limit_events
<1>1. /\ token[k] # None /\ token' = [token EXCEPT ![k].expired = TRUE]
      /\ UNCHANGED <<events, team, invite, active, visit, request, admitted, dropped>>
  BY DEF LapseToken
<1> QED
  BY <1>1, LapsedForms, ExpiredRow

-----------------------------------------------------------------------------
LEMMA TeamInit == TeamsInit => TeamInv
<1> SUFFICES ASSUME TeamsInit PROVE TeamInv
  OBVIOUS
<1>1. PICK first \in TeamIds, founder \in Users :
        team = [t \in TeamIds |-> IF t = first
                 THEN [members |-> {founder}, all_events |-> FALSE, limit_events |-> {},
                       can |-> {"can_change_teams", "can_create_events"}]
                 ELSE None]
  BY DEF TeamsInit
<1> DEFINE row == [members |-> {founder}, all_events |-> FALSE, limit_events |-> {},
                   can |-> {"can_change_teams", "can_create_events"}]
<1>2. row \in Team /\ row.limit_events = {}
  BY DEF Team, Permissions
<1> HIDE DEF row
<1>3. team = [t \in TeamIds |-> IF t = first THEN row ELSE None]
  BY <1>1 DEF row
<1>4. TeamPart
  BY <1>2, <1>3 DEF TeamPart
<1>5. ActorPart /\ InvitePart /\ TokenPart /\ DroppedPart /\ RequestPart /\ FormPart
  BY DEF TeamsInit, ActorPart, InvitePart, TokenPart, DroppedPart, RequestPart, FormPart
<1> QED
  BY <1>4, <1>5 DEF TeamInv

LEMMA TeamNext == TeamInv /\ [TeamsNext]_teamVars => TeamInv'
<1> SUFFICES ASSUME TeamInv, [TeamsNext]_teamVars PROVE TeamInv'
  OBVIOUS
<1>1. CASE UNCHANGED teamVars
  BY <1>1, SameTeams, SameInvites, SameTokens, SameRequests, SameForms, SameActors DEF teamVars, TeamInv
<1>2. ASSUME \/ \E k \in TokenIds : RevokeToken(k) \/ LapseToken(k)
             \/ \E r \in Requests :
                  \/ \E k \in TokenIds \cup {None}, u \in Users, all \in BOOLEAN, limit \in SUBSET events :
                       OpenTokenForm(r, k, u, all, limit)
                  \/ \E k \in TokenIds : SaveTokenForm(r, k)
                  \/ DropTokenForm(r)
      PROVE  TeamInv'
  BY <1>2, OpenFormStep, SaveFormStep, DropFormStep, RevokeStep, LapseStep
<1> QED
  BY <1>1, <1>2, RemoveMemberStep, Edits, EditStep, CommitStep, CreateTeamStep, InviteStep, AcceptStep, DeactivateStep,
     OpenInviteStep, CreateEventStep, ShredStep DEF TeamsNext

\* Types, and no row names an event that is gone.
THEOREM TeamsTypeCorrect == TeamsSpec => []TeamsTypeOK
<1>1. TeamInv => TeamsTypeOK
  BY DEF TeamInv, ActorPart, TeamPart, InvitePart, TokenPart, DroppedPart, RequestPart, FormPart, TeamsTypeOK, Rows
<1> QED
  BY TeamInit, TeamNext, <1>1, PTL DEF TeamsSpec

\* An invitation brings at most one person into a team.
THEOREM InvitesAdmitOnce == TeamsSpec => []InviteAdmitsOnce
<1>1. TeamInv => InviteAdmitsOnce
  BY DEF TeamInv, InvitePart, InviteAdmitsOnce
<1> QED
  BY TeamInit, TeamNext, <1>1, PTL DEF TeamsSpec

\* What a token lost with a team does not come back with it.
THEOREM RemovalsShrinkTokens == TeamsSpec => []RemovalShrinksTokens
<1>1. TeamInv => RemovalShrinksTokens
  BY DEF TeamInv, DroppedPart, RemovalShrinksTokens, Active
<1> QED
  BY TeamInit, TeamNext, <1>1, PTL DEF TeamsSpec

\* A token that expires while no form of it is in hand stays expired, is never
\* loaded by a form again and never reaches more.
THEOREM ExpiredStays == TeamsSpec => ExpiredForGood
<1> DEFINE Kept(k) == Dead(k)' /\ token'[k].limit_events \subseteq token[k].limit_events
<1>1. ASSUME TeamInv, [TeamsNext]_teamVars, NEW k \in TokenIds, Dead(k)
      PROVE  Kept(k)
  <2>0. /\ token[k] # None /\ token[k].expired /\ token \in [TokenIds -> Token \cup {None}]
        /\ form \in [Requests -> TokenForm \cup {None}]
        /\ \A r \in Requests : form[r] # None => form[r].id # k
    BY <1>1 DEF Dead, TeamInv, TokenPart, FormPart
  <2>1. CASE UNCHANGED <<token, form>>
    BY <2>0, <2>1 DEF Dead
  <2>2. ASSUME NEW r \in Requests, Commit(r)
        PROVE  Kept(k)
    <3>1. UNCHANGED form
      BY <2>2 DEF Commit
    <3> QED
      BY <1>1, <2>0, <2>2, <3>1, CommittedToken DEF Dead
  <2>3. ASSUME NEW e \in Events, ShredEvent(e)
        PROVE  Kept(k)
    <3>1. UNCHANGED form
      BY <2>3 DEF ShredEvent
    <3> QED
      BY <1>1, <2>0, <2>3, <3>1, ShreddedToken DEF Dead
  <2>4. ASSUME NEW r \in Requests, NEW j \in TokenIds \cup {None}, NEW u \in Users, NEW all \in BOOLEAN,
               NEW limit \in SUBSET events, OpenTokenForm(r, j, u, all, limit)
        PROVE  Kept(k)
    <3> DEFINE f == [id |-> j, user |-> u, all_events |-> all,
                     limit_events |-> IF all THEN {} ELSE limit, lapsed |-> FALSE]
    <3>1. form' = [form EXCEPT ![r] = f] /\ UNCHANGED token /\ (j # None => ~token[j].expired)
      BY <2>4 DEF OpenTokenForm, Active
    <3>2. f.id = j /\ j # k
      BY <2>0, <3>1, RowAssumption
    <3> HIDE DEF f
    <3> QED
      BY <2>0, <3>1, <3>2 DEF Dead
  <2>5. ASSUME NEW r \in Requests, NEW j \in TokenIds, SaveTokenForm(r, j)
        PROVE  Kept(k)
    <3> DEFINE row == [user |-> form[r].user, all_events |-> form[r].all_events,
                       limit_events |-> form[r].limit_events, expired |-> form[r].lapsed]
    <3>1. /\ form[r] # None /\ (j = form[r].id \/ token[j] = None)
          /\ form' = [form EXCEPT ![r] = None] /\ token' = [token EXCEPT ![j] = row]
      BY <2>5 DEF SaveTokenForm
    <3>2. j # k
      BY <2>0, <3>1
    <3> HIDE DEF row
    <3>3. token'[k] = token[k]
      BY <2>0, <3>1, <3>2
    <3> QED
      BY <2>0, <3>1, <3>3 DEF Dead
  <2>6. ASSUME NEW j \in TokenIds, RevokeToken(j) \/ LapseToken(j)
        PROVE  Kept(k)
    <3>1. CASE RevokeToken(j)
      <4>1. k # j /\ token'[k] = token[k] /\ UNCHANGED form
        BY <2>0, <3>1 DEF RevokeToken, Active
      <4> QED
        BY <2>0, <4>1 DEF Dead
    <3>2. CASE LapseToken(j)
      <4> HIDE DEF Kept
      <4>0. \A r \in Requests : /\ form'[r] # None <=> form[r] # None
                                /\ form[r] # None => form'[r].id = form[r].id
        BY <1>1, <3>2, LapsedForms
      <4>1. \A r \in Requests : form'[r] # None => form[r] # None /\ form'[r].id = form[r].id
        BY <4>0
      <4>2. token' = [token EXCEPT ![j].expired = TRUE]
        BY <3>2 DEF LapseToken
      <4>3. token'[k] # None /\ token'[k].expired /\ token'[k].limit_events = token[k].limit_events
        <5>1. CASE j = k
          BY <1>1, <3>2, <5>1, LapseStep
        <5>2. CASE j # k
          BY <2>0, <4>2, <5>2
        <5> QED
          BY <5>1, <5>2
      <4> QED
        BY <2>0, <4>1, <4>3 DEF Dead, Kept
    <3> QED
      BY <2>6, <3>1, <3>2
  <2>13. ASSUME NEW r \in Requests, DropTokenForm(r)
         PROVE  Kept(k)
    <3>1. form' = [form EXCEPT ![r] = None] /\ UNCHANGED token
      BY <2>13 DEF DropTokenForm
    <3> QED
      BY <2>0, <3>1 DEF Dead
  <2>7. ASSUME NEW r \in Requests, NEW t \in TeamIds,
               \/ \E u \in Users : RemoveMember(r, t, u)
               \/ DeleteTeam(r, t)
               \/ \E all \in BOOLEAN, limit \in SUBSET events, can \in PermissionSets :
                    \/ EditTeam(r, t, all, limit, can)
                    \/ \E members \in SUBSET Users : PatchTeam(r, t, all, limit, can, members)
        PROVE  UNCHANGED <<token, form>>
    <3>1. \A c : Stage(r, c) => UNCHANGED <<token, form>>
      BY DEF Stage
    <3>2. \A u \in Users : RemoveMember(r, t, u) => UNCHANGED <<token, form>>
      BY <3>1, Zenon DEF RemoveMember
    <3>3. DeleteTeam(r, t) => UNCHANGED <<token, form>>
      BY <3>1 DEF DeleteTeam
    <3>4. \A all \in BOOLEAN, limit \in SUBSET events, can \in PermissionSets :
            EditTeam(r, t, all, limit, can) => UNCHANGED <<token, form>>
      BY <3>1, Zenon DEF EditTeam
    <3>5. \A all \in BOOLEAN, limit \in SUBSET events, can \in PermissionSets, members \in SUBSET Users :
            PatchTeam(r, t, all, limit, can, members) => UNCHANGED <<token, form>>
      BY <3>1, Zenon DEF PatchTeam
    <3> QED
      BY <2>7, <3>2, <3>3, <3>4, <3>5
  <2>8. ASSUME NEW u \in Users,
               \/ AcceptInvite(u) \/ DeactivateUser(u)
               \/ \E i \in InviteIds : OpenInvite(u, i)
               \/ \E e \in Events, t \in TeamIds : CreateEvent(u, e, t)
        PROVE  UNCHANGED <<token, form>>
    BY <2>8 DEF AcceptInvite, DeactivateUser, OpenInvite, CreateEvent
  <2>9. ASSUME NEW i \in InviteIds,
               RetractInvite(i) \/ \E t \in TeamIds : CreateInvite(i, t) \/ MoveInvite(i, t)
        PROVE  UNCHANGED <<token, form>>
    BY <2>9 DEF RetractInvite, CreateInvite, MoveInvite
  <2>10. ASSUME NEW t \in TeamIds, NEW all \in BOOLEAN, NEW limit \in SUBSET events, NEW can \in PermissionSets,
                CreateTeam(t, all, limit, can)
         PROVE  UNCHANGED <<token, form>>
    BY <2>10 DEF CreateTeam
  <2>11. CASE UNCHANGED teamVars
    BY <2>1, <2>11 DEF teamVars
  <2> HIDE DEF Kept
  <2>12. CASE TeamsNext
    BY <2>1, <2>2, <2>3, <2>4, <2>5, <2>6, <2>7, <2>8, <2>9, <2>10, <2>12, <2>13 DEF TeamsNext
  <2> QED
    BY <1>1, <2>11, <2>12
<1>2. TeamInv /\ [TeamsNext]_teamVars =>
        [\A k \in TokenIds : Dead(k) =>
           /\ Dead(k)'
           /\ token'[k].limit_events \subseteq token[k].limit_events]_teamVars
  BY <1>1
<1> HIDE DEF Kept
<1> QED
  BY TeamInit, TeamNext, <1>2, PTL DEF TeamsSpec, ExpiredForGood

-----------------------------------------------------------------------------
(* Somebody manages, where writers exclude each other.  What waits for its *)
(* commit has been checked against the teams as they still are.            *)

Waits(r) == Covered([team EXCEPT ![request[r].team] = Committed(request[r])], events)

Managed ==
  /\ \A r, s \in Requests : request[r] # None /\ request[s] # None => r = s
  /\ active = Users => Covered(team, events)
  /\ active = Users => \A r \in Requests : request[r] # None => Waits(r)

\* Coverage survives when teams keep their members, rights and events.
LEMMA CoveredMore ==
  ASSUME NEW A, NEW B, NEW E, NEW F, Covered(A, E),
         \A t \in DOMAIN A : A[t] # None /\ A[t].members # {} =>
           t \in DOMAIN B /\ B[t] # None /\ B[t].members # {} /\ A[t].can \subseteq B[t].can,
         \A t \in DOMAIN A : A[t] # None /\ A[t].members # {} =>
           \A e \in E \cap F : e \in EventsOf(A[t], E) => e \in EventsOf(B[t], F),
         \A e \in F \ E : \E t \in DOMAIN B : B[t] # None /\ B[t].members # {} /\ e \in EventsOf(B[t], F)
  PROVE  Covered(B, F)
<1>1. PICK t \in DOMAIN A : A[t] # None /\ A[t].members # {} /\ "can_change_teams" \in A[t].can
  BY DEF Covered, Rows
<1>2. \E x \in DOMAIN B : B[x] # None /\ B[x].members # {} /\ "can_change_teams" \in B[x].can
  BY <1>1
<1>3. ASSUME NEW e \in F
      PROVE  \E x \in DOMAIN B : B[x] # None /\ B[x].members # {} /\ e \in EventsOf(B[x], F)
  <2>1. CASE e \in E
    <3>1. PICK x \in DOMAIN A : A[x] # None /\ A[x].members # {} /\ e \in EventsOf(A[x], E)
      BY <2>1 DEF Covered, Rows
    <3> QED
      BY <2>1, <3>1
  <2> QED
    BY <2>1
<1> QED
  BY <1>2, <1>3 DEF Covered, Rows

\* A write while nothing waits.
LEMMA WriteManaged ==
  ASSUME Busy = {}, UNCHANGED request, active' = Users => Covered(team, events)'
  PROVE  Managed'
BY DEF Managed, Busy

\* Steps that leave teams, events and requests alone.
LEMMA SameManaged ==
  ASSUME Managed, UNCHANGED <<team, events, request, active>>
  PROVE  Managed'
BY DEF Managed, Waits, Committed

\* A change that has been staged is checked as it will be committed.
LEMMA StageManaged ==
  ASSUME WritersExclude, TeamInv, Managed, NEW r \in Requests, NEW c \in Staged, StagedOK(c), Stage(r, c),
         c.row # None =>
           /\ team[c.team] # None /\ c.row.members = team[c.team].members \ c.remove
           /\ ~c.columns => /\ c.row.can = team[c.team].can
                            /\ c.row.all_events = team[c.team].all_events
                            /\ c.row.limit_events = team[c.team].limit_events
  PROVE  Managed'
<1> DEFINE A == [team EXCEPT ![c.team] = c.row]
           B == [team EXCEPT ![c.team] = Committed(c)]
<1>1. /\ Busy = {} /\ Covered(A, events) /\ request' = [request EXCEPT ![r] = c]
      /\ UNCHANGED <<events, team, active>>
  BY DEF Stage, MayWrite
<1>2. c.team \in TeamIds /\ DOMAIN A = TeamIds /\ DOMAIN B = TeamIds /\ DOMAIN team = TeamIds
  BY CommittedRow DEF TeamInv, TeamPart
<1>3. \A t \in TeamIds : t # c.team => A[t] = team[t] /\ B[t] = team[t]
  BY <1>2
<1>4. A[c.team] = c.row /\ B[c.team] = Committed(c)
  BY <1>2
<1>5. c.row # None =>
        /\ Committed(c) # None /\ Committed(c).members = c.row.members /\ Committed(c).can = c.row.can
        /\ Committed(c).all_events = c.row.all_events /\ Committed(c).limit_events = c.row.limit_events
  BY CommittedRow
<1> HIDE DEF A, B
<1>6. Covered(B, events)
  <2>1. \A t \in DOMAIN A : A[t] # None /\ A[t].members # {} =>
          t \in DOMAIN B /\ B[t] # None /\ B[t].members # {} /\ A[t].can \subseteq B[t].can
    BY <1>2, <1>3, <1>4, <1>5
  <2>2. \A t \in DOMAIN A : A[t] # None /\ A[t].members # {} =>
          \A e \in events \cap events : e \in EventsOf(A[t], events) => e \in EventsOf(B[t], events)
    BY <1>2, <1>3, <1>4, <1>5 DEF EventsOf
  <2>3. \A e \in events \ events : \E t \in DOMAIN B : B[t] # None /\ B[t].members # {} /\ e \in EventsOf(B[t], events)
    OBVIOUS
  <2> QED
    BY <1>1, <2>1, <2>2, <2>3, CoveredMore
<1>7. \A s \in Requests : request'[s] # None => s = r /\ request'[s] = c
  BY <1>1 DEF Busy, TeamInv, RequestPart
<1>8. \A s \in Requests : request'[s] # None => Waits(s)'
  BY <1>1, <1>6, <1>7 DEF Waits, Committed, B
<1>9. Covered(team, events)' <=> Covered(team, events)
  BY <1>1 DEF Covered, Rows, EventsOf
<1> QED
  BY <1>1, <1>7, <1>8, <1>9 DEF Managed

LEMMA RemoveMemberManaged ==
  ASSUME WritersExclude, TeamInv, Managed, NEW r \in Requests, NEW t \in TeamIds, NEW u \in Users, RemoveMember(r, t, u)
  PROVE  Managed'
<1> DEFINE row == [team[t] EXCEPT !.members = @ \ {u}]
           left == Reach(u, [team EXCEPT ![t] = row], events)
           c == [team |-> t, row |-> row, columns |-> FALSE, remove |-> {u},
                 tokens |-> UpdateTokenEvents(u, TouchedTokens(t, u), left),
                 lost |-> LostTo(t, u, left)]
<1>1. team[t] # None /\ team[t] \in Team /\ team[t].members \in SUBSET Users /\ team[t].limit_events \subseteq events
  BY DEF RemoveMember, TeamInv, TeamPart, Team
<1>2. /\ row \in Team /\ row.members = team[t].members \ {u} /\ row.limit_events = team[t].limit_events
      /\ row.all_events = team[t].all_events /\ row.can = team[t].can
  BY <1>1, TeamRow
<1>3. Stage(r, c)
  BY DEF RemoveMember
<1>4. c.team = t /\ c.row = row /\ c.columns = FALSE /\ c.remove = {u}
  OBVIOUS
<1> HIDE DEF row
<1>5. u \in Administrators /\ u \in active => left = events
  BY <1>1, <1>2, Reached DEF TeamInv
<1> HIDE DEF left
<1>6. c \in Staged /\ StagedOK(c)
  BY <1>1, <1>5, RemoveMemberChange DEF row
<1> HIDE DEF c
<1> QED
  BY <1>1, <1>2, <1>3, <1>4, <1>6, StageManaged

LEMMA EditManaged ==
  ASSUME WritersExclude, TeamInv, Managed, NEW r \in Requests, NEW t \in TeamIds, team[t] # None,
         NEW row \in Team \cup {None}, NEW M \in SUBSET Users, Stage(r, Change(t, row, M)),
         row # None => row.limit_events \subseteq events /\ row.members = team[t].members \ M
  PROVE  Managed'
<1> DEFINE c == Change(t, row, M)
<1>1. /\ c \in Staged /\ StagedOK(c)
      /\ c.team = t /\ c.row = row /\ c.columns /\ c.remove = M
  BY Changes
<1>2. Stage(r, c)
  OBVIOUS
<1> HIDE DEF c
<1> QED
  BY <1>1, <1>2, StageManaged

LEMMA CommitManaged ==
  ASSUME TeamInv, Managed, NEW r \in Requests, Commit(r)
  PROVE  Managed'
<1>1. request[r] # None /\ request' = [request EXCEPT ![r] = None] /\ UNCHANGED <<events, active>>
  BY DEF Commit
<1>2. \A s \in Requests : request'[s] = None
  BY <1>1 DEF Managed, TeamInv, RequestPart
<1>3. active = Users => Covered(team', events)
  BY <1>1, CommitTeams DEF Managed, Waits
<1>4. active' = Users => Covered(team, events)'
  BY <1>1, <1>3 DEF Covered, Rows, EventsOf
<1> QED
  BY <1>2, <1>4 DEF Managed

LEMMA AcceptManaged ==
  ASSUME WritersExclude, TeamInv, Managed, NEW u \in Users, AcceptInvite(u)
  PROVE  Managed'
<1> DEFINE i == visit[u]
           t == invite[i]
<1>1. Busy = {} /\ i # None /\ UNCHANGED <<events, active>>
  BY DEF AcceptInvite, MayWrite
<1>2. CASE ~StillOpen(i)
  BY <1>1, <1>2, SameManaged DEF AcceptInvite
<1>3. CASE StillOpen(i)
  <2>1. team[t] # None /\ team' = [team EXCEPT ![t].members = @ \cup {u}] /\ request' = KeepColumns(t)
    BY <1>3 DEF AcceptInvite
  <2>2. t \in TeamIds
    BY <1>3 DEF StillOpen, OpenInvites
  <2>3. UNCHANGED request
    BY <1>1, <2>1 DEF KeepColumns, TeamInv, RequestPart
  <2> DEFINE row == team[t]
             new == [row EXCEPT !.members = row.members \cup {u}]
  <2>4. row \in Team /\ row.members \cup {u} \in SUBSET Users /\ team' = [team EXCEPT ![t] = new] /\ DOMAIN team = TeamIds
    BY <2>1, <2>2 DEF TeamInv, TeamPart, Team
  <2> HIDE DEF row
  <2>5. /\ new # None /\ new.members = row.members \cup {u} /\ new.can = row.can
        /\ new.all_events = row.all_events /\ new.limit_events = row.limit_events
    BY <2>4, TeamRow
  <2> HIDE DEF new
  <2>6. DOMAIN team' = TeamIds /\ team'[t] = new /\ \A x \in TeamIds : x # t => team'[x] = team[x]
    BY <2>2, <2>4
  <2>7. ASSUME Covered(team, events) PROVE Covered(team', events)
    <3>1. \A x \in DOMAIN team : team[x] # None /\ team[x].members # {} =>
            x \in DOMAIN team' /\ team'[x] # None /\ team'[x].members # {} /\ team[x].can \subseteq team'[x].can
      BY <2>4, <2>5, <2>6 DEF row
    <3>2. \A x \in DOMAIN team : team[x] # None /\ team[x].members # {} =>
            \A e \in events \cap events : e \in EventsOf(team[x], events) => e \in EventsOf(team'[x], events)
      BY <2>4, <2>5, <2>6 DEF row, EventsOf
    <3> QED
      BY <2>7, <3>1, <3>2, CoveredMore
  <2>8. active' = Users => Covered(team, events)'
    BY <1>1, <2>7 DEF Managed, Covered, Rows, EventsOf
  <2> QED
    BY <1>1, <2>3, <2>8, WriteManaged
<1> QED
  BY <1>2, <1>3

LEMMA CreateTeamManaged ==
  ASSUME WritersExclude, TeamInv, Managed, NEW t \in TeamIds, NEW all \in BOOLEAN, NEW limit \in SUBSET events,
         NEW can \in PermissionSets, CreateTeam(t, all, limit, can)
  PROVE  Managed'
<1>1. PICK row : team' = [team EXCEPT ![t] = row]
  BY DEF CreateTeam
<1>2. Busy = {} /\ team[t] = None /\ UNCHANGED <<events, request, active>>
  BY DEF CreateTeam, MayWrite, Unused
<1>3. DOMAIN team = TeamIds /\ DOMAIN team' = TeamIds /\ \A x \in TeamIds : x # t => team'[x] = team[x]
  BY <1>1 DEF TeamInv, TeamPart
<1>4. ASSUME Covered(team, events) PROVE Covered(team', events)
  <2>1. \A x \in DOMAIN team : team[x] # None /\ team[x].members # {} => x \in DOMAIN team' /\ team'[x] = team[x]
    BY <1>2, <1>3
  <2> QED
    BY <1>4, <2>1, CoveredMore
<1>5. active' = Users => Covered(team, events)'
  BY <1>2, <1>4 DEF Managed, Covered, Rows, EventsOf
<1> QED
  BY <1>2, <1>5, WriteManaged

LEMMA CreateEventManaged ==
  ASSUME WritersExclude, TeamInv, Managed, NEW u \in Users, NEW e \in Events, NEW t \in TeamIds, CreateEvent(u, e, t)
  PROVE  Managed'
<1> DEFINE row == [members |-> {u}, all_events |-> FALSE, limit_events |-> {e}, can |-> {"control"}]
<1>1. /\ Busy = {} /\ events' = events \cup {e} /\ UNCHANGED <<request, active>>
      /\ \/ HasControl(u) /\ UNCHANGED team
         \/ team[t] = None /\ team' = [team EXCEPT ![t] = row]
  BY DEF CreateEvent, MayWrite, Unused
<1>2. /\ row.members = {u} /\ row.limit_events = {e} /\ row.all_events = FALSE /\ row # None
  <2>1. {u} \in SUBSET Users /\ {e} \in SUBSET Events /\ {"control"} \in SUBSET Permissions /\ FALSE \in BOOLEAN
    BY DEF Permissions
  <2>2. row # None
    BY <2>1, NewTeam DEF TeamInv
  <2> QED
    BY <2>2
<1> HIDE DEF row
<1>3. DOMAIN team = TeamIds /\ DOMAIN team' = TeamIds
  BY <1>1 DEF TeamInv, TeamPart
<1>4. \A x \in TeamIds : team[x] # None => team'[x] = team[x]
  BY <1>1 DEF TeamInv, TeamPart
<1>5. \E x \in TeamIds : team'[x] # None /\ team'[x].members # {} /\ e \in EventsOf(team'[x], events')
  <2>1. CASE HasControl(u) /\ UNCHANGED team
    <3>1. PICK x \in Rows(team) : u \in team[x].members /\ team[x].all_events
      BY <2>1 DEF HasControl
    <3>2. x \in TeamIds /\ team[x] # None
      BY <1>3 DEF Rows
    <3> QED
      BY <1>1, <2>1, <3>1, <3>2 DEF EventsOf
  <2>2. CASE team' = [team EXCEPT ![t] = row]
    <3>1. team'[t] = row
      BY <1>3, <2>2
    <3> QED
      BY <1>2, <3>1 DEF EventsOf
  <2> QED
    BY <1>1, <2>1, <2>2
<1>6. ASSUME Covered(team, events) PROVE Covered(team', events')
  <2>1. \A x \in DOMAIN team : team[x] # None /\ team[x].members # {} =>
          x \in DOMAIN team' /\ team'[x] # None /\ team'[x].members # {} /\ team[x].can \subseteq team'[x].can
    BY <1>3, <1>4
  <2>2. \A x \in DOMAIN team : team[x] # None /\ team[x].members # {} =>
          \A f \in events \cap events' : f \in EventsOf(team[x], events) => f \in EventsOf(team'[x], events')
    BY <1>3, <1>4 DEF EventsOf
  <2>3. \A f \in events' \ events : \E x \in DOMAIN team' :
          team'[x] # None /\ team'[x].members # {} /\ f \in EventsOf(team'[x], events')
    BY <1>1, <1>3, <1>5
  <2> QED
    BY <1>6, <2>1, <2>2, <2>3, CoveredMore
<1>7. active' = Users => Covered(team, events)'
  BY <1>1, <1>6 DEF Managed, Covered, Rows, EventsOf
<1> QED
  BY <1>1, <1>7, WriteManaged

LEMMA ShredManaged ==
  ASSUME TeamInv, Managed, NEW e \in Events, ShredEvent(e)
  PROVE  Managed'
<1>1. /\ Busy = {} /\ events' = events \ {e} /\ UNCHANGED <<request, active>>
      /\ team' = [t \in TeamIds |-> IF team[t] = None THEN None ELSE [team[t] EXCEPT !.limit_events = @ \ {e}]]
  BY DEF ShredEvent
<1>2. ASSUME NEW t \in TeamIds, team[t] # None
      PROVE  /\ team'[t] # None /\ team'[t].members = team[t].members /\ team'[t].can = team[t].can
             /\ team'[t].all_events = team[t].all_events /\ team'[t].limit_events = team[t].limit_events \ {e}
  <2> DEFINE row == team[t]
             new == [row EXCEPT !.limit_events = row.limit_events \ {e}]
  <2>1. row \in Team /\ row.limit_events \ {e} \in SUBSET Events
    BY <1>2 DEF TeamInv, TeamPart, Team
  <2>2. team'[t] = new
    BY <1>1, <1>2
  <2> HIDE DEF row
  <2>3. /\ new # None /\ new.members = row.members /\ new.can = row.can
        /\ new.all_events = row.all_events /\ new.limit_events = row.limit_events \ {e}
    BY <2>1, TeamRowEvents
  <2> HIDE DEF new
  <2> QED
    BY <2>2, <2>3 DEF row
<1>3. DOMAIN team = TeamIds /\ DOMAIN team' = TeamIds
  BY <1>1 DEF TeamInv, TeamPart
<1>4. ASSUME Covered(team, events) PROVE Covered(team', events')
  <2>1. \A x \in DOMAIN team : team[x] # None /\ team[x].members # {} =>
          x \in DOMAIN team' /\ team'[x] # None /\ team'[x].members # {} /\ team[x].can \subseteq team'[x].can
    BY <1>2, <1>3
  <2>2. \A x \in DOMAIN team : team[x] # None /\ team[x].members # {} =>
          \A f \in events \cap events' : f \in EventsOf(team[x], events) => f \in EventsOf(team'[x], events')
    BY <1>1, <1>2, <1>3 DEF EventsOf
  <2>3. events' \ events = {}
    BY <1>1
  <2> QED
    BY <1>4, <2>1, <2>2, <2>3, CoveredMore
<1>5. active' = Users => Covered(team, events)'
  BY <1>1, <1>4 DEF Managed, Covered, Rows, EventsOf
<1> QED
  BY <1>1, <1>5, WriteManaged

LEMMA ManagedNext == WritersExclude /\ TeamInv /\ Managed /\ [TeamsNext]_teamVars => Managed'
<1> SUFFICES ASSUME WritersExclude, TeamInv, Managed, [TeamsNext]_teamVars PROVE Managed'
  OBVIOUS
<1>1. CASE UNCHANGED teamVars
  BY <1>1, SameManaged DEF teamVars
<1>2. ASSUME NEW u \in Users, DeactivateUser(u) PROVE Managed'
  <2>1. Busy = {} /\ UNCHANGED request /\ active' # Users
    BY <1>2 DEF DeactivateUser, MayWrite
  <2> QED
    BY <2>1, WriteManaged
<1>3. ASSUME NEW i \in InviteIds, \/ RetractInvite(i) \/ \E t \in TeamIds : CreateInvite(i, t) \/ MoveInvite(i, t)
                                \/ \E u \in Users : OpenInvite(u, i)
      PROVE  Managed'
  BY <1>3, SameManaged DEF RetractInvite, CreateInvite, MoveInvite, OpenInvite
<1>4. ASSUME \/ \E k \in TokenIds : RevokeToken(k) \/ LapseToken(k)
             \/ \E r \in Requests :
                  \/ \E k \in TokenIds \cup {None}, u \in Users, all \in BOOLEAN, limit \in SUBSET events :
                       OpenTokenForm(r, k, u, all, limit)
                  \/ \E k \in TokenIds : SaveTokenForm(r, k)
                  \/ DropTokenForm(r)
      PROVE  Managed'
  BY <1>4, SameManaged DEF OpenTokenForm, SaveTokenForm, DropTokenForm, RevokeToken, LapseToken
<1> QED
  BY <1>1, <1>2, <1>3, <1>4, RemoveMemberManaged, Edits, EditManaged, CommitManaged, CreateTeamManaged, AcceptManaged,
     CreateEventManaged, ShredManaged DEF TeamsNext

\* While nobody has deleted an account, somebody may change the teams and every
\* event has a team with members, where one writing transaction runs at a time.
THEOREM TeamsStayManaged ==
  ASSUME WritersExclude
  PROVE  TeamsSpec => []SomebodyManages
<1>1. TeamsInit => Managed
  <2> SUFFICES ASSUME TeamsInit PROVE Managed
    OBVIOUS
  <2>1. PICK first \in TeamIds, founder \in Users :
          team = [t \in TeamIds |-> IF t = first
                   THEN [members |-> {founder}, all_events |-> FALSE, limit_events |-> {},
                         can |-> {"can_change_teams", "can_create_events"}]
                   ELSE None]
    BY DEF TeamsInit
  <2>2. /\ first \in DOMAIN team /\ team[first].members # {} /\ "can_change_teams" \in team[first].can
    BY <2>1
  <2> DEFINE row == [members |-> {founder}, all_events |-> FALSE, limit_events |-> {},
                     can |-> {"can_change_teams", "can_create_events"}]
  <2>3. row \in Team
    BY DEF Team, Permissions
  <2>4. team[first] # None
    <3> HIDE DEF row
    <3>1. team[first] = row
      BY <2>1 DEF row
    <3> QED
      BY <2>3, <3>1, RowAssumption
  <2>5. Covered(team, events) /\ \A r \in Requests : request[r] = None
    BY <2>2, <2>4 DEF Covered, Rows, TeamsInit
  <2> QED
    BY <2>5 DEF Managed
<1>2. TeamInv /\ Managed /\ [TeamsNext]_teamVars => Managed'
  BY ManagedNext
<1>3. Managed => SomebodyManages
  BY DEF Managed, SomebodyManages
<1> QED
  BY TeamInit, TeamNext, <1>1, <1>2, <1>3, PTL DEF TeamsSpec

=============================================================================
