------------------------------- MODULE Teams -------------------------------
(***************************************************************************)
(* The teams of one organiser, the invitations to them, and the API tokens *)
(* of their members: event/domain/team.py, event/validators/organiser.py,  *)
(* person/domain/auth_token.py, and the views and API endpoints that call  *)
(* them.  A request that changes a team writes, then checks the coverage   *)
(* of the organiser, then commits; requests do not lock each other out, so *)
(* the check of one sees what the others have committed and nothing else.  *)
(* Names, colours, tracks and the other permissions of a team are left     *)
(* out, "control" stands for can_change_event_settings together with       *)
(* can_change_submissions.                                                 *)
(***************************************************************************)
EXTENDS FiniteSets, Naturals

CONSTANTS Users, Administrators, Events, TeamIds, InviteIds, TokenIds,
          Requests,        \* requests of organisers that may run in parallel
          Leavers,         \* bound: the users who may delete their account
          PermissionSets,  \* the permissions a form may give to a team
          WritersExclude,  \* TRUE: one writing transaction at a time, as on SQLite
          None, Gone       \* no row yet, and a deleted one

ASSUME TeamsAssumption == Administrators \cup Leavers \subseteq Users /\ Users # {}
                         /\ WritersExclude \in BOOLEAN

VARIABLES events,    \* the events of the organiser
          team,      \* the rows of Team
          invite,    \* the rows of TeamInvite
          token,     \* the rows of UserApiToken
          active,    \* the users that are not deactivated
          visit,     \* the invitation a user's request has loaded
          request,   \* the uncommitted change of a request
          form,      \* the form of a token that a request has validated
          admitted,  \* history: who has joined by an invitation
          dropped    \* history: what tokens lost when their user was removed

teamVars == <<events, team, invite, token, active, visit, request, form, admitted, dropped>>

-----------------------------------------------------------------------------
Permissions == {"can_change_teams", "can_create_events", "control"}
ASSUME PermissionsAssumption == PermissionSets \subseteq SUBSET Permissions

Team == [members: SUBSET Users, all_events: BOOLEAN, limit_events: SUBSET Events,
         can: SUBSET Permissions]

(* expired: `expires` is in the past; run_update_check may have deleted the row. *)
Token == [user: Users, all_events: BOOLEAN, limit_events: SUBSET Events, expired: BOOLEAN]

(* What a form of a token is going to save: the token it has loaded, None for a   *)
(* new one, and whether the expiry date it has loaded has passed since.           *)
TokenForm == [id: TokenIds \cup {None}, user: Users, all_events: BOOLEAN,
              limit_events: SUBSET Events, lapsed: BOOLEAN]

(* What a request has written and not committed: its row of a team, whether it *)
(* saves the columns, the members it removes, what tokens lose.                *)
Staged == [team : TeamIds, row : Team \cup {None}, columns : BOOLEAN, remove : SUBSET Users,
           tokens : [drop : SUBSET (TokenIds \X Events), expire : SUBSET TokenIds],
           lost : SUBSET (TokenIds \X Events)]

(* No row is missing in the sense of None. *)
ASSUME RowAssumption ==
  /\ None \notin Team \cup Token \cup TokenForm \cup Staged \cup TeamIds \cup InviteIds \cup TokenIds
  /\ Gone \notin TeamIds \cup {None}

Rows(table) == {id \in DOMAIN table : table[id] # None}

(* Team.events and User.get_events_with_any_permission. *)
EventsOf(row, evts) == IF row.all_events THEN evts ELSE row.limit_events
Reach(u, teams, evts) ==
  IF u \in Administrators /\ u \in active THEN evts
  ELSE UNION {EventsOf(teams[t], evts) \cup teams[t].limit_events :
                t \in {x \in Rows(teams) : u \in teams[x].members}}

Active(k) == token[k] # None /\ ~token[k].expired
OpenInvites == {i \in InviteIds : invite[i] \in TeamIds}

(* check_access_permissions: the checks that raise. *)
Covered(teams, evts) ==
  LET staffed == {t \in Rows(teams) : teams[t].members # {}}
  IN /\ \E t \in staffed : "can_change_teams" \in teams[t].can
     /\ \A e \in evts : \E t \in staffed : e \in EventsOf(teams[t], evts)

(* validate_event_scope_coverage and validate_team_has_permission. *)
ValidScope(all, limit) == all \/ limit # {}
ValidRow(row) == ValidScope(row.all_events, row.limit_events) /\ row.can # {}

-----------------------------------------------------------------------------
(* create_organiser_with_team: one team that manages teams and reaches no event. *)
TeamsInit ==
  \E first \in TeamIds, founder \in Users :
    /\ events = {}
    /\ team = [t \in TeamIds |-> IF t = first
                 THEN [members |-> {founder}, all_events |-> FALSE, limit_events |-> {},
                       can |-> {"can_change_teams", "can_create_events"}]
                 ELSE None]
    /\ invite = [i \in InviteIds |-> None]
    /\ token = [k \in TokenIds |-> None]
    /\ active = Users
    /\ visit = [u \in Users |-> None]
    /\ request = [r \in Requests |-> None]
    /\ form = [r \in Requests |-> None]
    /\ admitted = [i \in InviteIds |-> {}]
    /\ dropped = {}

-----------------------------------------------------------------------------
(* update_token_events for the tokens `toks` of user u, who now reaches `reach`: *)
(* what is taken from limit_events, and which tokens expire.                     *)
UpdateTokenEvents(u, toks, reach) ==
  LET limited == {k \in toks : ~token[k].all_events}
      drop == {d \in limited \X Events : d[2] \in token[d[1]].limit_events \ reach}
      lost == {k \in toks \ limited : reach = {}}
      emptied == {k \in limited : token[k].limit_events \ reach # {}
                                    /\ token[k].limit_events \cap reach = {}}
  IN IF u \in Administrators /\ u \in active THEN [drop |-> {}, expire |-> {}]
     ELSE [drop |-> drop, expire |-> lost \cup emptied]

(* Mutant: only the tokens for all events are looked at. *)
TouchedOnlyUnlimited(t, u) == {k \in TokenIds : Active(k) /\ token[k].user = u /\ token[k].all_events}

(* remove_team_member: the active tokens of the member that are looked at. *)
TouchedTokens(t, u) ==
  {k \in TokenIds : /\ Active(k) /\ token[k].user = u
                    /\ token[k].all_events
                         \/ token[k].limit_events \cap EventsOf(team[t], events) # {}}

(* History only: the events of team t that a limited token of u may lose with it. *)
LostTo(t, u, left) ==
  {d \in TokenIds \X Events :
     /\ Active(d[1]) /\ token[d[1]].user = u
     /\ d[2] \in (token[d[1]].limit_events \cap EventsOf(team[t], events)) \ left}

NoTokens == [drop |-> {}, expire |-> {}]

Busy == {r \in Requests : request[r] # None}
MayWrite == WritersExclude => Busy = {}

(* Whether an uncommitted change holds the row of team t. *)
Locked(t) == \E r \in Busy : request[r].team = t /\ request[r].columns

(* Mutant: the coverage is not checked. *)
StageUnchecked(r, c) ==
  /\ MayWrite /\ request[r] = None
  /\ c.columns => ~Locked(c.team)
  /\ request' = [request EXCEPT ![r] = c]
  /\ UNCHANGED <<events, team, invite, token, active, visit, form, admitted, dropped>>

(* The change is written, passes check_access_permissions and waits for its commit. *)
Stage(r, c) ==
  /\ MayWrite /\ request[r] = None
  /\ c.columns => ~Locked(c.team)
  /\ Covered([team EXCEPT ![c.team] = c.row], events)
  /\ request' = [request EXCEPT ![r] = c]
  /\ UNCHANGED <<events, team, invite, token, active, visit, form, admitted, dropped>>

(* TeamMemberDelete and the endpoint remove_member. *)
RemoveMember(r, t, u) ==
  /\ team[t] # None /\ u \in team[t].members
  /\ LET row == [team[t] EXCEPT !.members = @ \ {u}]
         left == Reach(u, [team EXCEPT ![t] = row], events)
     IN Stage(r, [team |-> t, row |-> row, columns |-> FALSE, remove |-> {u},
                  tokens |-> UpdateTokenEvents(u, TouchedTokens(t, u), left),
                  lost |-> LostTo(t, u, left)])

Change(t, row, members) ==
  [team |-> t, row |-> row, columns |-> TRUE, remove |-> members, tokens |-> NoTokens, lost |-> {}]

(* TeamView.form_valid: the form of a team that exists; all_events clears limit_events. *)
EditTeam(r, t, all, limit, can) ==
  /\ team[t] # None
  /\ LET row == [team[t] EXCEPT !.all_events = all, !.limit_events = IF all THEN {} ELSE limit, !.can = can]
     IN ValidRow(row) /\ Stage(r, Change(t, row, {}))

(* TeamViewSet.perform_update: only events the team has and members it has may be *)
(* named, and limit_events stays as it is given.                                  *)
PatchTeam(r, t, all, limit, can, members) ==
  /\ team[t] # None
  /\ limit \subseteq EventsOf(team[t], events) /\ members \subseteq team[t].members
  /\ LET row == [members |-> members, all_events |-> all, limit_events |-> limit, can |-> can]
     IN ValidRow(row) /\ Stage(r, Change(t, row, team[t].members \ members))

(* TeamView.perform_delete and TeamViewSet.perform_destroy. *)
DeleteTeam(r, t) == team[t] # None /\ Stage(r, Change(t, None, {}))

(* The transaction of request r ends: its columns overwrite the row, its members   *)
(* leave it (the rows of the membership table are independent), its tokens shrink. *)
Commit(r) ==
  LET c == request[r]
      t == c.team
  IN /\ c # None
     /\ request' = [request EXCEPT ![r] = None]
     /\ team' = [team EXCEPT ![t] =
          IF @ = None \/ c.row = None THEN None
          ELSE [IF c.columns THEN c.row ELSE @ EXCEPT !.members = team[t].members \ c.remove]]
     /\ token' = [k \in TokenIds |-> IF token[k] = None THEN None
          ELSE [token[k] EXCEPT !.limit_events = {e \in @ : <<k, e>> \notin c.tokens.drop},
                                !.expired = @ \/ k \in c.tokens.expire]]
     /\ dropped' = dropped \cup c.lost
     /\ invite' = [i \in InviteIds |->
          IF invite[i] = t /\ c.row = None THEN Gone ELSE invite[i]]
     /\ UNCHANGED <<events, active, visit, form, admitted>>

(* A number no team has, nor a change of a deleted one. *)
Unused(t) == team[t] = None /\ \A r \in Busy : request[r].team # t

(* TeamView.form_valid and TeamViewSet.create: a team without members, unchecked. *)
CreateTeam(t, all, limit, can) ==
  LET row == [members |-> {}, all_events |-> all, limit_events |-> IF all THEN {} ELSE limit, can |-> can]
  IN /\ MayWrite /\ Unused(t) /\ ValidRow(row)
     /\ team' = [team EXCEPT ![t] = row]
     /\ UNCHANGED <<events, invite, token, active, visit, request, form, admitted, dropped>>

-----------------------------------------------------------------------------
(* create_team_invites and create_team_invite, which refuses addresses that are *)
(* invited already; the form does not.                                          *)
CreateInvite(i, t) ==
  /\ MayWrite /\ team[t] # None /\ invite[i] = None
  /\ invite' = [invite EXCEPT ![i] = t]
  /\ UNCHANGED <<events, team, token, active, visit, request, form, admitted, dropped>>

(* retract_team_invite. *)
RetractInvite(i) ==
  /\ MayWrite /\ i \in OpenInvites
  /\ invite' = [invite EXCEPT ![i] = Gone]
  /\ UNCHANGED <<events, team, token, active, visit, request, form, admitted, dropped>>

(* TeamViewSet.perform_update: naming an invitation of another team moves it;  *)
(* nothing else changes, and the coverage is checked all the same.             *)
MoveInvite(i, t) ==
  /\ MayWrite /\ i \in OpenInvites /\ team[t] # None /\ invite[i] # t
  /\ Covered(team, events)
  /\ invite' = [invite EXCEPT ![i] = t]
  /\ UNCHANGED <<events, team, token, active, visit, request, form, admitted, dropped>>

(* InvitationView.invitation: the request of whoever has the link loads the row. *)
OpenInvite(u, i) ==
  /\ u \in active /\ visit[u] = None /\ i \in OpenInvites
  /\ visit' = [visit EXCEPT ![u] = i]
  /\ UNCHANGED <<events, team, invite, token, active, request, form, admitted, dropped>>

(* The lock on the invitation is held when it is read again. *)
StillOpen(i) == i \in OpenInvites
KeepColumns(t) ==
  [r \in Requests |-> IF r \in Busy /\ request[r].team = t /\ request[r].columns
                       THEN [request[r] EXCEPT !.row = team[t]] ELSE request[r]]

(* Mutant: the invitation is not deleted. *)
AcceptReusable(u) ==
  LET t == invite[visit[u]]
  IN /\ MayWrite /\ visit[u] # None /\ StillOpen(visit[u]) /\ team[t] # None
     /\ visit' = [visit EXCEPT ![u] = None]
     /\ team' = [team EXCEPT ![t].members = @ \cup {u}]
     /\ admitted' = [admitted EXCEPT ![visit[u]] = @ \cup {u}]
     /\ UNCHANGED <<events, invite, token, active, request, form, dropped>>

(* accept_team_invite: the row is locked and read again, then it is used up.  A    *)
(* team that is being deleted holds it back; saving the team overwrites what an    *)
(* uncommitted edit has put into its columns.                                      *)
AcceptInvite(u) ==
  LET i == visit[u]
      t == invite[i]
  IN /\ MayWrite /\ i # None /\ u \in active
     /\ visit' = [visit EXCEPT ![u] = None]
     /\ IF StillOpen(i)
        THEN /\ team[t] # None /\ \A r \in Busy : ~(request[r].team = t /\ request[r].row = None)
             /\ team' = [team EXCEPT ![t].members = @ \cup {u}]
             /\ invite' = [invite EXCEPT ![i] = Gone]
             /\ admitted' = [admitted EXCEPT ![i] = @ \cup {u}]
             /\ request' = KeepColumns(t)
        ELSE UNCHANGED <<team, invite, admitted, request>>
     /\ UNCHANGED <<events, token, active, form, dropped>>

-----------------------------------------------------------------------------
(* post_create_event: whoever creates an event and does not control it gets a team. *)
HasControl(u) == \E t \in Rows(team) : /\ u \in team[t].members
                                       /\ team[t].all_events /\ "control" \in team[t].can
CreateEvent(u, e, t) ==
  /\ MayWrite /\ u \in active /\ e \notin events
  /\ u \in Administrators
       \/ \E x \in Rows(team) : u \in team[x].members /\ "can_create_events" \in team[x].can
  /\ events' = events \cup {e}
  /\ IF HasControl(u) THEN UNCHANGED team
     ELSE /\ Unused(t)
          /\ team' = [team EXCEPT ![t] = [members |-> {u}, all_events |-> FALSE,
                                          limit_events |-> {e}, can |-> {"control"}]]
  /\ UNCHANGED <<invite, token, active, visit, request, form, admitted, dropped>>

(* Mutant: the tokens keep the event. *)
ShredKeepsTokens(e) ==
  /\ e \in events /\ Busy = {}
  /\ events' = events \ {e}
  /\ team' = [t \in TeamIds |-> IF team[t] = None THEN None ELSE [team[t] EXCEPT !.limit_events = @ \ {e}]]
  /\ UNCHANGED <<invite, token, active, visit, request, form, admitted, dropped>>

(* shred_event: teams and tokens lose the event and stay. *)
ShredEvent(e) ==
  /\ e \in events
  /\ Busy = {}
  /\ events' = events \ {e}
  /\ team' = [t \in TeamIds |-> IF team[t] = None THEN None ELSE [team[t] EXCEPT !.limit_events = @ \ {e}]]
  /\ token' = [k \in TokenIds |-> IF token[k] = None THEN None ELSE [token[k] EXCEPT !.limit_events = @ \ {e}]]
  /\ UNCHANGED <<invite, active, visit, request, form, admitted, dropped>>

(* deactivate_user: no check of the teams that are left, no look at the tokens. *)
DeactivateUser(u) ==
  /\ MayWrite /\ u \in active \cap Leavers
  /\ active' = active \ {u}
  /\ team' = [t \in TeamIds |-> IF team[t] = None THEN None ELSE [team[t] EXCEPT !.members = @ \ {u}]]
  /\ visit' = [visit EXCEPT ![u] = None]
  /\ UNCHANGED <<events, invite, token, request, form, admitted, dropped>>

-----------------------------------------------------------------------------
(* Mutant: a token that has expired can be changed. *)
OpenAnyToken(r, k, u, all, limit) ==
  /\ form[r] = None /\ u \in active
  /\ k # None => token[k] # None /\ token[k].user = u
  /\ ValidScope(all, limit) /\ limit \subseteq Reach(u, team, events)
  /\ form' = [form EXCEPT ![r] = [id |-> k, user |-> u, all_events |-> all,
                                 limit_events |-> IF all THEN {} ELSE limit, lapsed |-> FALSE]]
  /\ UNCHANGED <<events, team, invite, token, active, visit, request, admitted, dropped>>

(* TokenEdit.get_object and UserSettings: a form loads a token that is active, or   *)
(* is for a new one; TokenEventScopeMixin lets it reach at most what its user does. *)
OpenTokenForm(r, k, u, all, limit) ==
  /\ form[r] = None /\ u \in active
  /\ k # None => Active(k) /\ token[k].user = u
  /\ ValidScope(all, limit) /\ limit \subseteq Reach(u, team, events)
  /\ form' = [form EXCEPT ![r] = [id |-> k, user |-> u, all_events |-> all,
                                 limit_events |-> IF all THEN {} ELSE limit, lapsed |-> FALSE]]
  /\ UNCHANGED <<events, team, invite, token, active, visit, request, admitted, dropped>>

(* form.save: a new row, or all columns of the copy, with the `expires` it has       *)
(* loaded; a row that run_update_check has deleted is inserted again.  An event that *)
(* is gone stops the transaction.                                                    *)
SaveTokenForm(r, k) ==
  LET f == form[r]
  IN /\ MayWrite /\ f # None /\ f.limit_events \subseteq events
     /\ k = f.id \/ (f.id = None /\ token[k] = None)
     /\ token' = [token EXCEPT ![k] = [user |-> f.user, all_events |-> f.all_events,
                                      limit_events |-> f.limit_events, expired |-> f.lapsed]]
     /\ form' = [form EXCEPT ![r] = None]
     /\ dropped' = {d \in dropped : d[1] # k}
     /\ UNCHANGED <<events, team, invite, active, visit, request, admitted>>

(* The form fails. *)
DropTokenForm(r) ==
  /\ form[r] # None
  /\ form' = [form EXCEPT ![r] = None]
  /\ UNCHANGED <<events, team, invite, token, active, visit, request, admitted, dropped>>

(* revoke_token *)
RevokeToken(k) ==
  /\ MayWrite /\ Active(k)
  /\ token' = [token EXCEPT ![k].expired = TRUE]
  /\ UNCHANGED <<events, team, invite, active, visit, request, form, admitted, dropped>>

(* A form whose copy of token k still has its expiry date before it. *)
Fresh(r, k) == form[r] # None /\ form[r].id = k /\ ~form[r].lapsed

(* The date in `expires` passes, the date of the copies with it. *)
LapseToken(k) ==
  /\ token[k] # None /\ (Active(k) \/ \E r \in Requests : Fresh(r, k))
  /\ token' = [token EXCEPT ![k].expired = TRUE]
  /\ form' = [r \in Requests |-> IF Fresh(r, k) THEN [form[r] EXCEPT !.lapsed = TRUE] ELSE form[r]]
  /\ UNCHANGED <<events, team, invite, active, visit, request, admitted, dropped>>

-----------------------------------------------------------------------------
TeamsNext ==
  \/ \E r \in Requests, t \in TeamIds :
       \/ \E u \in Users : RemoveMember(r, t, u)
       \/ DeleteTeam(r, t)
       \/ \E all \in BOOLEAN, limit \in SUBSET events, can \in PermissionSets :
            \/ EditTeam(r, t, all, limit, can)
            \/ \E members \in SUBSET Users : PatchTeam(r, t, all, limit, can, members)
  \/ \E r \in Requests : Commit(r)
  \/ \E t \in TeamIds, all \in BOOLEAN, limit \in SUBSET events, can \in PermissionSets :
       CreateTeam(t, all, limit, can)
  \/ \E i \in InviteIds : \/ RetractInvite(i)
                          \/ \E t \in TeamIds : CreateInvite(i, t) \/ MoveInvite(i, t)
  \/ \E u \in Users : \/ AcceptInvite(u) \/ DeactivateUser(u)
                      \/ \E i \in InviteIds : OpenInvite(u, i)
                      \/ \E e \in Events, t \in TeamIds : CreateEvent(u, e, t)
  \/ \E e \in Events : ShredEvent(e)
  \/ \E r \in Requests :
       \/ \E k \in TokenIds \cup {None}, u \in Users, all \in BOOLEAN, limit \in SUBSET events :
            OpenTokenForm(r, k, u, all, limit)
       \/ \E k \in TokenIds : SaveTokenForm(r, k)
       \/ DropTokenForm(r)
  \/ \E k \in TokenIds : RevokeToken(k) \/ LapseToken(k)

TeamsSpec == TeamsInit /\ [][TeamsNext]_teamVars

-----------------------------------------------------------------------------
(* Types, and no row that names an event that is gone. *)
TeamsTypeOK ==
  /\ events \subseteq Events /\ active \subseteq Users
  /\ team \in [TeamIds -> Team \cup {None}]
  /\ invite \in [InviteIds -> TeamIds \cup {None, Gone}]
  /\ token \in [TokenIds -> Token \cup {None}]
  /\ visit \in [Users -> InviteIds \cup {None}]
  /\ request \in [Requests -> Staged \cup {None}]
  /\ form \in [Requests -> TokenForm \cup {None}]
  /\ admitted \in [InviteIds -> SUBSET Users]
  /\ dropped \subseteq TokenIds \X Events
  /\ \A t \in Rows(team) : team[t].limit_events \subseteq events
  /\ \A k \in Rows(token) : token[k].limit_events \subseteq events

(* An invitation brings at most one person into a team, however many people *)
(* have its page open when one of them accepts: accept_team_invite.         *)
InviteAdmitsOnce == \A i \in InviteIds : \A u, v \in admitted[i] : u = v

(* What a token lost because its user was removed from a team stays lost    *)
(* until the user edits the token, also when the user comes back into the   *)
(* team: remove_team_member and update_token_events ("so they do not        *)
(* re-activate unexpectedly").  The edit may be one that the user sent      *)
(* before the removal and that is saved after it.                           *)
RemovalShrinksTokens ==
  \A d \in dropped : Active(d[1]) => d[2] \notin token[d[1]].limit_events

(* Token k has expired, and no form that loaded it before is still unsaved. *)
Dead(k) == /\ token[k] # None /\ token[k].expired
           /\ \A r \in Requests : form[r] # None => form[r].id # k

(* A token that expires while no request has a form of it in hand stays     *)
(* expired, is never loaded by a form again and never reaches more          *)
(* (TokenEdit.get_object, revoke_token, update_token_events).  A form that  *)
(* was loaded before saves its copy of `expires`: it ends a revocation.     *)
ExpiredForGood ==
  [][\A k \in TokenIds : Dead(k) =>
       /\ Dead(k)'
       /\ token'[k].limit_events \subseteq token[k].limit_events]_teamVars

(* As long as nobody has deleted an account, somebody may change the teams  *)
(* and every event has a team with members: check_access_permissions, the   *)
(* team of a new organiser and the team of a new event.                     *)
SomebodyManages == active = Users => Covered(team, events)
=============================================================================
