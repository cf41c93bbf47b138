------------------------------- MODULE Sessions -------------------------------
(* AuthService and AuthRepository over players, player_profiles and          *)
(* auth_sessions.  Every repository call is a transaction of its own: a      *)
(* refresh verifies a token in one and stores its successor in another, and  *)
(* a registration is three.                                                  *)
EXTENDS Integers, FiniteSets

CONSTANTS Emails, Ids,     \* sessions ever created
          Requests, MaxTokens,  \* bound: refresh tokens generated for a session
          None

VARIABLES account,   \* email -> "none", "player" (no profile yet) or "ready"
          session,   \* id -> [owner, token, status, expired]
          tokens,    \* id -> refresh tokens generated so far
          held,      \* id -> tokens clients were answered with
          req        \* request -> what it does

vars == <<account, session, tokens, held, req>>

Idle == [step |-> "idle", email |-> None, id |-> None, token |-> 0]

Init ==
  /\ account = [e \in Emails |-> "none"]
  /\ session = [i \in Ids |-> [owner |-> None, token |-> 0, status |-> "unused", expired |-> FALSE]]
  /\ tokens = [i \in Ids |-> 0]
  /\ held = [i \in Ids |-> {}]
  /\ req = [r \in Requests |-> Idle]

Step(r, step) == [req EXCEPT ![r].step = step]

RegisterChecks(r, e) ==
  /\ req[r].step = "idle"
  /\ account[e] = "none"
  /\ req' = [req EXCEPT ![r] = [Idle EXCEPT !.step = "creating", !.email = e]]
  /\ UNCHANGED <<account, session, tokens, held>>

\* players.email is unique: the second of two registrations fails.
CreatePlayer(r) ==
  /\ req[r].step = "creating"
  /\ IF account[req[r].email] = "none"
     THEN account' = [account EXCEPT ![req[r].email] = "player"] /\ req' = Step(r, "profile")
     ELSE req' = [req EXCEPT ![r] = Idle] /\ UNCHANGED account
  /\ UNCHANGED <<session, tokens, held>>

CreateProfile(r) ==
  /\ req[r].step = "profile"
  /\ account' = [account EXCEPT ![req[r].email] = "ready"]
  /\ req' = Step(r, "session")
  /\ UNCHANGED <<session, tokens, held>>

LoginReads(r, e) ==
  /\ req[r].step = "idle"
  /\ account[e] # "none"
  /\ req' = [req EXCEPT ![r] = [Idle EXCEPT !.step = "session", !.email = e]]
  /\ UNCHANGED <<account, session, tokens, held>>

CreateSession(r, i) ==
  /\ req[r].step = "session"
  /\ session[i].status = "unused"
  /\ session' = [session EXCEPT ![i] = [owner |-> req[r].email, token |-> 1, status |-> "active", expired |-> FALSE]]
  /\ tokens' = [tokens EXCEPT ![i] = 1]
  /\ held' = [held EXCEPT ![i] = {1}]
  /\ req' = [req EXCEPT ![r] = Idle]
  /\ UNCHANGED <<account>>

\* The server stops between two transactions of a request.
Dies(r) ==
  /\ req[r].step # "idle"
  /\ req' = [req EXCEPT ![r] = Idle]
  /\ UNCHANGED <<account, session, tokens, held>>

Live(i) == session[i].status = "active" /\ ~session[i].expired

RefreshReads(r, i, t) ==
  /\ req[r].step = "idle"
  /\ t \in held[i]
  /\ Live(i)
  /\ session[i].token = t
  /\ tokens[i] < MaxTokens
  /\ tokens' = [tokens EXCEPT ![i] = @ + 1]
  /\ req' = [req EXCEPT ![r] = [Idle EXCEPT !.step = "rotating", !.id = i, !.token = tokens[i] + 1]]
  /\ UNCHANGED <<account, session, held>>

\* Mutant: the row is updated whatever became of the session.
RotatesAnyway(r) ==
  LET i == req[r].id IN
  /\ req[r].step = "rotating"
  /\ session' = [session EXCEPT ![i].token = req[r].token]
  /\ held' = [held EXCEPT ![i] = @ \cup {req[r].token}]
  /\ req' = [req EXCEPT ![r] = Idle]
  /\ UNCHANGED <<account, tokens>>

\* The client is answered with the new token even when no row was updated.
Rotates(r) ==
  LET i == req[r].id IN
  /\ req[r].step = "rotating"
  /\ session' = IF Live(i) THEN [session EXCEPT ![i].token = req[r].token] ELSE session
  /\ held' = [held EXCEPT ![i] = @ \cup {req[r].token}]
  /\ req' = [req EXCEPT ![r] = Idle]
  /\ UNCHANGED <<account, tokens>>

LogoutReads(r, i, t) ==
  /\ req[r].step = "idle"
  /\ t \in held[i]
  /\ ~session[i].expired
  /\ session[i].token = t
  /\ req' = [req EXCEPT ![r] = [Idle EXCEPT !.step = "revoking", !.id = i]]
  /\ UNCHANGED <<account, session, tokens, held>>

Revokes(r) ==
  LET i == req[r].id IN
  /\ req[r].step = "revoking"
  /\ session' = [session EXCEPT ![i].status = IF @ = "active" THEN "revoked" ELSE @]
  /\ req' = [req EXCEPT ![r] = Idle]
  /\ UNCHANGED <<account, tokens, held>>

Expires(i) ==
  /\ session[i].status # "unused"
  /\ session' = [session EXCEPT ![i].expired = TRUE]
  /\ UNCHANGED <<account, tokens, held, req>>

Next ==
  \/ \E r \in Requests, e \in Emails : RegisterChecks(r, e) \/ LoginReads(r, e)
  \/ \E r \in Requests : CreatePlayer(r) \/ CreateProfile(r) \/ Dies(r) \/ Rotates(r) \/ Revokes(r)
  \/ \E r \in Requests, i \in Ids : CreateSession(r, i)
  \/ \E r \in Requests, i \in Ids, t \in 1 .. MaxTokens : RefreshReads(r, i, t) \/ LogoutReads(r, i, t)
  \/ \E i \in Ids : Expires(i)

Spec == Init /\ [][Next]_vars

TypeOK ==
  /\ account \in [Emails -> {"none", "player", "ready"}]
  /\ session \in [Ids -> [owner : Emails \cup {None}, token : 0 .. MaxTokens,
                          status : {"unused", "active", "revoked"}, expired : BOOLEAN]]
  /\ tokens \in [Ids -> 0 .. MaxTokens]
  /\ held \in [Ids -> SUBSET (1 .. MaxTokens)]
  /\ req \in [Requests -> [step : {"idle", "creating", "profile", "session", "rotating", "revoking"},
                           email : Emails \cup {None}, id : Ids \cup {None}, token : 0 .. MaxTokens]]

KeepsEnded ==
  \A i \in Ids : session[i].status # "unused" /\ ~Live(i) =>
    session'[i].token = session[i].token /\ ~Live(i)'

\* A refresh that verified its token before a logout or an expiry does not bring the session
\* back nor give it another token (repository.py:73-87).
EndedStaysEnded == [][KeepsEnded]_vars

=============================================================================
