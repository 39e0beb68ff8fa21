------------------------------ MODULE Sessions ------------------------------
(***************************************************************************)
(* Login, refresh-token rotation and logout, from the browser to Redis.    *)
(* The tabs of one browser share the token pair in localStorage; each tab  *)
(* sends at most one refresh at a time, and answers every failed refresh   *)
(* by clearing the pair.  The API takes a refresh token by deleting its    *)
(* jti from Redis, reads the user's roles, and records the jti of a new    *)
(* pair; another tab, an operator or a failure may come in between.        *)
(*                                                                         *)
(* One user; a token is its jti, a number, and 0 stands for none.  The     *)
(* session of a token is the jti its login issued.                         *)
(***************************************************************************)
EXTENDS Naturals, FiniteSets

CONSTANTS Tabs,
          Limit,      \* auth requests the rate limiter admits per window
          MaxTokens,  \* bound: token pairs issued
          MaxFaults   \* bound: calls that fail

ASSUME SessionAssumptions ==
  IsFiniteSet(Tabs) /\ Limit \in Nat /\ MaxTokens \in Nat /\ MaxFaults \in Nat

VARIABLES
  is_active,  \* users.is_active
  live,       \* jtis in Redis
  session,    \* the session of each token issued
  next,       \* the next jti
  hits,       \* the limiter's counter in the current window
  storage, stale,   \* localStorage: refresh token; has the access token expired
  pc, tok, new,     \* each tab: its request, the token it presented and got
  ended,      \* history: sessions whose token a logout deleted
  faults,     \* history: calls that failed
  calm        \* history: nothing else came that may cost the browser its session

server  == <<live, session, next>>
browser == <<storage, stale>>
tabs    == <<pc, tok, new>>
vars == <<is_active, server, hits, browser, tabs, ended, faults, calm>>

Jtis == 1..MaxTokens
InRotation == {"roles", "set"}
Steps == {"idle", "delete", "answer", "logout", "signout"} \cup InRotation

Init ==
  /\ is_active = TRUE /\ live = {} /\ session = [j \in Jtis |-> 0] /\ next = 1
  /\ hits = 0 /\ storage = 0 /\ stale = FALSE
  /\ pc = [t \in Tabs |-> "idle"]
  /\ tok = [t \in Tabs |-> 0] /\ new = [t \in Tabs |-> 0]
  /\ ended = {} /\ faults = 0 /\ calm = TRUE

Goto(t, step) == pc' = [pc EXCEPT ![t] = step]

\* The request is over and its locals are gone.
Done(t) ==
  /\ Goto(t, "idle")
  /\ tok' = [tok EXCEPT ![t] = 0]
  /\ new' = [new EXCEPT ![t] = 0]

\* RateLimiter: the count is incremented, then compared.
Within == hits < Limit
Count == hits' = IF Within THEN hits + 1 ELSE Limit + 1

Fault == faults < MaxFaults /\ faults' = faults + 1

\* It admits a request within the limit, or when its own Redis call fails.
Admitted ==
  \/ Within /\ Count /\ UNCHANGED faults
  \/ Fault /\ UNCHANGED hits

\* clearTokens, setTokens.
Clear == storage' = 0 /\ stale' = FALSE
Store(j) == storage' = j /\ stale' = FALSE

-----------------------------------------------------------------------------
(* Login. *)

MayLoginInactive == TRUE
MayLogin == is_active

Login(t) ==
  /\ pc[t] = "idle"
  /\ Admitted
  /\ MayLogin
  /\ Goto(t, "roles")
  /\ UNCHANGED <<is_active, server, browser, tok, new, ended, calm>>

\* doRefresh reads the refresh token and presents it.
StartRefresh(t) ==
  /\ storage # 0
  /\ Goto(t, "delete")
  /\ tok' = [tok EXCEPT ![t] = storage]
  /\ calm' = (calm /\ \A u \in Tabs : pc[u] = "idle")
  /\ UNCHANGED new

\* 429; or 401 for an unknown address, a wrong password or an inactive account,
\* which the tab answers like any other: it refreshes the pair it may hold, and
\* then tries the login again.
LoginRefused(t) ==
  /\ pc[t] = "idle"
  /\ \/ ~Within /\ Count /\ UNCHANGED <<faults, tabs, calm>>
     \/ Admitted /\ storage = 0 /\ UNCHANGED <<tabs, calm>>
     \/ Admitted /\ StartRefresh(t)
  /\ UNCHANGED <<is_active, server, browser, ended>>

-----------------------------------------------------------------------------
(* Refresh. *)

\* A request met a 401, as the access token has expired.
Refresh(t) ==
  /\ pc[t] = "idle" /\ stale
  /\ StartRefresh(t)
  /\ UNCHANGED <<is_active, server, hits, browser, ended, faults>>

\* redis.delete returns whether the jti was there.
DeletedUnchecked(j) == TRUE
Deleted(j) == j \in live

RevokedTooLate(j) == live
Revoked(j) == live \ {j}

RefreshDelete(t) ==
  /\ pc[t] = "delete"
  /\ Admitted
  /\ Deleted(tok[t])
  /\ live' = Revoked(tok[t])
  /\ Goto(t, "roles")
  /\ UNCHANGED <<is_active, session, next, browser, tok, new, ended, calm>>

\* Revoked, expired or already rotated: 401, and the tab clears the pair.
RefreshReuse(t) ==
  /\ pc[t] = "delete"
  /\ Admitted
  /\ ~Deleted(tok[t])
  /\ Clear
  /\ Done(t)
  /\ UNCHANGED <<is_active, server, ended, calm>>

-----------------------------------------------------------------------------
(* Both go on with _roles_for_user and _issue_pair. *)

RolesForUser(t) ==
  /\ pc[t] = "roles"
  /\ Goto(t, "set")
  /\ UNCHANGED <<is_active, server, hits, browser, tok, new, ended, faults,
                 calm>>

RecordedNowhere(j) == live
Recorded(j) == live \cup {j}

\* The new jti is recorded in Redis; a login opens a session.
Issue(t) ==
  /\ next <= MaxTokens
  /\ live' = Recorded(next)
  /\ session' = [session EXCEPT ![next] =
                   IF tok[t] = 0 THEN next ELSE session[tok[t]]]
  /\ next' = next + 1

IssuePair(t) ==
  /\ pc[t] = "set"
  /\ Issue(t)
  /\ new' = [new EXCEPT ![t] = next]
  /\ Goto(t, "answer")
  /\ UNCHANGED <<is_active, hits, browser, tok, ended, faults, calm>>

\* The tab stores the pair it was sent.
Answer(t) ==
  /\ pc[t] = "answer"
  /\ Store(new[t])
  /\ Done(t)
  /\ UNCHANGED <<is_active, server, hits, ended, faults, calm>>

-----------------------------------------------------------------------------
(* Logout, best effort: the tab clears the pair whatever is answered. *)

Logout(t) ==
  /\ pc[t] = "idle" /\ storage # 0
  /\ Goto(t, "logout")
  /\ tok' = [tok EXCEPT ![t] = storage]
  /\ calm' = FALSE
  /\ UNCHANGED <<is_active, server, hits, browser, new, ended, faults>>

\* The sessions ended once the token the tab presented is deleted.
EndedBy(t) == ended \cup {session[j] : j \in {tok[t]} \cap live}

LogoutDelete(t) ==
  /\ pc[t] = "logout"
  /\ Admitted
  /\ ended' = EndedBy(t)
  /\ live' = Revoked(tok[t])
  /\ Goto(t, "signout")
  /\ UNCHANGED <<is_active, session, next, browser, tok, new, calm>>

SignOut(t) ==
  /\ pc[t] = "signout"
  /\ Clear
  /\ Done(t)
  /\ UNCHANGED <<is_active, server, hits, ended, faults, calm>>

-----------------------------------------------------------------------------
(* Refusals and failures. *)

\* What a tab does with a request that was not granted.
GiveUp(t) ==
  /\ Done(t)
  /\ IF tok[t] = 0 THEN UNCHANGED browser ELSE Clear

\* 429 before anything else runs.
RateLimited(t) ==
  /\ pc[t] \in {"delete", "logout"}
  /\ ~Within /\ Count
  /\ GiveUp(t)
  /\ calm' = FALSE
  /\ UNCHANGED <<is_active, server, ended, faults>>

\* Redis or Postgres raises, the API dies, or the answer is lost.  A DELETE or
\* a SET may have been applied all the same.
RequestFails(t) ==
  /\ pc[t] \in {"delete", "logout", "answer"} \cup InRotation
  /\ Fault
  /\ GiveUp(t)
  /\ \/ UNCHANGED <<server, ended>>
     \/ /\ pc[t] \in {"delete", "logout"}
        /\ live' = Revoked(tok[t])
        /\ ended' = IF pc[t] = "logout" THEN EndedBy(t) ELSE ended
        /\ UNCHANGED <<session, next>>
     \/ pc[t] = "set" /\ Issue(t) /\ UNCHANGED ended
  /\ UNCHANGED <<is_active, hits, calm>>

-----------------------------------------------------------------------------
(* Time and operators. *)

NextWindow ==
  /\ hits > 0
  /\ hits' = 0
  /\ UNCHANGED <<is_active, server, browser, tabs, ended, faults, calm>>

ExpireAccess ==
  /\ storage # 0 /\ ~stale
  /\ stale' = TRUE
  /\ UNCHANGED <<is_active, server, hits, storage, tabs, ended, faults,
                 calm>>

ExpireRefresh(j) ==
  /\ j \in live
  /\ live' = live \ {j}
  /\ calm' = FALSE
  /\ UNCHANGED <<is_active, session, next, hits, browser, tabs, ended, faults>>

Deactivate ==
  /\ is_active
  /\ is_active' = FALSE
  /\ UNCHANGED <<server, hits, browser, tabs, ended, faults, calm>>

Step(t) ==
  \/ Login(t) \/ LoginRefused(t)
  \/ Refresh(t) \/ RefreshDelete(t) \/ RefreshReuse(t)
  \/ RolesForUser(t) \/ IssuePair(t) \/ Answer(t)
  \/ Logout(t) \/ LogoutDelete(t) \/ SignOut(t)
  \/ RateLimited(t) \/ RequestFails(t)

Next ==
  \/ \E t \in Tabs : Step(t)
  \/ \E j \in live : ExpireRefresh(j)
  \/ NextWindow \/ ExpireAccess \/ Deactivate

Spec == Init /\ [][Next]_vars

-----------------------------------------------------------------------------
(* Properties. *)

Rotating == {t \in Tabs : pc[t] \in InRotation /\ tok[t] # 0}

\* auth.py:303-308, "reusing an old refresh token after rotation is treated
\* identically to using a revoked one": however tabs race and calls fail, a
\* session is one live token or one rotation in progress, never two.
OneStrandPerSession ==
  /\ \A j, k \in live : session[j] = session[k] => j = k
  /\ \A t, u \in Rotating : session[tok[t]] = session[tok[u]] => t = u
  /\ \A j \in live, t \in Rotating : session[j] # session[tok[t]]

\* auth.py:323-334.  Once a logout has deleted a session's token, no token of
\* that session is live again, though rotations race the logout.
LogoutEndsSession == \A j \in live : session[j] \notin ended

\* frontend/lib/api.ts:36-60, auth.py:315-344.  Rotation alone never signs the
\* browser out: it holds a live token unless a call failed, the limiter
\* refused one, the token expired, somebody logged out or two tabs overlapped.
StaysSignedIn ==
  (next > 1 /\ faults = 0 /\ calm /\ \A t \in Tabs : pc[t] = "idle")
    => storage \in live

Strands ==
  Cardinality(live) + Cardinality({t \in Tabs : pc[t] \in InRotation})

\* auth.py:293-295, 303-321.  A deactivated user's sessions go on, because a
\* refresh does not look at is_active, but they never become more.
NoNewSessionsOnceInactive == [][~is_active => Strands' <= Strands]_vars
=============================================================================
