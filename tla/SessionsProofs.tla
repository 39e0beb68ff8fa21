--------------------------- MODULE SessionsProofs ---------------------------
(***************************************************************************)
(* Proofs about Sessions, for any number of tabs, tokens and faults.       *)
(***************************************************************************)
EXTENDS Sessions, FiniteSetTheorems, TLAPS

\* Tokens are numbered in the order they are issued, and a session is one of
\* its own tokens, so the session a login opens is new.
TokenInv ==
  /\ next \in 1..(MaxTokens + 1)
  /\ live \subseteq 1..(next - 1)
  /\ session \in [Jtis -> Nat]
  /\ \A j \in 1..(next - 1) : session[j] \in 1..j
  /\ pc \in [Tabs -> Steps]
  /\ tok \in [Tabs -> 0..(next - 1)]
  /\ storage \in 0..(next - 1)
  /\ new \in [Tabs -> 0..(next - 1)]
  /\ \A t \in Tabs : pc[t] = "idle" => tok[t] = 0

LEMMA TokenInit == Init => TokenInv
  BY SessionAssumptions DEF Init, TokenInv, Steps, Jtis

\* The server's part of issuing keeps the numbering.
LEMMA IssueNumbers ==
  ASSUME TokenInv, NEW t \in Tabs, Issue(t)
  PROVE  /\ next' = next + 1 /\ next \in Jtis /\ next' \in 1..(MaxTokens + 1)
         /\ live' = live \cup {next}
         /\ session' \in [Jtis -> Nat]
         /\ \A j \in 1..(next - 1) : session'[j] = session[j]
         /\ session'[next] = IF tok[t] = 0 THEN next ELSE session[tok[t]]
         /\ \A j \in 1..(next' - 1) : session'[j] \in 1..j
<1> USE SessionAssumptions DEF TokenInv, Jtis
<1>1. /\ next <= MaxTokens /\ next' = next + 1 /\ live' = live \cup {next}
      /\ session' = [session EXCEPT ![next] =
                       IF tok[t] = 0 THEN next ELSE session[tok[t]]]
  BY DEF Issue, Recorded
<1>2. next \in Jtis /\ next' \in 1..(MaxTokens + 1)
  BY <1>1
<1>3. tok[t] # 0 => session[tok[t]] \in 1..tok[t] /\ tok[t] \in 1..(next - 1)
  OBVIOUS
<1>4. session'[next] = IF tok[t] = 0 THEN next ELSE session[tok[t]]
  BY <1>1, <1>2
<1>5. \A j \in 1..(next - 1) : session'[j] = session[j]
  BY <1>1, <1>2
<1>6. session' \in [Jtis -> Nat]
  BY <1>1, <1>2, <1>3
<1>7. \A j \in 1..(next' - 1) : session'[j] \in 1..j
  BY <1>1, <1>2, <1>3, <1>4, <1>5
<1>8. QED
  BY <1>1, <1>2, <1>4, <1>5, <1>6, <1>7

\* Issuing keeps the invariant when the tabs and the browser do.
LEMMA Issued ==
  ASSUME TokenInv, NEW t \in Tabs, Issue(t),
         pc' \in [Tabs -> Steps], new' \in [Tabs -> 0..next],
         tok' \in [Tabs -> 0..(next - 1)], storage' \in 0..(next - 1),
         \A u \in Tabs : pc'[u] = "idle" => tok'[u] = 0
  PROVE  TokenInv'
<1>1. /\ next' = next + 1 /\ next' \in 1..(MaxTokens + 1) /\ next \in Nat
      /\ live' = live \cup {next} /\ session' \in [Jtis -> Nat]
      /\ \A j \in 1..(next' - 1) : session'[j] \in 1..j
  BY IssueNumbers, SessionAssumptions DEF TokenInv
<1>2. live' \subseteq 1..(next' - 1)
  BY <1>1 DEF TokenInv
<1>3. tok' \in [Tabs -> 0..(next' - 1)] /\ storage' \in 0..(next' - 1)
  BY <1>1
<1>4. new' \in [Tabs -> 0..(next' - 1)]
  BY <1>1
<1>5. QED
  BY <1>1, <1>2, <1>3, <1>4 DEF TokenInv

LEMMA TokenNext == TokenInv /\ [Next]_vars => TokenInv'
<1> SUFFICES ASSUME TokenInv, [Next]_vars PROVE TokenInv'
  OBVIOUS
<1> USE SessionAssumptions DEF server, browser, tabs
<1> DEFINE Ok == /\ next' = next /\ session' = session
                 /\ live' \subseteq live
                 /\ pc' \in [Tabs -> Steps]
                 /\ tok' \in [Tabs -> 0..(next - 1)]
                 /\ storage' \in 0..(next - 1)
                 /\ new' \in [Tabs -> 0..(next - 1)]
                 /\ \A u \in Tabs : pc'[u] = "idle" => tok'[u] = 0
<1>0. Ok => TokenInv'
  BY DEF TokenInv
<1>1. ASSUME NEW t \in Tabs, Step(t) PROVE TokenInv'
  <2> USE <1>1
  <2>1. CASE Login(t) \/ LoginRefused(t) \/ Refresh(t)
    <3>1. Ok
      BY <2>1 DEF Login, LoginRefused, Refresh, StartRefresh, Goto, TokenInv,
                  Steps, InRotation
    <3>2. QED
      BY <3>1, <1>0
  <2>2. CASE RefreshDelete(t) \/ LogoutDelete(t) \/ RolesForUser(t) \/ Logout(t)
    <3>1. Ok
      BY <2>2 DEF RefreshDelete, LogoutDelete, RolesForUser, Logout, Goto,
                  Revoked, TokenInv, Steps, InRotation
    <3>2. QED
      BY <3>1, <1>0
  <2>3. CASE RefreshReuse(t) \/ SignOut(t) \/ Answer(t) \/ RateLimited(t)
    <3>1. Ok
      BY <2>3 DEF RefreshReuse, SignOut, Answer, RateLimited, GiveUp, Done, Goto,
                  Clear, Store, TokenInv, Steps, InRotation
    <3>2. QED
      BY <3>1, <1>0
  <2>4. CASE IssuePair(t)
    <3>1. Issue(t) /\ new' = [new EXCEPT ![t] = next] /\ Goto(t, "answer")
          /\ UNCHANGED <<tok, storage>>
      BY <2>4 DEF IssuePair
    <3>2. /\ pc' \in [Tabs -> Steps] /\ new' \in [Tabs -> 0..next]
          /\ \A u \in Tabs : pc'[u] = "idle" => tok'[u] = 0
      BY <3>1 DEF Goto, TokenInv, Steps
    <3>3. tok' \in [Tabs -> 0..(next - 1)] /\ storage' \in 0..(next - 1)
      BY <3>1 DEF TokenInv
    <3>4. QED
      BY <3>1, <3>2, <3>3, Issued
  <2>5. CASE RequestFails(t)
    <3>1. /\ pc' \in [Tabs -> Steps] /\ tok' \in [Tabs -> 0..(next - 1)]
          /\ new' \in [Tabs -> 0..(next - 1)] /\ storage' \in 0..(next - 1)
          /\ \A u \in Tabs : pc'[u] = "idle" => tok'[u] = 0
      BY <2>5 DEF RequestFails, GiveUp, Done, Goto, Clear, TokenInv, Steps
    <3>2. CASE Issue(t)
      <4>1. new' \in [Tabs -> 0..next]
        BY <3>1 DEF TokenInv
      <4>2. QED
        BY <3>1, <3>2, <4>1, Issued
    <3>3. CASE ~Issue(t)
      <4>1. next' = next /\ session' = session /\ live' \subseteq live
        BY <2>5, <3>3 DEF RequestFails, Revoked
      <4>2. QED
        BY <3>1, <4>1, <1>0
    <3>4. QED
      BY <3>2, <3>3
  <2>6. QED
    BY <2>1, <2>2, <2>3, <2>4, <2>5 DEF Step
<1>2. CASE \/ \E j \in live : ExpireRefresh(j)
           \/ NextWindow \/ ExpireAccess \/ Deactivate \/ UNCHANGED vars
  <2>1. Ok
    BY <1>2 DEF ExpireRefresh, NextWindow, ExpireAccess, Deactivate, vars, TokenInv
  <2>2. QED
    BY <2>1, <1>0
<1>3. QED
  BY <1>1, <1>2 DEF Next

-----------------------------------------------------------------------------
(* One strand for each session, none for one that was ended. *)

StrandInv ==
  /\ OneStrandPerSession
  /\ LogoutEndsSession
  /\ \A t \in Rotating : session[tok[t]] \notin ended
  /\ ended \subseteq 1..(next - 1)

\* A step that only takes strands away keeps the invariant.
LEMMA FewerStrands ==
  ASSUME TokenInv, StrandInv, next' = next, session' = session, ended' = ended,
         live' \subseteq live,
         \A t \in Rotating' : t \in Rotating /\ tok'[t] = tok[t]
  PROVE  StrandInv'
BY DEF StrandInv, OneStrandPerSession, LogoutEndsSession

\* So does one that turns a rotation, or a login, into a token.
LEMMA StrandIssued ==
  ASSUME TokenInv, StrandInv, NEW t \in Tabs, Issue(t), ended' = ended,
         tok[t] = 0 \/ t \in Rotating,
         \A u \in Rotating' : u # t /\ u \in Rotating /\ tok'[u] = tok[u]
  PROVE  StrandInv'
<1>1. /\ next' = next + 1 /\ live' = live \cup {next} /\ next \in Nat
      /\ \A j \in 1..(next - 1) : session'[j] = session[j]
      /\ session'[next] = IF tok[t] = 0 THEN next ELSE session[tok[t]]
      /\ \A j \in 1..(next - 1) : session[j] \in 1..(next - 1)
      /\ live \subseteq 1..(next - 1)
      /\ \A u \in Tabs : tok[u] \in 0..(next - 1)
  BY IssueNumbers DEF TokenInv
<1>2. \A u \in Rotating : tok[u] \in 1..(next - 1) /\ u \in Tabs
  BY <1>1 DEF Rotating
<1>3. \A j \in live : session'[j] = session[j] /\ session'[j] # session'[next]
  BY <1>1, <1>2 DEF StrandInv, OneStrandPerSession
<1>4. \A u \in Rotating' : /\ session'[tok'[u]] = session[tok[u]]
                           /\ session'[tok'[u]] # session'[next]
  BY <1>1, <1>2 DEF StrandInv, OneStrandPerSession
<1>5. session'[next] \notin ended
  BY <1>1 DEF StrandInv
<1>6. OneStrandPerSession'
  BY <1>1, <1>3, <1>4 DEF StrandInv, OneStrandPerSession
<1>7. LogoutEndsSession'
  BY <1>1, <1>3, <1>5 DEF StrandInv, LogoutEndsSession
<1>8. \A u \in Rotating' : session'[tok'[u]] \notin ended'
  BY <1>4 DEF StrandInv
<1>9. ended' \subseteq 1..(next' - 1)
  BY <1>1 DEF StrandInv
<1>10. QED
  BY <1>6, <1>7, <1>8, <1>9 DEF StrandInv

\* So does deleting a token together with recording its session as ended.
LEMMA StrandEnded ==
  ASSUME TokenInv, StrandInv, NEW t \in Tabs, live' = live \ {tok[t]},
         ended' = EndedBy(t), next' = next, session' = session,
         \A u \in Rotating' : u \in Rotating /\ tok'[u] = tok[u]
  PROVE  StrandInv'
<1>1. OneStrandPerSession'
  BY DEF StrandInv, OneStrandPerSession
<1>2. CASE tok[t] \in live
  <2>1. ended' = ended \cup {session[tok[t]]}
    BY <1>2 DEF EndedBy
  <2>2. session[tok[t]] \in 1..(next - 1)
    BY <1>2 DEF TokenInv
  <2>3. LogoutEndsSession'
    <3>1. \A j \in live : j # tok[t] =>
            session[j] \notin ended /\ session[j] # session[tok[t]]
      BY <1>2 DEF StrandInv, OneStrandPerSession, LogoutEndsSession
    <3>2. QED
      BY <2>1, <3>1 DEF LogoutEndsSession
  <2>4. \A u \in Rotating' : session'[tok'[u]] \notin ended'
    <3>1. \A u \in Rotating :
            session[tok[u]] \notin ended /\ session[tok[u]] # session[tok[t]]
      BY <1>2 DEF StrandInv, OneStrandPerSession
    <3>2. QED
      BY <2>1, <3>1
  <2>5. QED
    BY <1>1, <2>1, <2>2, <2>3, <2>4 DEF StrandInv
<1>3. CASE tok[t] \notin live
  <2>1. ended' = ended
    BY <1>3 DEF EndedBy
  <2>2. QED
    BY <1>1, <2>1 DEF StrandInv, LogoutEndsSession
<1>4. QED
  BY <1>2, <1>3

LEMMA StrandNext == TokenInv /\ StrandInv /\ [Next]_vars => StrandInv'
<1> SUFFICES ASSUME TokenInv, StrandInv, [Next]_vars PROVE StrandInv'
  OBVIOUS
<1> USE DEF server, browser, tabs
<1>a. /\ pc \in [Tabs -> Steps] /\ tok \in [Tabs -> 0..(next - 1)]
      /\ \A t \in Tabs : pc[t] = "idle" => tok[t] = 0
  BY DEF TokenInv
<1>1. ASSUME NEW t \in Tabs, Step(t) PROVE StrandInv'
  <2> USE <1>1
  <2>1. CASE Login(t) \/ RolesForUser(t)
    <3>1. /\ UNCHANGED <<next, session, ended, live, tok>>
          /\ \A u \in Tabs \ {t} : pc'[u] = pc[u]
          /\ pc'[t] \in InRotation => pc[t] \in InRotation \/ tok[t] = 0
      BY <2>1, <1>a DEF Login, RolesForUser, Goto, InRotation
    <3>2. QED
      BY <3>1, FewerStrands DEF Rotating
  <2>2. CASE LoginRefused(t) \/ Refresh(t) \/ Logout(t)
    <3>1. /\ UNCHANGED <<next, session, ended, live>> /\ pc'[t] \notin InRotation
          /\ \A u \in Tabs \ {t} : pc'[u] = pc[u] /\ tok'[u] = tok[u]
      BY <2>2, <1>a DEF LoginRefused, Refresh, StartRefresh, Logout, Goto,
                        InRotation
    <3>2. QED
      BY <3>1, FewerStrands DEF Rotating
  <2>3. CASE RefreshDelete(t)
    <3>1. /\ tok[t] \in live /\ live' = live \ {tok[t]} /\ pc[t] = "delete"
          /\ UNCHANGED <<next, session, ended, tok>>
          /\ pc' = [pc EXCEPT ![t] = "roles"]
      BY <2>3 DEF RefreshDelete, Deleted, Revoked, Goto
    <3>2. /\ \A u \in Rotating' : u \in Rotating \/ u = t
          /\ t \notin Rotating
      BY <3>1, <1>a DEF Rotating, InRotation
    <3>3. \A u \in Rotating : session[tok[u]] # session[tok[t]]
      BY <3>1 DEF StrandInv, OneStrandPerSession
    <3>4. OneStrandPerSession'
      BY <3>1, <3>2, <3>3 DEF StrandInv, OneStrandPerSession
    <3>5. QED
      BY <3>1, <3>2, <3>4 DEF StrandInv, LogoutEndsSession
  <2>4. CASE LogoutDelete(t)
    <3>1. /\ live' = live \ {tok[t]} /\ ended' = EndedBy(t)
          /\ UNCHANGED <<next, session, tok>>
          /\ pc[t] = "logout" /\ pc' = [pc EXCEPT ![t] = "signout"]
      BY <2>4 DEF LogoutDelete, Revoked, Goto
    <3>2. Rotating' = Rotating
      BY <3>1, <1>a DEF Rotating, InRotation
    <3>3. QED
      BY <3>1, <3>2, StrandEnded
  <2>5. CASE RefreshReuse(t) \/ SignOut(t) \/ Answer(t) \/ RateLimited(t)
    <3>1. /\ UNCHANGED <<next, session, ended, live>> /\ pc'[t] = "idle"
          /\ \A u \in Tabs \ {t} : pc'[u] = pc[u] /\ tok'[u] = tok[u]
      BY <2>5, <1>a DEF RefreshReuse, SignOut, Answer, RateLimited, GiveUp, Done,
                        Goto
    <3>2. QED
      BY <3>1, FewerStrands DEF Rotating, InRotation
  <2>6. CASE IssuePair(t)
    <3>1. /\ Issue(t) /\ pc[t] = "set" /\ pc'[t] = "answer"
          /\ UNCHANGED <<ended, tok>>
          /\ \A u \in Tabs \ {t} : pc'[u] = pc[u]
      BY <2>6, <1>a DEF IssuePair, Goto
    <3>2. QED
      BY <3>1, StrandIssued DEF Rotating, InRotation
  <2>7. CASE RequestFails(t)
    <3>1. /\ pc'[t] = "idle"
          /\ \A u \in Tabs \ {t} : pc'[u] = pc[u] /\ tok'[u] = tok[u]
      BY <2>7, <1>a DEF RequestFails, GiveUp, Done, Goto
    <3>2. \A u \in Rotating' : u # t /\ u \in Rotating /\ tok'[u] = tok[u]
      BY <3>1 DEF Rotating, InRotation
    <3>3. CASE pc[t] = "set" /\ Issue(t) /\ ended' = ended
      <4>1. tok[t] = 0 \/ t \in Rotating
        BY <3>3 DEF Rotating, InRotation
      <4>2. QED
        BY <3>1, <3>2, <3>3, <4>1, StrandIssued
    <3>4. CASE /\ UNCHANGED <<next, session, ended>> /\ live' \subseteq live
      BY <3>2, <3>4, FewerStrands
    <3>5. CASE /\ UNCHANGED <<next, session>> /\ live' = live \ {tok[t]}
               /\ ended' = EndedBy(t)
      BY <3>2, <3>5, StrandEnded
    <3>6. QED
      BY <2>7, <3>3, <3>4, <3>5 DEF RequestFails, Revoked
  <2>8. QED
    BY <2>1, <2>2, <2>3, <2>4, <2>5, <2>6, <2>7 DEF Step
<1>2. CASE \/ \E j \in live : ExpireRefresh(j)
           \/ NextWindow \/ ExpireAccess \/ Deactivate \/ UNCHANGED vars
  <2>1. UNCHANGED <<next, session, ended, pc, tok>> /\ live' \subseteq live
    BY <1>2 DEF ExpireRefresh, NextWindow, ExpireAccess, Deactivate, vars
  <2>2. QED
    BY <2>1, FewerStrands DEF Rotating
<1>3. QED
  BY <1>1, <1>2 DEF Next

LEMMA StrandInit == Init => StrandInv
  BY DEF Init, StrandInv, OneStrandPerSession, LogoutEndsSession, Rotating,
         InRotation

\* However many tabs race and whatever fails, a session never has two tokens,
\* two rotations or a token and a rotation.
THEOREM OneStrand == Spec => []OneStrandPerSession
<1>1. StrandInv => OneStrandPerSession
  BY DEF StrandInv
<1>2. QED
  BY TokenInit, TokenNext, StrandInit, StrandNext, <1>1, PTL DEF Spec

\* A session whose token a logout deleted never has a token again.
THEOREM LogoutIsFinal == Spec => []LogoutEndsSession
<1>1. StrandInv => LogoutEndsSession
  BY DEF StrandInv
<1>2. QED
  BY TokenInit, TokenNext, StrandInit, StrandNext, <1>1, PTL DEF Spec

-----------------------------------------------------------------------------
(* Staying signed in.  While nothing troubles the browser, tabs log in and   *)
(* at most one of them rotates a token, and the tokens on their way to the   *)
(* browser are live; so is the stored one, while nobody rotates it.          *)

Untroubled == faults = 0 /\ calm

SignedIn ==
  /\ \A t \in Tabs : pc[t] \notin {"logout", "signout"}
  /\ \A t \in Tabs : pc[t] = "delete" => tok[t] \in live
  /\ \A t \in Tabs : pc[t] = "answer" => new[t] \in live
  /\ \A t, u \in Tabs : tok[t] # 0 /\ tok[u] # 0 => t = u
  /\ \A t, u \in Tabs : tok[t] # 0 /\ pc[u] = "answer" => new[u] # tok[t]
  /\ (\A t \in Tabs : tok[t] = 0) =>
       /\ storage # 0 => storage \in live
       /\ next > 1 => storage \in live \/ \E t \in Tabs : pc[t] = "answer"

CalmInv == faults \in Nat /\ (Untroubled => SignedIn)

LEMMA CalmInit == Init => CalmInv
  BY DEF Init, CalmInv, SignedIn

\* Trouble is never undone, and these steps are trouble.
LEMMA TroubleStays ==
  ASSUME faults \in Nat, [Next]_vars
  PROVE  /\ faults' \in Nat /\ (Untroubled' => Untroubled)
         /\ \A t \in Tabs :
              Logout(t) \/ RateLimited(t) \/ RequestFails(t) => ~Untroubled'
         /\ \A j \in live : ExpireRefresh(j) => ~Untroubled'
<1>1. ASSUME Fault PROVE faults' \in Nat /\ ~Untroubled'
  BY <1>1 DEF Fault, Untroubled
<1>2. ASSUME Admitted PROVE faults' \in Nat /\ (Untroubled' => faults' = faults)
  BY <1>1, <1>2 DEF Admitted
<1>3. ASSUME NEW t \in Tabs, Step(t)
      PROVE  faults' \in Nat /\ (Untroubled' => Untroubled)
  <2>1. CASE Login(t) \/ RefreshDelete(t) \/ RefreshReuse(t) \/ LogoutDelete(t)
    BY <1>2, <2>1 DEF Login, RefreshDelete, RefreshReuse, LogoutDelete, Untroubled
  <2>2. CASE LoginRefused(t)
    <3>1. faults' \in Nat /\ (Untroubled' => faults' = faults)
      BY <1>2, <2>2 DEF LoginRefused
    <3>2. calm' => calm
      BY <2>2, Zenon DEF LoginRefused, StartRefresh
    <3>3. QED
      BY <3>1, <3>2 DEF Untroubled
  <2>3. CASE Refresh(t)
    <3>1. faults' = faults
      BY <2>3 DEF Refresh
    <3>2. calm' => calm
      BY <2>3, Zenon DEF Refresh, StartRefresh
    <3>3. QED
      BY <3>1, <3>2 DEF Untroubled
  <2>4. CASE RolesForUser(t) \/ IssuePair(t) \/ Answer(t) \/ SignOut(t)
    BY <2>4 DEF RolesForUser, IssuePair, Answer, SignOut, Untroubled
  <2>5. CASE Logout(t) \/ RateLimited(t)
    BY <2>5 DEF Logout, RateLimited, Untroubled
  <2>6. CASE RequestFails(t)
    BY <1>1, <2>6 DEF RequestFails
  <2>7. QED
    BY <1>3, <2>1, <2>2, <2>3, <2>4, <2>5, <2>6 DEF Step
<1>4. ASSUME \/ \E j \in live : ExpireRefresh(j)
             \/ NextWindow \/ ExpireAccess \/ Deactivate \/ UNCHANGED vars
      PROVE  faults' \in Nat /\ (Untroubled' => Untroubled)
  BY <1>4 DEF ExpireRefresh, NextWindow, ExpireAccess, Deactivate, vars,
              Untroubled
<1>5. \A t \in Tabs :
        Logout(t) \/ RateLimited(t) \/ RequestFails(t) => ~Untroubled'
  BY <1>1 DEF Logout, RateLimited, RequestFails, Untroubled
<1>6. \A j \in live : ExpireRefresh(j) => ~Untroubled'
  BY DEF ExpireRefresh, Untroubled
<1>7. QED
  BY <1>3, <1>4, <1>5, <1>6 DEF Next

LEMMA CalmNext == TokenInv /\ CalmInv /\ [Next]_vars => CalmInv'
<1> SUFFICES ASSUME TokenInv, CalmInv, [Next]_vars, Untroubled' PROVE SignedIn'
  BY TroubleStays DEF CalmInv
<1> USE DEF server, browser, tabs
<1>0. Untroubled /\ SignedIn
  BY TroubleStays DEF CalmInv
<1>a. /\ pc \in [Tabs -> Steps] /\ tok \in [Tabs -> 0..(next - 1)]
      /\ new \in [Tabs -> 0..(next - 1)] /\ next \in Nat
      /\ \A t \in Tabs : pc[t] = "idle" => tok[t] = 0
      /\ 0 \notin live /\ storage \in 0..(next - 1)
  BY SessionAssumptions DEF TokenInv
<1>1. ASSUME NEW t \in Tabs, Login(t) PROVE SignedIn'
  <2>1. /\ pc[t] = "idle" /\ pc' = [pc EXCEPT ![t] = "roles"]
        /\ UNCHANGED <<live, next, storage, tok, new>>
    BY <1>1 DEF Login, Goto
  <2>2. QED
    BY <1>0, <1>a, <2>1 DEF SignedIn
\* A calm refresh begins while every tab is idle.
<1>2. ASSUME NEW t \in Tabs, pc[t] = "idle", StartRefresh(t),
             UNCHANGED <<live, next, storage>>
      PROVE  SignedIn'
  <2>1. /\ storage # 0 /\ pc' = [pc EXCEPT ![t] = "delete"]
        /\ tok' = [tok EXCEPT ![t] = storage] /\ UNCHANGED new
    BY <1>2 DEF StartRefresh, Goto
  <2>2. \A u \in Tabs : pc[u] = "idle"
    <3>1. calm' /\ calm' = (calm /\ \A u \in Tabs : pc[u] = "idle")
      BY <1>2 DEF StartRefresh, Untroubled
    <3>2. QED
      BY <3>1, Zenon
  <2>3. storage \in live
    BY <1>0, <1>a, <2>1, <2>2 DEF SignedIn
  <2>4. /\ pc'[t] = "delete" /\ tok'[t] = storage
        /\ \A u \in Tabs \ {t} : pc'[u] = "idle" /\ tok'[u] = 0
    BY <1>a, <2>1, <2>2
  <2>5. QED
    BY <1>2, <2>1, <2>3, <2>4 DEF SignedIn
<1>3. ASSUME NEW t \in Tabs, RefreshDelete(t) PROVE SignedIn'
  <2>1. /\ pc[t] = "delete" /\ pc' = [pc EXCEPT ![t] = "roles"]
        /\ live' = live \ {tok[t]} /\ UNCHANGED <<next, storage, tok, new>>
    BY <1>3 DEF RefreshDelete, Revoked, Goto
  <2>2. tok[t] # 0
    BY <1>0, <1>a, <2>1 DEF SignedIn
  <2>3. ASSUME NEW u \in Tabs, pc'[u] = "delete" PROVE FALSE
    BY <1>0, <1>a, <2>1, <2>2, <2>3 DEF SignedIn
  <2>4. ASSUME NEW u \in Tabs, pc'[u] = "answer" PROVE new[u] \in live'
    BY <1>0, <1>a, <2>1, <2>2, <2>4 DEF SignedIn
  <2>5. QED
    BY <1>0, <1>a, <2>1, <2>2, <2>3, <2>4 DEF SignedIn
\* The token a lone refresh presents is live.
<1>4. ASSUME NEW t \in Tabs, RefreshReuse(t) PROVE FALSE
  BY <1>0, <1>4 DEF RefreshReuse, Deleted, SignedIn
<1>5. ASSUME NEW t \in Tabs, RolesForUser(t) PROVE SignedIn'
  <2>1. /\ pc[t] = "roles" /\ pc' = [pc EXCEPT ![t] = "set"]
        /\ UNCHANGED <<live, next, storage, tok, new>>
    BY <1>5 DEF RolesForUser, Goto
  <2>2. QED
    BY <1>0, <1>a, <2>1 DEF SignedIn
<1>6. ASSUME NEW t \in Tabs, IssuePair(t) PROVE SignedIn'
  <2>1. /\ pc[t] = "set" /\ pc' = [pc EXCEPT ![t] = "answer"]
        /\ new' = [new EXCEPT ![t] = next] /\ live' = live \cup {next}
        /\ next' = next + 1 /\ UNCHANGED <<storage, tok>>
    BY <1>6 DEF IssuePair, Issue, Recorded, Goto
  <2>2. QED
    BY <1>0, <1>a, <2>1 DEF SignedIn
<1>7. ASSUME NEW t \in Tabs, Answer(t) PROVE SignedIn'
  <2>1. /\ pc[t] = "answer" /\ storage' = new[t]
        /\ pc' = [pc EXCEPT ![t] = "idle"] /\ tok' = [tok EXCEPT ![t] = 0]
        /\ new' = [new EXCEPT ![t] = 0] /\ UNCHANGED <<live, next>>
    BY <1>7 DEF Answer, Store, Done, Goto
  <2>2. storage' \in live' /\ storage' # 0
    BY <1>0, <1>a, <2>1 DEF SignedIn
  <2>3. QED
    BY <1>0, <1>a, <2>1, <2>2 DEF SignedIn
<1>8. ASSUME NEW t \in Tabs, LogoutDelete(t) \/ SignOut(t) PROVE FALSE
  BY <1>0, <1>8 DEF LogoutDelete, SignOut, SignedIn
<1>9. ASSUME UNCHANGED <<pc, tok, new, live, next, storage>> PROVE SignedIn'
  BY <1>0, <1>9 DEF SignedIn
<1>10. ASSUME NEW t \in Tabs, Step(t) PROVE SignedIn'
  <2>1. ASSUME LoginRefused(t) \/ Refresh(t) PROVE SignedIn'
    BY <1>2, <1>9, <2>1 DEF LoginRefused, Refresh
  <2>2. ~(Logout(t) \/ RateLimited(t) \/ RequestFails(t))
    BY TroubleStays DEF CalmInv
  <2>3. QED
    BY <1>1, <1>3, <1>4, <1>5, <1>6, <1>7, <1>8, <1>10, <2>1, <2>2
       DEF Step
<1>11. CASE NextWindow \/ ExpireAccess \/ Deactivate \/ UNCHANGED vars
  BY <1>9, <1>11 DEF NextWindow, ExpireAccess, Deactivate, vars
<1>12. \A j \in live : ~ExpireRefresh(j)
  BY TroubleStays DEF CalmInv
<1>13. QED
  BY <1>10, <1>11, <1>12 DEF Next

\* Rotation alone never signs the browser out, however many tabs log in and
\* refresh: whenever every tab is idle and nothing else came, the stored token
\* is live.
THEOREM BrowserStaysSignedIn == Spec => []StaysSignedIn
<1>1. TokenInv /\ CalmInv => StaysSignedIn
  BY DEF TokenInv, CalmInv, Untroubled, SignedIn, StaysSignedIn
<1>2. QED
  BY TokenInit, TokenNext, CalmInit, CalmNext, <1>1, PTL DEF Spec

-----------------------------------------------------------------------------
(* The sessions of a deactivated user. *)

InFlight == {t \in Tabs : pc[t] \in InRotation}

Counted ==
  /\ IsFiniteSet(live) /\ IsFiniteSet(InFlight)
  /\ Cardinality(live) \in Nat /\ Cardinality(InFlight) \in Nat
  /\ Strands = Cardinality(live) + Cardinality(InFlight)

LEMMA StrandsFinite == TokenInv => Counted
<1> SUFFICES ASSUME TokenInv PROVE Counted
  OBVIOUS
<1>1. IsFiniteSet(1..(next - 1))
  BY FS_Interval, SessionAssumptions DEF TokenInv
<1>2. IsFiniteSet(live)
  BY <1>1, FS_Subset DEF TokenInv
<1>3. IsFiniteSet(InFlight)
  BY FS_Subset, SessionAssumptions DEF InFlight
<1>4. QED
  BY <1>2, <1>3, FS_CardinalityType DEF Counted, Strands, InFlight

\* What a step that does not log in may do to the strands: lose some, or turn a
\* token into a rotation or a rotation into a token.
LEMMA StrandsMove ==
  ASSUME TokenInv, TokenInv', NEW x, NEW t,
         \/ live' \subseteq live /\ InFlight' \subseteq InFlight
         \/ x \in live /\ live' = live \ {x} /\ InFlight' = InFlight \cup {t}
         \/ t \in InFlight /\ live' = live \cup {x} /\ InFlight' = InFlight \ {t}
  PROVE  Strands' <= Strands
<1>1. /\ IsFiniteSet(live) /\ IsFiniteSet(InFlight)
      /\ Cardinality(live) \in Nat /\ Cardinality(InFlight) \in Nat
      /\ Strands = Cardinality(live) + Cardinality(InFlight)
  BY StrandsFinite DEF Counted
<1>2. /\ Cardinality(live') \in Nat /\ Cardinality(InFlight') \in Nat
      /\ Strands' = Cardinality(live') + Cardinality(InFlight')
  <2>1. Counted'
    BY StrandsFinite, PTL
  <2>2. QED
    BY <2>1 DEF Counted
<1>3. CASE live' \subseteq live /\ InFlight' \subseteq InFlight
  <2>1. /\ Cardinality(live') <= Cardinality(live)
        /\ Cardinality(InFlight') <= Cardinality(InFlight)
    BY <1>1, <1>3, FS_Subset
  <2>2. QED
    BY <1>1, <1>2, <2>1
<1>4. CASE x \in live /\ live' = live \ {x} /\ InFlight' = InFlight \cup {t}
  <2>1. Cardinality(live') = Cardinality(live) - 1
    BY <1>1, <1>4, FS_RemoveElement
  <2>2. Cardinality(InFlight') = Cardinality(InFlight) \/
        Cardinality(InFlight') = Cardinality(InFlight) + 1
    BY <1>1, <1>4, FS_AddElement
  <2>3. QED
    BY <1>1, <1>2, <2>1, <2>2
<1>5. CASE t \in InFlight /\ live' = live \cup {x} /\ InFlight' = InFlight \ {t}
  <2>1. Cardinality(InFlight') = Cardinality(InFlight) - 1
    BY <1>1, <1>5, FS_RemoveElement
  <2>2. Cardinality(live') = Cardinality(live) \/
        Cardinality(live') = Cardinality(live) + 1
    BY <1>1, <1>5, FS_AddElement
  <2>3. QED
    BY <1>1, <1>2, <2>1, <2>2
<1>6. QED
  BY <1>3, <1>4, <1>5

\* Once the account is deactivated no step gives its user more live tokens and
\* rotations than before, although refresh never looks at is_active.
THEOREM InactiveGainsNothing == Spec => NoNewSessionsOnceInactive
<1>1. ASSUME TokenInv, TokenInv', [Next]_vars, ~is_active
      PROVE  Strands' <= Strands
  <2> USE DEF server, browser, tabs
  <2>a. pc \in [Tabs -> Steps]
    BY <1>1 DEF TokenInv
  <2>0. ASSUME live' \subseteq live, InFlight' \subseteq InFlight
        PROVE  Strands' <= Strands
    BY <1>1, <2>0, StrandsMove
  <2>1. ASSUME NEW t \in Tabs, Step(t) PROVE Strands' <= Strands
    <3>1. CASE RefreshDelete(t)
      <4>1. /\ tok[t] \in live /\ live' = live \ {tok[t]}
            /\ pc[t] = "delete" /\ pc' = [pc EXCEPT ![t] = "roles"]
        BY <3>1 DEF RefreshDelete, Deleted, Revoked, Goto
      <4>2. InFlight' = InFlight \cup {t}
        BY <2>a, <4>1 DEF InFlight, InRotation
      <4>3. QED
        BY <1>1, <4>1, <4>2, StrandsMove
    <3>2. ASSUME pc[t] = "set", Issue(t), pc'[t] \notin InRotation,
                 \A u \in Tabs \ {t} : pc'[u] = pc[u]
          PROVE  Strands' <= Strands
      <4>1. /\ t \in InFlight /\ live' = live \cup {next}
            /\ InFlight' = InFlight \ {t}
        BY <3>2 DEF InFlight, InRotation, Issue, Recorded
      <4>2. QED
        BY <1>1, <4>1, StrandsMove
    <3>3. CASE IssuePair(t)
      BY <2>a, <3>2, <3>3 DEF IssuePair, Goto, InRotation
    <3>4. CASE RequestFails(t)
      <4>1. pc'[t] = "idle" /\ \A u \in Tabs \ {t} : pc'[u] = pc[u]
        BY <2>a, <3>4 DEF RequestFails, GiveUp, Done, Goto
      <4>2. InFlight' \subseteq InFlight
        BY <4>1 DEF InFlight, InRotation
      <4>3. live' \subseteq live \/ (pc[t] = "set" /\ Issue(t))
        BY <3>4 DEF RequestFails, Revoked
      <4>4. QED
        BY <2>0, <3>2, <4>1, <4>2, <4>3 DEF InRotation
    <3>5. CASE LogoutDelete(t) \/ RolesForUser(t)
      <4>1. /\ live' \subseteq live
            /\ \A u \in Tabs \ {t} : pc'[u] = pc[u]
            /\ pc'[t] \in InRotation => pc[t] \in InRotation
        BY <2>a, <3>5 DEF LogoutDelete, RolesForUser, Revoked, Goto, InRotation
      <4>2. QED
        BY <2>0, <4>1 DEF InFlight
    <3>6. CASE Refresh(t) \/ Logout(t) \/ LoginRefused(t)
      <4>1. /\ live' \subseteq live
            /\ \A u \in Tabs \ {t} : pc'[u] = pc[u]
            /\ pc'[t] \notin InRotation
        BY <2>a, <3>6 DEF Refresh, StartRefresh, Logout, LoginRefused, Goto,
                          InRotation
      <4>2. QED
        BY <2>0, <4>1 DEF InFlight
    <3>7. CASE RefreshReuse(t) \/ SignOut(t) \/ Answer(t) \/ RateLimited(t)
      <4>1. /\ live' \subseteq live
            /\ \A u \in Tabs \ {t} : pc'[u] = pc[u]
            /\ pc'[t] \notin InRotation
        BY <2>a, <3>7 DEF RefreshReuse, SignOut, Answer, RateLimited, GiveUp,
                          Done, Goto, InRotation
      <4>2. QED
        BY <2>0, <4>1 DEF InFlight
    <3>8. ~Login(t)
      BY <1>1 DEF Login, MayLogin
    <3>9. QED
      BY <2>1, <3>1, <3>3, <3>4, <3>5, <3>6, <3>7, <3>8 DEF Step
  <2>2. CASE \/ \E j \in live : ExpireRefresh(j)
             \/ NextWindow \/ ExpireAccess \/ Deactivate \/ UNCHANGED vars
    <3>1. live' \subseteq live /\ pc' = pc
      BY <2>2 DEF ExpireRefresh, NextWindow, ExpireAccess, Deactivate, vars
    <3>2. QED
      BY <2>0, <3>1 DEF InFlight
  <2>3. QED
    BY <1>1, <2>1, <2>2 DEF Next
<1>2. TokenInv /\ TokenInv' /\ [Next]_vars
        => [~is_active => Strands' <= Strands]_vars
  BY <1>1
<1>3. Spec => []TokenInv
  BY TokenInit, TokenNext, PTL DEF Spec
<1>4. QED
  BY <1>2, <1>3, PTL DEF Spec, NoNewSessionsOnceInactive
=============================================================================
