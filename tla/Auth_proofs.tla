----------------------------- MODULE Auth_proofs -----------------------------
(***************************************************************************)
(* Safety of Auth for any callers, updaters and bounds.  The invariant     *)
(* says what a call that relies on a token may rely on (Alive, Stays), and *)
(* where the tokens of a call in progress, and the one in the state, come  *)
(* from while no update waits to reset the state (Current).                *)
(***************************************************************************)
EXTENDS Auth, TLAPS

(* A token that was seen fresh, or stored, has not expired since.          *)
Alive ==
  /\ \A p \in Procs : call[p].pc \in {"stored", "reread"} =>
       /\ call[p].life = "fresh"
       /\ token.of # 0 => token.life # "expired"
  /\ \A p \in Procs : At(p, "granted") => call[p].life # "expired"

NoReset == \A h \in Updaters : ~At(h, "reset")

(* Unless an update overtook the call, what it asks for or brings back     *)
(* goes back to the password in memory.                                    *)
Current ==
  NoReset => \A p \in Procs :
    call[p].pc \in {"asked", "store"} /\ ~call[p].late => call[p].cred = password

IInv == Alive /\ StoredStays /\ StaleOnlyIfOvertaken /\ Current

USE AuthAssumption

LEMMA InitInv == Init => TypeOK /\ IInv
BY DEF Init, TypeOK, Token, Passwords, Lives, NoToken, Idle, Call, IInv, Alive,
       StoredStays, StaleOnlyIfOvertaken, Current, NoReset, At

(* The types of a call's steps.                                            *)
LEMMA Zero == 0 \in Passwords
BY DEF Passwords

LEMMA IdleType == /\ Idle \in Call
                  /\ [Idle EXCEPT !.pc = "reset"] \in Call
                  /\ [Idle EXCEPT !.pc = "password"] \in Call
                  /\ \A l \in Lives, pc \in {"reread", "granted"} :
                       [Idle EXCEPT !.pc = pc, !.life = l] \in Call
BY Zero DEF Call, Idle, Lives

LEMMA CallTypes ==
  ASSUME TypeOK, NEW p \in Procs
  PROVE  /\ call[p] \in Call
         /\ \A b \in BOOLEAN : [call[p] EXCEPT !.late = b] \in Call
         /\ \A x \in Call : [call EXCEPT ![p] = x] \in [Procs -> Call]
<1>1. call \in [Procs -> Call] /\ call[p] \in Call  BY DEF TypeOK
<1>2. \A b \in BOOLEAN : [call[p] EXCEPT !.late = b] \in Call  BY <1>1 DEF Call
<1>3. \A x \in Call : [call EXCEPT ![p] = x] \in [Procs -> Call]  BY <1>1
<1> QED  BY <1>1, <1>2, <1>3

(* No step leaves the types.                                               *)
LEMMA TypeStep == TypeOK /\ [Next]_vars => TypeOK'
<1> SUFFICES ASSUME TypeOK, [Next]_vars PROVE TypeOK'
  OBVIOUS
<1> DEFINE Rest == /\ password \in Passwords /\ account \in Passwords
                   /\ updates \in 0..MaxUpdates /\ token \in Token
                   /\ runtime \in {"missing", "unauthenticated", "authenticated"}
           Creds == \A p \in Procs : call[p].pc \in {"asked", "store"} => call[p].cred # 0
<1> SUFFICES Rest' /\ (call \in [Procs -> Call])' /\ Creds'
  BY DEF TypeOK
<1> USE DEF Procs, At, Moves, Ends
<1>1. CASE UNCHANGED vars  BY <1>1 DEF vars, TypeOK
<1>2. ASSUME NEW c \in Callers, CallerStep(c)
      PROVE  Rest' /\ (call \in [Procs -> Call])' /\ Creds'
  <2>0. c \in Procs /\ call[c] \in Call /\ token \in Token  BY DEF TypeOK
  <2>1. CASE Check(c)
    <3>1. call'[c] \in Call
      BY <2>0, <2>1, IdleType DEF Check, TypeOK, Token
    <3>2. call'[c].pc \in {"password", "reread"}
      BY <2>0, <2>1 DEF Check, TypeOK, Idle
    <3>3. call' = [call EXCEPT ![c] = call'[c]]  BY <2>0, <2>1 DEF Check, TypeOK
    <3> QED  BY <2>0, <2>1, <3>1, <3>2, <3>3 DEF Check, TypeOK
  <2>2. CASE Reread(c)
    <3>1. call'[c] \in Call
      BY <2>0, <2>2, IdleType DEF Reread, TypeOK, Token
    <3>2. call'[c].pc \in {"idle", "granted"}
      <4>1. CASE token.of = 0
        <5>1. call' = [call EXCEPT ![c] = Idle]  BY <2>2, <4>1 DEF Reread
        <5>2. call'[c] = Idle  BY <2>0, <5>1 DEF TypeOK
        <5> QED  BY <5>2 DEF Idle
      <4>2. CASE token.of # 0
        <5>1. call' = [call EXCEPT ![c] = [Idle EXCEPT !.pc = "granted", !.life = token.life]]
          BY <2>2, <4>2 DEF Reread
        <5>2. call'[c] = [Idle EXCEPT !.pc = "granted", !.life = token.life]
          BY <2>0, <5>1 DEF TypeOK
        <5> QED  BY <5>2 DEF Idle
      <4> QED  BY <4>1, <4>2
    <3>3. call' = [call EXCEPT ![c] = call'[c]]  BY <2>0, <2>2 DEF Reread, TypeOK
    <3> QED  BY <2>0, <2>2, <3>1, <3>2, <3>3 DEF Reread, TypeOK
  <2>3. CASE Used(c)  BY <2>0, <2>3, CallTypes, IdleType DEF Used, TypeOK, Idle
  <2>4. CASE CheckPassword(c)  BY <2>4 DEF CheckPassword, TypeOK, Call
  <2>5. CASE Missing(c)  BY <2>0, <2>5, CallTypes, IdleType DEF Missing, TypeOK, Idle
  <2>6. CASE AskRefresh(c)
    BY <2>0, <2>6 DEF AskRefresh, TypeOK, Call, Token, Passwords
  <2> QED  BY <1>2, <2>1, <2>2, <2>3, <2>4, <2>5, <2>6 DEF CallerStep
<1>3. ASSUME NEW h \in Updaters, UpdaterStep(h) \/ Update(h)
      PROVE  Rest' /\ (call \in [Procs -> Call])' /\ Creds'
  <2>0. /\ h \in Procs /\ call[h] \in Call
        /\ \A q \in Procs : \A b \in BOOLEAN : [call[q] EXCEPT !.late = b] \in Call
    BY CallTypes DEF TypeOK
  <2>1. CASE Reset(h)
    <3>1. Rest'  BY <2>1 DEF Reset, TypeOK, NoToken, Token, Passwords, Lives
    <3>2. [call[h] EXCEPT !.pc = "runtime"] \in Call  BY <2>0 DEF Call
    <3>3. (call \in [Procs -> Call])'  BY <2>0, <2>1, <3>2 DEF Reset, Overtakes
    <3>4. Creds'  BY <2>1 DEF Reset, Overtakes, TypeOK, Call
    <3> QED  BY <3>1, <3>3, <3>4
  <2>2. CASE Unauthenticated(h)  BY <2>2 DEF Unauthenticated, TypeOK, Call
  <2>3. CASE Update(h)
    <3>1. Rest'  BY <2>3 DEF Update, TypeOK, Passwords
    <3>3. (call \in [Procs -> Call])'  BY <2>0, <2>3, IdleType DEF Update, Overtakes
    <3>4. Creds'  BY <2>3 DEF Update, Overtakes, TypeOK, Call, Idle
    <3> QED  BY <3>1, <3>3, <3>4
  <2> QED  BY <1>3, <2>1, <2>2, <2>3 DEF UpdaterStep
<1>4. ASSUME NEW p \in Procs, LoginStep(p) \/ Answer(p)
      PROVE  Rest' /\ (call \in [Procs -> Call])' /\ Creds'
  <2>0. p \in Procs /\ call[p] \in Call  BY DEF TypeOK
  <2>1. CASE AskLogin(p)
    <3>1. CASE password = 0
      <4>1. Rest' /\ Ends(p)  BY <2>1, <3>1 DEF AskLogin, TypeOK
      <4> QED  BY <2>0, <4>1, CallTypes, IdleType DEF TypeOK, Idle
    <3>2. CASE password # 0
      <4> DEFINE next == [call[p] EXCEPT !.pc = "asked", !.cred = password]
      <4>1. next \in Call /\ next.cred # 0  BY <2>0, <3>2 DEF TypeOK, Call
      <4>2. call' = [call EXCEPT ![p] = next]  BY <2>0, <2>1, <3>2 DEF AskLogin, TypeOK, Call
      <4> HIDE DEF next
      <4> QED  BY <2>0, <2>1, <3>2, <4>1, <4>2 DEF AskLogin, TypeOK
    <3> QED  BY <3>1, <3>2
  <2>2. CASE Store(p)
    <3> DEFINE next == [call[p] EXCEPT !.pc = "stored", !.cred = 0, !.life = "fresh"]
    <3>1. next \in Call  BY <2>0, Zero DEF Call, Lives
    <3>4. next.pc = "stored"  BY <2>0 DEF Call
    <3>2. call' = [call EXCEPT ![p] = next]  BY <2>0, <2>2 DEF Store, TypeOK
    <3>3. Rest'  BY <2>0, <2>2 DEF Store, TypeOK, Token, Call, Lives
    <3> HIDE DEF next
    <3> QED  BY <2>0, <2>2, <3>1, <3>2, <3>3, <3>4 DEF TypeOK
  <2>3. CASE Authenticated(p)
    <3>1. CASE p \in Callers  BY <2>0, <2>3, <3>1 DEF Authenticated, TypeOK, Call
    <3>2. CASE p \notin Callers
      <4>1. Rest' /\ Ends(p)  BY <2>3, <3>2 DEF Authenticated, TypeOK
      <4> QED  BY <2>0, <4>1, CallTypes, IdleType DEF TypeOK, Idle
    <3> QED  BY <3>1, <3>2
  <2>4. CASE Accepted(p)  BY <2>4 DEF Accepted, TypeOK, Call
  <2>5. CASE Fails(p)  BY <2>0, <2>5, CallTypes, IdleType DEF Fails, TypeOK, Idle
  <2> QED  BY <1>4, <2>1, <2>2, <2>3, <2>4, <2>5 DEF LoginStep, Answer
<1>5. CASE Expire  BY <1>5 DEF Expire, TypeOK, Token, Lives
<1>6. CASE ChangeAccount  BY <1>6 DEF ChangeAccount, TypeOK, Passwords
<1> QED  BY <1>1, <1>2, <1>3, <1>4, <1>5, <1>6 DEF Next

(* A step that leaves the token and the password, and changes one call     *)
(* without making it rely on, ask for or bring back anything, keeps IInv.   *)
LEMMA QuietStep ==
  ASSUME TypeOK, IInv, NEW p \in Procs, NEW next,
         call' = [call EXCEPT ![p] = next],
         next.pc \notin {"stored", "reread", "granted", "asked", "store"},
         At(p, "reset") => next.pc = "reset",
         UNCHANGED <<token, password>>
  PROVE  IInv'
<1> USE DEF TypeOK, IInv, At, Procs, Call
<1>1. Alive'  BY DEF Alive
<1>2. StoredStays'  BY DEF StoredStays
<1>3. NoReset' => NoReset  BY DEF NoReset
<1>4. StaleOnlyIfOvertaken'  BY <1>3 DEF StaleOnlyIfOvertaken, NoReset
<1>5. Current'  BY <1>3 DEF Current
<1> QED  BY <1>1, <1>2, <1>4, <1>5

LEMMA CallerKeeps ==
  ASSUME TypeOK, IInv, NEW c \in Callers, CallerStep(c)
  PROVE  IInv'
<1> USE DEF TypeOK, IInv, At, Procs, Call
<1> c \in Procs  OBVIOUS
<1>1. CASE Check(c)
  <2>1. CASE token.of = 0 \/ NeedsRefresh
    BY <1>1, <2>1, QuietStep DEF Check, Idle
  <2>2. CASE ~(token.of = 0 \/ NeedsRefresh)
    <3>1. call' = [call EXCEPT ![c] = [Idle EXCEPT !.pc = "reread", !.life = "fresh"]]
      BY <1>1, <2>2 DEF Check, NeedsRefresh
    <3>2. token.of # 0 /\ token.life = "fresh"  BY <2>2 DEF NeedsRefresh
    <3> USE <1>1, <3>1, <3>2 DEF Check, Idle
    <3>3. Alive'  BY DEF Alive
    <3>4. StoredStays'  BY DEF StoredStays
    <3>5. NoReset' => NoReset  BY DEF NoReset
    <3>6. StaleOnlyIfOvertaken'  BY <3>5 DEF StaleOnlyIfOvertaken, NoReset
    <3>7. Current'  BY <3>5 DEF Current
    <3> QED  BY <3>3, <3>4, <3>6, <3>7
  <2> QED  BY <2>1, <2>2
<1>2. CASE Reread(c)
  <2>1. CASE token.of = 0  BY <1>2, <2>1, QuietStep DEF Reread, Ends, Idle
  <2>2. CASE token.of # 0
    <3> DEFINE life == token.life
    <3>1. call' = [call EXCEPT ![c] = [Idle EXCEPT !.pc = "granted", !.life = life]]
      BY <1>2, <2>2 DEF Reread
    <3>2. life # "expired"  BY <1>2, <2>2 DEF Reread, Alive
    <3>3. UNCHANGED <<token, password>>  BY <1>2 DEF Reread
    <3> HIDE DEF life
    <3> USE <3>1, <3>2, <3>3 DEF Idle
    <3>4. Alive'  BY DEF Alive
    <3>5. StoredStays'  BY DEF StoredStays
    <3>6. NoReset' => NoReset  BY <1>2 DEF NoReset, Reread
    <3>7. StaleOnlyIfOvertaken'  BY <3>6 DEF StaleOnlyIfOvertaken, NoReset
    <3>8. Current'  BY <3>6 DEF Current
    <3> QED  BY <3>4, <3>5, <3>7, <3>8
  <2> QED  BY <2>1, <2>2
<1>3. CASE Used(c)  BY <1>3, QuietStep DEF Used, Ends, Idle
<1>4. CASE CheckPassword(c)
  <2> DEFINE next == [call[c] EXCEPT !.pc = IF password = 0 THEN "missing" ELSE "state"]
  <2>1. call' = [call EXCEPT ![c] = next]  BY <1>4 DEF CheckPassword, Moves
  <2>2. next.pc \in {"missing", "state"} /\ ~At(c, "reset") /\ UNCHANGED <<token, password>>
    BY <1>4 DEF CheckPassword
  <2> HIDE DEF next
  <2> QED  BY <2>1, <2>2, QuietStep
<1>5. CASE Missing(c)  BY <1>5, QuietStep DEF Missing, Ends, Idle
<1>6. CASE AskRefresh(c)
  <2> USE <1>6 DEF AskRefresh, Moves
  <2>1. Alive'  BY DEF Alive
  <2>2. StoredStays'  BY DEF StoredStays
  <2>3. NoReset' => NoReset  BY DEF NoReset
  <2>4. StaleOnlyIfOvertaken'  BY <2>3 DEF StaleOnlyIfOvertaken, NoReset
  <2>5. Current'  BY <2>3 DEF Current, StaleOnlyIfOvertaken, NoReset
  <2> QED  BY <2>1, <2>2, <2>4, <2>5
<1> QED  BY <1>1, <1>2, <1>3, <1>4, <1>5, <1>6 DEF CallerStep

LEMMA LoginKeeps ==
  ASSUME TypeOK, IInv, NEW p \in Procs, LoginStep(p) \/ Answer(p)
  PROVE  IInv'
<1> USE DEF TypeOK, IInv, At, Procs, Call
<1>1. CASE AskLogin(p)
  <2> USE <1>1 DEF AskLogin, Ends, Idle
  <2>1. Alive'  BY DEF Alive
  <2>2. StoredStays'  BY DEF StoredStays
  <2>3. NoReset' => NoReset  BY DEF NoReset
  <2>4. StaleOnlyIfOvertaken'  BY <2>3 DEF StaleOnlyIfOvertaken, NoReset
  <2>5. Current'  BY <2>3 DEF Current
  <2> QED  BY <2>1, <2>2, <2>4, <2>5
<1>2. CASE Store(p)
  <2> USE <1>2 DEF Store
  <2>1. Alive'  BY DEF Alive
  <2>2. StoredStays'  BY DEF StoredStays
  <2>3. NoReset' => NoReset  BY DEF NoReset
  <2>4. StaleOnlyIfOvertaken'  BY <2>3 DEF StaleOnlyIfOvertaken, NoReset, Current
  <2>5. Current'  BY <2>3 DEF Current
  <2> QED  BY <2>1, <2>2, <2>4, <2>5
<1>3. CASE Authenticated(p)
  <2> USE <1>3 DEF Authenticated, Moves, Ends, Idle
  <2>1. Alive'  BY DEF Alive
  <2>2. StoredStays'  BY DEF StoredStays
  <2>3. NoReset' => NoReset  BY DEF NoReset
  <2>4. StaleOnlyIfOvertaken'  BY <2>3 DEF StaleOnlyIfOvertaken, NoReset
  <2>5. Current'  BY <2>3 DEF Current
  <2> QED  BY <2>1, <2>2, <2>4, <2>5
<1>4. CASE Accepted(p)
  <2> USE <1>4 DEF Accepted, Moves
  <2>1. Alive'  BY DEF Alive
  <2>2. StoredStays'  BY DEF StoredStays
  <2>3. NoReset' => NoReset  BY DEF NoReset
  <2>4. StaleOnlyIfOvertaken'  BY <2>3 DEF StaleOnlyIfOvertaken, NoReset
  <2>5. Current'  BY <2>3 DEF Current
  <2> QED  BY <2>1, <2>2, <2>4, <2>5
<1>5. CASE Fails(p)  BY <1>5, QuietStep DEF Fails, Ends, Idle
<1> QED  BY <1>1, <1>2, <1>3, <1>4, <1>5 DEF LoginStep, Answer

LEMMA UpdaterKeeps ==
  ASSUME TypeOK, IInv, NEW h \in Updaters, UpdaterStep(h) \/ Update(h)
  PROVE  IInv'
<1> USE DEF TypeOK, IInv, At, Procs, Call
<1>1. CASE Reset(h)
  <2> USE <1>1 DEF Reset, Overtakes, NoToken
  <2>1. Alive'  BY DEF Alive
  <2>2. StoredStays'  BY DEF StoredStays
  <2>3. StaleOnlyIfOvertaken'  BY DEF StaleOnlyIfOvertaken
  <2>4. Current'  BY DEF Current
  <2> QED  BY <2>1, <2>2, <2>3, <2>4
<1>2. CASE Unauthenticated(h)
  <2> USE <1>2 DEF Unauthenticated, Moves
  <2>1. Alive'  BY DEF Alive
  <2>2. StoredStays'  BY DEF StoredStays
  <2>3. NoReset' => NoReset  BY DEF NoReset
  <2>4. StaleOnlyIfOvertaken'  BY <2>3 DEF StaleOnlyIfOvertaken, NoReset
  <2>5. Current'  BY <2>3 DEF Current
  <2> QED  BY <2>1, <2>2, <2>4, <2>5
<1>3. CASE Update(h)
  <2> USE <1>3 DEF Update, Overtakes, Idle
  <2>1. Alive'  BY DEF Alive
  <2>2. StoredStays'  BY DEF StoredStays
  <2>3. ~NoReset'
    <3>1. call'[h].pc = "reset"  OBVIOUS
    <3> QED  BY <3>1 DEF NoReset
  <2>4. StaleOnlyIfOvertaken'  BY <2>3 DEF StaleOnlyIfOvertaken, NoReset
  <2>5. Current'  BY <2>3 DEF Current
  <2> QED  BY <2>1, <2>2, <2>4, <2>5
<1> QED  BY <1>1, <1>2, <1>3 DEF UpdaterStep

LEMMA InvStep == TypeOK /\ IInv /\ [Next]_vars => IInv'
<1> SUFFICES ASSUME TypeOK, IInv, [Next]_vars PROVE IInv'
  OBVIOUS
<1> USE DEF TypeOK, IInv, At, Procs, Call
<1>1. CASE UNCHANGED vars
  BY <1>1 DEF vars, Alive, StoredStays, StaleOnlyIfOvertaken, Current, NoReset
<1>2. ASSUME NEW c \in Callers, CallerStep(c) PROVE IInv'  BY <1>2, CallerKeeps
<1>3. ASSUME NEW h \in Updaters, UpdaterStep(h) \/ Update(h) PROVE IInv'
  BY <1>3, UpdaterKeeps
<1>4. ASSUME NEW p \in Procs, LoginStep(p) \/ Answer(p) PROVE IInv'
  BY <1>4, LoginKeeps
<1>5. CASE Expire
  <2> USE <1>5 DEF Expire
  <2>1. Alive'  BY DEF Alive, Relies, Token, Lives
  <2>2. StoredStays'  BY DEF StoredStays
  <2>3. StaleOnlyIfOvertaken'  BY DEF StaleOnlyIfOvertaken
  <2>4. Current'  BY DEF Current, NoReset
  <2> QED  BY <2>1, <2>2, <2>3, <2>4
<1>6. CASE ChangeAccount
  BY <1>6 DEF ChangeAccount, Alive, StoredStays, StaleOnlyIfOvertaken, Current, NoReset
<1> QED  BY <1>1, <1>2, <1>3, <1>4, <1>5, <1>6 DEF Next

(* The state of the authentication stays well typed for any number of      *)
(* callers, updaters and passwords; in standby nothing is asked for.       *)
THEOREM TypeCorrect == Spec => []TypeOK
<1>1. Init => TypeOK  BY InitInv
<1> QED  BY <1>1, TypeStep, PTL DEF Spec

THEOREM Invariant == Spec => [](TypeOK /\ IInv)
<1> QED  BY InitInv, TypeStep, InvStep, PTL DEF Spec

(* get_token never hands out an expired token.                             *)
THEOREM GrantedIsAliveAlways == Spec => []GrantedIsAlive
<1>1. IInv => GrantedIsAlive  BY DEF IInv, Alive, GrantedIsAlive, Procs
<1> QED  BY <1>1, Invariant, PTL

(* A call that no update overtook finds the token it saw or stored.        *)
THEOREM StoredStaysAlways == Spec => []StoredStays
<1>1. IInv => StoredStays  BY DEF IInv
<1> QED  BY <1>1, Invariant, PTL

(* A token of another password than the one in memory goes back to a call  *)
(* that an update overtook.                                                *)
THEOREM StaleOnlyIfOvertakenAlways == Spec => []StaleOnlyIfOvertaken
<1>1. IInv => StaleOnlyIfOvertaken  BY DEF IInv
<1> QED  BY <1>1, Invariant, PTL
=============================================================================
