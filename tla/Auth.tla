-------------------------------- MODULE Auth --------------------------------
(***************************************************************************)
(* FirebaseAuth: the password, the token state and the runtime state sit   *)
(* behind three read-write locks that are taken one after the other.       *)
(* Callers (the lane actors, the router, the aggregation's jobs) ask for a *)
(* token before each request; control connections replace the password.    *)
(*                                                                         *)
(* A critical section is a step.  Where a guard is kept while the runtime  *)
(* state is written (login without a password, get_token without a token)  *)
(* the two sections are one step: nobody can change what the guard covers, *)
(* and no holder of the runtime lock waits for anything.                   *)
(*                                                                         *)
(* Passwords are numbered in the order the account has had them, 0 stands  *)
(* for none.  Identity Toolkit accepts the account's present password, and *)
(* a refresh token that was obtained with it.                              *)
(***************************************************************************)
EXTENDS Naturals

CONSTANTS
  Callers,      \* calls of get_token at a time
  Updaters,     \* control connections with a ProvidePassword at a time
  MaxUpdates,   \* bound on the updates
  MaxAccount    \* bound on the passwords the account has

ASSUME AuthAssumption ==
  /\ Callers \cap Updaters = {}
  /\ MaxUpdates \in Nat /\ MaxAccount \in Nat \ {0}

VARIABLES
  password,   \* FirebaseAuth.password
  token,      \* FirebaseAuth.state
  runtime,    \* FirebaseAuth.runtime_state
  call,       \* the calls in progress
  account,    \* the account's present password
  updates     \* how many updates have begun

vars == <<password, token, runtime, call, account, updates>>

Procs == Callers \cup Updaters
Passwords == 0..MaxAccount

(* A token: the password it goes back to, whether it has time left, and    *)
(* (for the properties) whether an update overtook a call that obtained it. *)
Lives == {"fresh", "near", "expired"}
Token == [of : Passwords, life : Lives, late : BOOLEAN]

(* TokenState::default(), whose id token and refresh token are empty.      *)
NoToken == [of |-> 0, life |-> "expired", late |-> FALSE]

(* A call: where it is, the password its request goes back to, the life of *)
(* the token it relies on, and whether an update has overtaken it.         *)
Call == [pc : {"idle", "password", "missing", "state", "login", "asked", "store",
               "stored", "reread", "granted", "reset", "runtime"},
         cred : Passwords, life : Lives, late : BOOLEAN]

Idle == [pc |-> "idle", cred |-> 0, life |-> "expired", late |-> FALSE]

Init ==
  /\ password \in {0, 1} /\ account = 1 /\ updates = 0
  /\ token = NoToken
  /\ runtime = IF password = 0 THEN "missing" ELSE "unauthenticated"
  /\ call = [p \in Procs |-> Idle]

At(p, pc) == call[p].pc = pc
Moves(p, pc) == call' = [call EXCEPT ![p].pc = pc]
Ends(p) == call' = [call EXCEPT ![p] = Idle]

(* An update changes what other calls in progress have read.               *)
Overtakes(p, next) ==
  call' = [q \in Procs |->
             IF q = p THEN next
             ELSE [call[q] EXCEPT !.late = call[q].pc \notin {"idle", "granted"}]]

-----------------------------------------------------------------------------
(* get_token. *)

(* Fault: the margin is left out.                                          *)
NeedsRefreshLate == token.life = "expired"

NeedsRefresh == token.life # "fresh"

Check(c) ==
  /\ At(c, "idle")
  /\ call' = [call EXCEPT ![c] =
       IF token.of = 0 \/ NeedsRefresh
       THEN [Idle EXCEPT !.pc = "password"]
       ELSE [Idle EXCEPT !.pc = "reread", !.life = token.life]]
  /\ UNCHANGED <<password, token, runtime, account, updates>>

Reread(c) ==
  /\ At(c, "reread")
  /\ IF token.of = 0
     THEN runtime' = "unauthenticated" /\ Ends(c)
     ELSE /\ call' = [call EXCEPT ![c] =
                  [Idle EXCEPT !.pc = "granted", !.life = token.life]]
          /\ UNCHANGED runtime
  /\ UNCHANGED <<password, token, account, updates>>

(* The request the token was wanted for has been sent.                     *)
Used(c) ==
  /\ At(c, "granted") /\ Ends(c)
  /\ UNCHANGED <<password, token, runtime, account, updates>>

-----------------------------------------------------------------------------
(* refresh_token. *)

CheckPassword(c) ==
  /\ At(c, "password")
  /\ Moves(c, IF password = 0 THEN "missing" ELSE "state")
  /\ UNCHANGED <<password, token, runtime, account, updates>>

(* The password's guard is gone by now.                                    *)
Missing(c) ==
  /\ At(c, "missing")
  /\ runtime' = "missing" /\ Ends(c)
  /\ UNCHANGED <<password, token, account, updates>>

(* Fault: a refresh is asked for even without a refresh token.             *)
AskRefreshAlways(c) ==
  /\ At(c, "state")
  /\ call' = [call EXCEPT ![c].pc = "asked", ![c].cred = token.of,
                          ![c].late = @ \/ token.late]
  /\ UNCHANGED <<password, token, runtime, account, updates>>

AskRefresh(c) ==
  /\ At(c, "state")
  /\ IF token.of = 0
     THEN Moves(c, "login")
     ELSE call' = [call EXCEPT ![c].pc = "asked", ![c].cred = token.of,
                               ![c].late = @ \/ token.late]
  /\ UNCHANGED <<password, token, runtime, account, updates>>

-----------------------------------------------------------------------------
(* login, and the answers to both requests. *)

(* Fault: no password is taken for an empty one.                           *)
AskLoginBlank(p) ==
  /\ At(p, "login")
  /\ call' = [call EXCEPT ![p].pc = "asked", ![p].cred = password]
  /\ UNCHANGED <<password, token, runtime, account, updates>>

AskLogin(p) ==
  /\ At(p, "login")
  /\ IF password = 0
     THEN runtime' = "missing" /\ Ends(p)
     ELSE /\ call' = [call EXCEPT ![p].pc = "asked", ![p].cred = password]
          /\ UNCHANGED runtime
  /\ UNCHANGED <<password, token, account, updates>>

Accepted(p) ==
  /\ At(p, "asked") /\ call[p].cred = account
  /\ Moves(p, "store")
  /\ UNCHANGED <<password, token, runtime, account, updates>>

(* Fault: an answer without tokens takes the present ones away.            *)
FailsAndForgets(p) ==
  /\ At(p, "asked")
  /\ token' = NoToken /\ Ends(p)
  /\ UNCHANGED <<password, runtime, account, updates>>

(* Refused, unreadable, or none within the timeout.                        *)
Fails(p) ==
  /\ At(p, "asked")
  /\ Ends(p)
  /\ UNCHANGED <<password, token, runtime, account, updates>>

Store(p) ==
  /\ At(p, "store")
  /\ token' = [of |-> call[p].cred, life |-> "fresh", late |-> call[p].late]
  /\ call' = [call EXCEPT ![p] =
       [@ EXCEPT !.pc = "stored", !.cred = 0, !.life = "fresh"]]
  /\ UNCHANGED <<password, runtime, account, updates>>

Authenticated(p) ==
  /\ At(p, "stored")
  /\ runtime' = "authenticated"
  /\ IF p \in Callers THEN Moves(p, "reread") ELSE Ends(p)
  /\ UNCHANGED <<password, token, account, updates>>

-----------------------------------------------------------------------------
(* update_credentials: any password the account has had, or a blank one.   *)

Update(h) ==
  /\ At(h, "idle") /\ updates < MaxUpdates
  /\ updates' = updates + 1
  /\ password' \in 0..account
  /\ Overtakes(h, [Idle EXCEPT !.pc = "reset"])
  /\ UNCHANGED <<token, runtime, account>>

(* Fault: the tokens of the password before are kept.                      *)
ResetKeeps(h) ==
  /\ At(h, "reset")
  /\ Overtakes(h, [call[h] EXCEPT !.pc = "runtime"])
  /\ UNCHANGED <<password, token, runtime, account, updates>>

Reset(h) ==
  /\ At(h, "reset")
  /\ token' = NoToken
  /\ Overtakes(h, [call[h] EXCEPT !.pc = "runtime"])
  /\ UNCHANGED <<password, runtime, account, updates>>

Unauthenticated(h) ==
  /\ At(h, "runtime")
  /\ runtime' = "unauthenticated" /\ Moves(h, "login")
  /\ UNCHANGED <<password, token, account, updates>>

-----------------------------------------------------------------------------
(* Time, and the owner of the account. *)

Relies(p) == call[p].pc \in {"stored", "reread", "granted"}

(* The margin is minutes; from the look at a token, or from its arrival,   *)
(* to the request that uses it there are seconds (one HTTP timeout).       *)
Expire ==
  /\ token.of # 0 /\ token.life # "expired"
  /\ token.life = "near" => \A p \in Procs : Relies(p) => call[p].life # "fresh"
  /\ token' = [token EXCEPT !.life = IF @ = "fresh" THEN "near" ELSE "expired"]
  /\ UNCHANGED <<password, runtime, call, account, updates>>

ChangeAccount ==
  /\ account < MaxAccount /\ account' = account + 1
  /\ UNCHANGED <<password, token, runtime, call, updates>>

-----------------------------------------------------------------------------
(* What a call does without waiting for anybody.                           *)
CallerStep(c) ==
  \/ Check(c) \/ Reread(c) \/ Used(c)
  \/ CheckPassword(c) \/ Missing(c) \/ AskRefresh(c)

UpdaterStep(h) == Reset(h) \/ Unauthenticated(h)

LoginStep(p) == AskLogin(p) \/ Store(p) \/ Authenticated(p)

Answer(p) == Accepted(p) \/ Fails(p)

Next ==
  \/ \E c \in Callers : CallerStep(c)
  \/ \E h \in Updaters : UpdaterStep(h) \/ Update(h)
  \/ \E p \in Procs : LoginStep(p) \/ Answer(p)
  \/ Expire \/ ChangeAccount

Spec == Init /\ [][Next]_vars

(***************************************************************************)
(* The runtime runs every task, a request is answered or times out, a lane *)
(* has events to send or to send again, and Identity Toolkit does not      *)
(* refuse for ever what it accepts.                                        *)
(***************************************************************************)
Fairness ==
  /\ \A c \in Callers : WF_vars(CallerStep(c))
  /\ \A h \in Updaters : WF_vars(UpdaterStep(h))
  /\ \A p \in Procs : /\ WF_vars(LoginStep(p)) /\ WF_vars(Answer(p))
                      /\ SF_vars(Accepted(p))

FairSpec == Spec /\ Fairness

-----------------------------------------------------------------------------
(* Type invariant; no request is made without a password or a refresh      *)
(* token to make it with (standby).                                        *)
TypeOK ==
  /\ password \in Passwords /\ account \in Passwords
  /\ updates \in 0..MaxUpdates
  /\ token \in Token
  /\ runtime \in {"missing", "unauthenticated", "authenticated"}
  /\ call \in [Procs -> Call]
  /\ \A p \in Procs : call[p].pc \in {"asked", "store"} => call[p].cred # 0

(***************************************************************************)
(* The token that get_token hands out has time left for the request it is  *)
(* wanted for, whoever stored it and whatever was refreshed, reset or      *)
(* overwritten between the look at its expiry and the read.                *)
(***************************************************************************)
GrantedIsAlive ==
  \A c \in Callers : At(c, "granted") => call[c].life # "expired"

(***************************************************************************)
(* A call that no update overtook finds a token where it has seen or       *)
(* stored one, whatever the other calls store, or fail to: get_token does  *)
(* not answer MissingTokenState, and the Ok of a ProvidePassword means     *)
(* that there is a token.                                                  *)
(***************************************************************************)
StoredStays ==
  \A p \in Procs :
    call[p].pc \in {"stored", "reread"} /\ ~call[p].late => token.of # 0

(***************************************************************************)
(* Once an update has reset the state, the token there goes back to the    *)
(* password in memory, unless it descends from a call that was in progress *)
(* when the update overtook it.                                            *)
(***************************************************************************)
StaleOnlyIfOvertaken ==
  /\ token.of # 0 /\ ~token.late
  /\ \A h \in Updaters : ~At(h, "reset")
  => token.of = password

(***************************************************************************)
(* With the right password in memory and no token of an older one in the   *)
(* state, every caller is granted a token again and again, however often   *)
(* it expires and however many requests fail.                              *)
(***************************************************************************)
TokenAgain ==
  <>[](password = account /\ token.of \in {0, account})
    => \A c \in Callers : []<>At(c, "granted")

=============================================================================
