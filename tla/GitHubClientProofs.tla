-------------------------- MODULE GitHubClientProofs --------------------------
(***************************************************************************)
(* The GitHub client, for every set of concurrent calls, every number of   *)
(* attempts and every length of a backoff: its types, the token lock, what *)
(* a refused call tries again with, and how pauses come and go.            *)
(***************************************************************************)
EXTENDS GitHubClientProperties, TLAPS

USE ClientAssumption

---------------------------------------------------------------------------
(* Types *)

Token == [epoch : -1..MaxFaults, by : Call \cup {Nobody}]
Answer == {"none", "ok", "unauthorized", "primary", "secondary", "retry_after",
           "error", "unavailable", "lost"}
CallState ==
  [pc : {"idle", "token", "mint", "minted", "send", "answer"}, attempt : 0..Attempts,
   retried : BOOLEAN, cred : 0..MaxFaults, token : Token, answer : Answer]

\* A call asks for its first token before any attempt, and for another one only
\* after an attempt: it sends only while attempts are left.
InOrder(k, c) ==
  /\ k.pc = "idle" => k = Idle
  /\ k.pc = "token" /\ ~k.retried => k.attempt = 0
  /\ k.pc \in {"send", "answer"} => k.attempt < Attempts
  /\ k.pc = "minted" => k.token.by = c
  /\ k.retried /\ k.pc \in {"send", "answer"} => k.token.by = c

Calls ==
  /\ call \in [Call -> CallState]
  /\ \A c \in Call : InOrder(call[c], c)
  /\ \A c \in Call : call[c].pc \in {"mint", "minted"} => lock = c

Rest ==
  /\ last \in [Call -> {"none", "ok", "limited", "failed"}]
  /\ cache \in Token
  /\ lock \in Call \cup {Nobody}
  /\ window \in Nat /\ backoff \in Base..Cap /\ pause \in Nat
  /\ stored \in 0..MaxFaults /\ faults \in 0..MaxFaults
  /\ github \in [installation : Nat, epoch : Nat, limited : Nat]
  /\ github.installation <= faults /\ github.epoch <= faults

Shape == Calls /\ Rest

LEMMA IdleShape == Idle \in CallState /\ \A c : InOrder(Idle, c)
BY DEF Idle, CallState, NoToken, Token, Answer, InOrder

\* A call that goes on in order, and takes the token lock only when it is free or its
\* own, keeps the calls in order.
LEMMA CallMoves ==
  ASSUME Calls, NEW c \in Call, NEW k \in CallState, InOrder(k, c),
         call' = [call EXCEPT ![c] = k],
         k.pc \in {"mint", "minted"} => lock' = c,
         \/ lock' = lock
         \/ lock = Nobody
         \/ lock = c
  PROVE  Calls'
<1>1. call' \in [Call -> CallState] /\ call'[c] = k /\ \A d \in Call \ {c} : call'[d] = call[d]
  BY DEF Calls
<1>2. ASSUME NEW d \in Call \ {c}, call[d].pc \in {"mint", "minted"}
      PROVE  lock' = d
  BY <1>2 DEF Calls
<1> QED
  BY <1>1, <1>2 DEF Calls

LEMMA InitShape == Init => Shape
<1> SUFFICES ASSUME Init PROVE Shape
  OBVIOUS
<1>1. Calls
  BY IdleShape DEF Init, Calls, Idle
<1>2. Rest
  BY DEF Init, Rest, NoToken, Token, Base
<1> QED
  BY <1>1, <1>2 DEF Shape

\* A call that is over.
LEMMA EndMoves ==
  ASSUME Shape, NEW c \in Call, NEW how \in {"ok", "limited", "failed"}, EndCall(c, how),
         lock' = lock \/ lock = c
  PROVE  Calls' /\ last' \in [Call -> {"none", "ok", "limited", "failed"}]
<1>1. Calls'
  <2>1. Idle.pc = "idle"
    BY DEF Idle
  <2>2. call' = [call EXCEPT ![c] = Idle]
    BY DEF EndCall
  <2> QED
    BY <2>1, <2>2, CallMoves, IdleShape DEF Shape
<1> QED
  BY <1>1 DEF EndCall, Shape, Rest

\* Beginnings and tokens.
LEMMA TokenTypes ==
  ASSUME Shape, NEW c \in Call,
         Begin(c) \/ TakeToken(c) \/ Mint(c) \/ Minted(c) \/ MintFails(c)
  PROVE  Shape'
<1> USE DEF Shape
<1>1. call[c] \in CallState /\ InOrder(call[c], c)
  BY DEF Calls
<1>2. CASE Begin(c)
  <2>1. CASE window > 0
    BY <1>2, <2>1, EndMoves DEF Begin, Rest
  <2>2. CASE ~(window > 0)
    <3> DEFINE k == [call[c] EXCEPT !.pc = "token", !.cred = stored]
    <3>1. call' = [call EXCEPT ![c] = k]
      BY <1>1, <1>2, <2>2 DEF Begin, Calls
    <3>2. k \in CallState /\ k.pc = "token" /\ InOrder(k, c)
      <4>1. call[c] = Idle
        BY <1>1, <1>2 DEF Begin, At, InOrder
      <4>2. k.pc = "token" /\ k.attempt = 0 /\ k.retried = FALSE
        BY <4>1 DEF Idle
      <4>3. k \in CallState
        BY <1>1 DEF CallState, Rest
      <4> QED
        BY <4>2, <4>3 DEF InOrder
    <3>3. lock' = lock /\ Rest'
      BY <1>2, <2>2 DEF Begin, Rest
    <3> HIDE DEF k
    <3> QED
      BY <3>1, <3>2, <3>3, CallMoves
  <2> QED
    BY <2>1, <2>2
<1>3. CASE TakeToken(c)
  <2>1. /\ call[c].pc = "token" /\ lock = Nobody /\ Rest'
        /\ NoToken \in Token /\ cache \in Token
    BY <1>3 DEF TakeToken, At, Rest, NoToken, Token
  <2>2. CASE CacheServes(c)
    <3> DEFINE k == [call[c] EXCEPT !.pc = "send", !.token = cache]
    <3>1. call' = [call EXCEPT ![c] = k] /\ lock' = lock
      BY <1>1, <1>3, <2>2 DEF TakeToken, Calls
    <3>2. k \in CallState /\ k.pc = "send" /\ InOrder(k, c)
      <4>1. call[c].attempt = 0 /\ ~call[c].retried
        BY <1>1, <2>1, <2>2 DEF CacheServes, InOrder
      <4>2. k.pc = "send" /\ k.attempt = call[c].attempt /\ k.retried = call[c].retried
        BY <1>1 DEF CallState
      <4>3. k \in CallState
        BY <1>1, <2>1 DEF CallState
      <4> QED
        BY <4>1, <4>2, <4>3 DEF InOrder
    <3> HIDE DEF k
    <3> QED
      BY <2>1, <3>1, <3>2, CallMoves
  <2>3. CASE ~CacheServes(c)
    <3> DEFINE k == [call[c] EXCEPT !.pc = "mint", !.token = NoToken]
    <3>1. call' = [call EXCEPT ![c] = k] /\ lock' = c
      BY <1>1, <1>3, <2>3 DEF TakeToken, Calls
    <3>2. k \in CallState /\ k.pc = "mint" /\ InOrder(k, c)
      BY <1>1, <2>1 DEF CallState, InOrder
    <3> HIDE DEF k
    <3> QED
      BY <2>1, <3>1, <3>2, CallMoves
  <2> QED
    BY <2>2, <2>3
<1>4. CASE Mint(c)
  <2> DEFINE t == [epoch |-> github.epoch, by |-> c]
             k == [call[c] EXCEPT !.pc = "minted", !.token = t]
  <2>1. t \in Token /\ t.by = c
    BY DEF Token, Rest
  <2> HIDE DEF t
  <2>2. call' = [call EXCEPT ![c] = k] /\ lock' = lock /\ lock = c /\ Rest'
    BY <1>1, <1>4 DEF Mint, At, Calls, Rest, t
  <2>3. k \in CallState /\ k.pc = "minted" /\ InOrder(k, c)
    BY <1>1, <2>1 DEF CallState, InOrder
  <2> HIDE DEF k
  <2> QED
    BY <2>2, <2>3, CallMoves
<1>5. CASE Minted(c)
  <2>1. call[c].pc = "minted" /\ lock = c /\ lock' = Nobody /\ call[c].token \in Token /\ call[c].token.by = c
    BY <1>1, <1>5 DEF Minted, At, Calls, CallState, InOrder
  <2>2. CASE call[c].attempt = Attempts
    <3>1. EndCall(c, "failed")
      BY <1>5, <2>2 DEF Minted
    <3> QED
      BY <1>5, <2>1, <3>1, EndMoves DEF Minted, Rest
  <2>3. CASE call[c].attempt # Attempts
    <3> DEFINE k == [call[c] EXCEPT !.pc = "send"]
    <3>1. call' = [call EXCEPT ![c] = k] /\ last' = last
      BY <1>1, <1>5, <2>3 DEF Minted, Calls
    <3>2. k \in CallState /\ k.pc = "send" /\ InOrder(k, c)
      BY <1>1, <2>1, <2>3 DEF CallState, InOrder
    <3> HIDE DEF k
    <3>3. Rest'
      BY <1>5, <2>1, <3>1 DEF Minted, Rest
    <3> QED
      BY <2>1, <3>1, <3>2, <3>3, CallMoves
  <2> QED
    BY <2>2, <2>3
<1>6. CASE MintFails(c)
  <2>1. lock = c /\ lock' = Nobody /\ EndCall(c, "failed") /\ faults' \in 0..MaxFaults /\ faults' >= faults
    BY <1>1, <1>6 DEF MintFails, Released, At, Calls, Fault, Rest
  <2> QED
    BY <1>6, <2>1, EndMoves DEF MintFails, Rest
<1> QED
  BY <1>2, <1>3, <1>4, <1>5, <1>6

\* Requests and their answers.
LEMMA AnswerTypes ==
  ASSUME Shape, NEW c \in Call,
         Serve(c) \/ Success(c) \/ Unauthorized(c) \/ Limited(c) \/ TryAgain(c) \/ Fail(c)
  PROVE  Shape'
<1> USE DEF Shape
<1>1. call[c] \in CallState /\ InOrder(call[c], c)
  BY DEF Calls
<1>2. CASE Serve(c)
  <2>1. PICK a \in Answer \ {"none"} :
          /\ call' = [call EXCEPT ![c].pc = "answer", ![c].answer = a]
          /\ faults' = faults \/ Fault
    BY <1>2 DEF Serve, Answer
  <2> DEFINE k == [call[c] EXCEPT !.pc = "answer", !.answer = a]
  <2>2. call' = [call EXCEPT ![c] = k] /\ lock' = lock /\ call[c].pc = "send"
    BY <1>1, <1>2, <2>1 DEF Serve, At, Calls
  <2>3. k \in CallState /\ k.pc = "answer" /\ InOrder(k, c)
    BY <1>1, <2>1, <2>2 DEF CallState, InOrder
  <2>4. Rest'
    BY <1>2, <2>1 DEF Serve, Fault, Rest
  <2> HIDE DEF k
  <2> QED
    BY <2>2, <2>3, <2>4, CallMoves
<1>3. CASE Success(c)
  BY <1>3, EndMoves DEF Success, WindowLeft, Rest, Base
<1>4. CASE Unauthorized(c)
  <2>1. call[c].pc = "answer" /\ lock' = lock
    BY <1>4 DEF Unauthorized, Answered, At
  <2>2. CASE call[c].retried
    <3>1. EndCall(c, "failed")
      BY <1>4, <2>2 DEF Unauthorized, MayRetry
    <3> QED
      BY <1>4, <2>1, <2>2, <3>1, EndMoves DEF Unauthorized, MayRetry, Rest
  <2>3. CASE ~call[c].retried
    <3> DEFINE k == [Idle EXCEPT !.pc = "token", !.attempt = call[c].attempt + 1,
                                 !.retried = TRUE, !.cred = stored]
    <3>1. call' = [call EXCEPT ![c] = k] /\ cache' = NoToken
      BY <1>4, <2>3 DEF Unauthorized, MayRetry
    <3>2. k \in CallState /\ k.pc = "token" /\ InOrder(k, c)
      <4>1. call[c].attempt + 1 \in 0..Attempts
        BY <1>1, <2>1 DEF CallState, InOrder
      <4>2. k.pc = "token" /\ k.retried = TRUE
        BY DEF Idle
      <4>3. k \in CallState
        BY <4>1, IdleShape DEF CallState, Rest
      <4> QED
        BY <4>2, <4>3 DEF InOrder
    <3> HIDE DEF k
    <3>3. Rest'
      BY <1>4, <2>3, <3>1, IdleShape DEF Unauthorized, MayRetry, Rest, NoToken, Token
    <3> QED
      BY <2>1, <3>1, <3>2, <3>3, CallMoves
  <2> QED
    BY <2>2, <2>3
<1>5. CASE Limited(c)
  <2>1. EndCall(c, "limited") /\ lock' = lock
    BY <1>5 DEF Limited
  <2>2. Calls' /\ last' \in [Call -> {"none", "ok", "limited", "failed"}]
    BY <2>1, EndMoves
  <2>3. window' \in Nat /\ backoff' \in Base..Cap /\ pause' \in Nat
    BY <1>5 DEF Limited, NextBackoff, Least, Most, Base, Rest
  <2> QED
    BY <1>5, <2>2, <2>3 DEF Limited, Rest
<1>6. CASE TryAgain(c)
  <2>1. call[c].pc = "answer" /\ lock' = lock
    BY <1>6 DEF TryAgain, Answered, At
  <2>2. CASE call[c].attempt < Attempts - 1
    <3> DEFINE k == [call[c] EXCEPT !.pc = "send", !.attempt = @ + 1, !.answer = "none"]
    <3>1. call' = [call EXCEPT ![c] = k]
      BY <1>1, <1>6, <2>2 DEF TryAgain, Calls
    <3>2. k \in CallState /\ k.pc = "send" /\ InOrder(k, c)
      <4>1. /\ k.pc = "send" /\ k.attempt = call[c].attempt + 1
            /\ k.retried = call[c].retried /\ k.token = call[c].token
        BY <1>1 DEF CallState
      <4>2. call[c].attempt + 1 \in 0..Attempts /\ call[c].attempt + 1 < Attempts
        BY <1>1, <2>2 DEF CallState
      <4>3. k \in CallState
        BY <1>1, <4>2 DEF CallState, Answer
      <4>4. k.retried => k.token.by = c
        BY <1>1, <2>1, <4>1 DEF InOrder
      <4> QED
        BY <4>1, <4>2, <4>3, <4>4 DEF InOrder
    <3> HIDE DEF k
    <3>3. Rest'
      BY <1>6, <2>2 DEF TryAgain, Rest
    <3> QED
      BY <2>1, <3>1, <3>2, <3>3, CallMoves
  <2>3. CASE ~(call[c].attempt < Attempts - 1)
    BY <1>6, <2>1, <2>3, EndMoves DEF TryAgain, Rest
  <2> QED
    BY <2>2, <2>3
<1>7. CASE Fail(c)
  BY <1>7, EndMoves DEF Fail, Rest
<1> QED
  BY <1>2, <1>3, <1>4, <1>5, <1>6, <1>7

LEMMA ShapeStep == Shape /\ [Next]_vars => Shape'
<1> SUFFICES ASSUME Shape, [Next]_vars PROVE Shape'
  OBVIOUS
<1>1. CASE UNCHANGED <<call, lock>> /\ (Tick \/ Expire \/ Disturb \/ Reconnect \/ UNCHANGED vars)
  <2>1. Calls'
    BY <1>1 DEF Shape, Calls
  <2>2. CASE Tick
    BY <2>1, <2>2 DEF Tick, Down, Most, Shape, Rest
  <2>3. CASE Expire
    BY <2>1, <2>3 DEF Expire, NoToken, Token, Shape, Rest
  <2>4. CASE Disturb
    <3>1. faults' = faults + 1 /\ faults' \in 0..MaxFaults
      BY <2>4 DEF Disturb, Fault, Shape, Rest
    <3>2. /\ github' \in [installation : Nat, epoch : Nat, limited : Nat]
          /\ github'.installation <= github.installation + 1 /\ github'.epoch <= github.epoch + 1
      <4>1. /\ github \in [installation : Nat, epoch : Nat, limited : Nat]
            /\ github.installation \in Nat /\ github.epoch \in Nat /\ Reset \in Nat
        BY DEF Shape, Rest
      <4>2. \/ github' = [github EXCEPT !.limited = Reset]
            \/ github' = [github EXCEPT !.epoch = @ + 1]
            \/ github' = [github EXCEPT !.epoch = @ + 1, !.installation = @ + 1]
        BY <2>4 DEF Disturb
      <4>3. CASE github' = [github EXCEPT !.limited = Reset]
        BY <4>1, <4>3
      <4>4. CASE github' = [github EXCEPT !.epoch = @ + 1]
        BY <4>1, <4>4
      <4>5. CASE github' = [github EXCEPT !.epoch = @ + 1, !.installation = @ + 1]
        <5>1. github' = [installation |-> github.installation + 1, epoch |-> github.epoch + 1,
                         limited |-> github.limited]
          BY <4>1, <4>5
        <5> QED
          BY <4>1, <5>1
      <4> QED
        BY <4>2, <4>3, <4>4, <4>5
    <3> QED
      BY <2>1, <2>4, <3>1, <3>2 DEF Disturb, Shape, Rest
  <2>5. CASE Reconnect
    BY <2>1, <2>5 DEF Reconnect, NoToken, Token, Shape, Rest
  <2>6. CASE UNCHANGED vars
    BY <2>1, <2>6 DEF vars, Shape, Rest
  <2> QED
    BY <1>1, <2>2, <2>3, <2>4, <2>5, <2>6
<1>2. Tick \/ Expire \/ Disturb \/ Reconnect \/ UNCHANGED vars => UNCHANGED <<call, lock>>
  BY DEF Tick, Expire, Disturb, Reconnect, vars
<1> QED
  BY <1>1, <1>2, TokenTypes, AnswerTypes DEF Next, Step

LEMMA Invariance == Spec => []Shape
BY InitShape, ShapeStep, PTL DEF Spec

LEMMA ShapeImpliesTypes == Shape => TypeOK
<1> SUFFICES ASSUME Shape PROVE TypeOK
  OBVIOUS
<1>1. \A c \in Call : /\ call[c].pc \in {"idle", "token", "mint", "minted", "send", "answer"}
                      /\ call[c].attempt \in 0..Attempts
                      /\ call[c].pc = "send" => call[c].attempt < Attempts
                      /\ call[c].pc \in {"mint", "minted"} => lock = c
  BY DEF Shape, Calls, CallState, InOrder
<1> QED
  BY <1>1 DEF TypeOK, Shape, Rest, Token

---------------------------------------------------------------------------

\* Every reachable state is type correct: no call makes more than its attempts, and
\* at most one asks for a token.
THEOREM TypesHold == Spec => []TypeOK
BY Invariance, ShapeImpliesTypes, PTL

\* However calls overtake each other, one that was refused tries again with a token
\* it asked for itself.
THEOREM RetriesAskAnew == Spec => []RetryAsksAnew
<1>1. Shape => RetryAsksAnew
  BY DEF Shape, Calls, InOrder, RetryAsksAnew
<1> QED
  BY <1>1, Invariance, PTL

\* The pauses for secondary limits double, up to the longest.
THEOREM BackoffDoubles == Spec => []BackoffGrows
<1>1. Init => BackoffGrows
  BY DEF Init, BackoffGrows, Least, Base
<1>2. Shape /\ BackoffGrows /\ [Next]_vars => BackoffGrows'
  <2> SUFFICES ASSUME Shape, BackoffGrows, [Next]_vars PROVE BackoffGrows'
    OBVIOUS
  <2>1. CASE UNCHANGED <<backoff, pause>>
    BY <2>1 DEF BackoffGrows
  <2>2. ASSUME NEW c \in Call, Success(c) PROVE BackoffGrows'
    BY <2>2 DEF Success, BackoffGrows, Least, Base
  <2>3. ASSUME NEW c \in Call, Limited(c) PROVE BackoffGrows'
    BY <2>1, <2>3 DEF Limited, NextBackoff, Least, Most, BackoffGrows, Shape, Rest, Base
  <2> QED
    BY <2>1, <2>2, <2>3
       DEF Next, vars, Tick, Expire, Disturb, Reconnect, Begin, TakeToken, Step, Mint, Minted,
           MintFails, Serve, Unauthorized, TryAgain, Fail
<1> QED
  BY <1>1, <1>2, Invariance, PTL DEF Spec

\* A pause is ended by time only, or by the answer to another limited call.
THEOREM PausesAreKept == Spec => PauseKept
<1>1. ASSUME Shape, [Next]_vars, window' < window
      PROVE  window' = window - 1 \/ \E c \in Call : last'[c] = "limited" /\ call[c].pc = "answer"
  <2>1. CASE Tick
    BY <1>1, <2>1 DEF Tick, Down, Most, Shape, Rest
  <2>2. ASSUME NEW c \in Call, Limited(c)
        PROVE  last'[c] = "limited" /\ call[c].pc = "answer"
    BY <1>1, <2>2 DEF Limited, EndCall, Answered, At, Shape, Rest
  <2>3. CASE window' = window
    BY <1>1, <2>3 DEF Shape, Rest
  <2> QED
    BY <1>1, <2>1, <2>2, <2>3
       DEF Next, vars, Expire, Disturb, Reconnect, Begin, TakeToken, Step, Mint, Minted,
           MintFails, Serve, Success, WindowLeft, Unauthorized, TryAgain, Fail
<1>2. Shape /\ [Next]_vars =>
        [window' < window =>
           window' = window - 1 \/ \E c \in Call : last'[c] = "limited" /\ call[c].pc = "answer"]_vars
  BY <1>1
<1> QED
  BY <1>2, Invariance, PTL DEF Spec, PauseKept
==============================================================================
