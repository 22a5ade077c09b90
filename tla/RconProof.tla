----------------------------- MODULE RconProof -----------------------------
(***************************************************************************)
(* Theorems about Rcon for any number of calls and any limit on skipped    *)
(* packets.                                                                *)
(***************************************************************************)
EXTENDS Rcon, TLAPS

(* The states in which a call works on the connection.                     *)
Busy == Awaits \ {"lock"}

Exclusive == \A p \in Caller : call[p].pc \in Busy => holder = p

(* The second attempt is on a connection of the call's own, or has none.   *)
OwnRetry ==
  \A p \in Caller : call[p].pc \in Busy /\ call[p].attempt = 2 =>
    call[p].fresh \/ (call[p].pc = "attempt" /\ conn = "none")

Unfinished ==
  \A p \in Caller :
    /\ call[p].pc # "end" => call[p].result = "none"
    /\ call[p].pc \in {"idle", "lock"} => call[p].attempt = 1

(* What is on the connection was asked by the latest attempt of a call     *)
(* that has sent it and has not failed.                                    *)
Current(k) ==
  /\ k \in 1 .. Len(asked)
  /\ k = call[asked[k]].id
  /\ call[asked[k]].result # "error"
  /\ call[asked[k]].pc \notin {"idle", "lock", "attempt"}

OnlyCurrent == \A k \in OnLink : Current(k)

IInv ==
  /\ RconTypeOK
  /\ Exclusive
  /\ OwnRetry
  /\ Unfinished
  /\ LeftoversHarmless
  /\ OnlyCurrent

----------------------------------------------------------------------------
(* What any change of the queues of the connection means for OnLink.       *)
LEMMA TailOnLink ==
  ASSUME RconTypeOK, inbox # <<>>, inbox' = Tail(inbox), UNCHANGED <<requests, wire>>
  PROVE  /\ inbox' \in Seq(Piece)
         /\ OnLink' \subseteq OnLink
<1>1. inbox \in Seq(Piece)
  BY DEF RconTypeOK
<1>2. /\ inbox' \in Seq(Piece)
      /\ \A i \in DOMAIN inbox' : i + 1 \in DOMAIN inbox
                                  /\ inbox'[i] = inbox[i + 1]
  BY <1>1
<1> QED
  BY <1>2 DEF OnLink, SentIds

LEMMA CutOnLink ==
  ASSUME RconTypeOK, NEW n \in 0 .. Len(inbox),
         inbox' = SubSeq(inbox, n + 1, Len(inbox)), UNCHANGED <<requests, wire>>
  PROVE  /\ inbox' \in Seq(Piece)
         /\ OnLink' \subseteq OnLink
<1>1. inbox \in Seq(Piece) /\ n \in Nat /\ Len(inbox) \in Nat /\ n <= Len(inbox)
  BY DEF RconTypeOK
<1>2. \A i \in n + 1 .. Len(inbox) : inbox[i] \in Piece
  BY <1>1
<1>3. inbox' \in Seq(Piece) /\ Len(inbox') = Len(inbox) - n
  BY <1>1, <1>2
<1>4. ASSUME NEW i \in DOMAIN inbox'
      PROVE  n + i \in DOMAIN inbox /\ inbox'[i] = inbox[n + i]
  <2>1. i \in 1 .. Len(inbox) - n
    BY <1>1, <1>3, <1>4
  <2>2. n + i \in 1 .. Len(inbox) /\ (n + 1) + i - 1 = n + i
    BY <1>1, <2>1
  <2>3. inbox'[i] = inbox[(n + 1) + i - 1]
    BY <1>1, <2>1
  <2> QED
    BY <1>1, <2>2, <2>3
<1> QED
  BY <1>3, <1>4 DEF OnLink, SentIds

(* An empty connection, and one whose requests may still be run.           *)
LEMMA DisconnectOnLink ==
  ASSUME RconTypeOK, Disconnect
  PROVE  /\ conn' \in {"none", "open", "dead"}
         /\ requests' \in Seq(Nat) /\ wire' \in Seq(Piece) /\ inbox' \in Seq(Piece)
         /\ adrift' \subseteq Nat
         /\ OnLink' = {}
<1>1. requests \in Seq(Nat) /\ SentIds \subseteq Nat
  BY DEF RconTypeOK, SentIds
<1>2. requests' = <<>> /\ wire' = <<>> /\ inbox' = <<>>
  BY DEF Disconnect
<1>3. OnLink' = {}
  BY <1>2 DEF OnLink, SentIds
<1> QED
  BY <1>1, <1>2, <1>3 DEF Disconnect, RconTypeOK

----------------------------------------------------------------------------
(* A failed attempt is followed by one without a connection, or is the     *)
(* second one, on a connection of the call's own.                          *)
LEMMA FailKeeps ==
  ASSUME IInv, NEW p \in Caller, call[p].pc \in Busy, Fail(p),
         call[p].pc = "attempt" => conn # "none",
         asked' \in Seq(Caller), ran' = ran
  PROVE  IInv'
<1> USE DEF IInv
<1>1. /\ conn' = "none" /\ OnLink' = {}
      /\ requests' \in Seq(Nat) /\ wire' \in Seq(Piece) /\ inbox' \in Seq(Piece)
      /\ adrift' \subseteq Nat
  BY DisconnectOnLink DEF Fail, Disconnect
<1>2. /\ call \in [Caller -> Call] /\ holder \in Caller \cup {NoCaller}
      /\ holder = p
      /\ \A q \in Caller \ {p} : call[q].pc \notin Busy
  BY RconAssumption DEF RconTypeOK, Exclusive
<1>3. OnlyCurrent'
  BY <1>1 DEF OnlyCurrent
<1>4. CASE /\ call' = [call EXCEPT ![p].pc = "attempt", ![p].attempt = 2,
                                   ![p].fresh = FALSE, ![p].output = <<>>]
           /\ UNCHANGED holder
  <2>1. <<>> \in Seq([id: Nat, part: {1, 2}])
    OBVIOUS
  <2>2. call' \in [Caller -> Call]
    <3>1. [call[p] EXCEPT !.pc = "attempt", !.attempt = 2,
                          !.fresh = FALSE, !.output = <<>>] \in Call
      <4>1. "attempt" \in {"idle", "end"} \cup Awaits /\ 2 \in 1 .. 2
        BY DEF Awaits
      <4> QED
        BY <1>2, <2>1, <4>1 DEF Call
    <3> QED
      BY <1>2, <1>4, <3>1
  <2>3. RconTypeOK'
    BY <1>1, <1>2, <1>4, <2>2 DEF RconTypeOK
  <2>4. Exclusive' /\ OwnRetry' /\ Unfinished'
    BY <1>1, <1>2, <1>4 DEF Exclusive, OwnRetry, Unfinished, Call, Busy, Awaits
  <2>5. LeftoversHarmless'
    <3>1. call[p].result = "none"
      BY DEF Unfinished, Busy, Awaits
    <3> QED
      BY <1>2, <1>4, <3>1 DEF LeftoversHarmless, Call
  <2> QED
    BY <1>3, <2>3, <2>4, <2>5
<1>5. CASE call[p].attempt = 2 /\ Return(p, "error", <<>>)
  <2>1. <<>> \in Seq([id: Nat, part: {1, 2}])
    OBVIOUS
  <2>2. call' \in [Caller -> Call]
    <3>1. [call[p] EXCEPT !.pc = "end", !.result = "error",
                          !.output = <<>>] \in Call
      BY <1>2, <2>1 DEF Call, Result
    <3> QED
      BY <1>2, <1>5, <3>1 DEF Return
  <2>3. RconTypeOK'
    BY <1>1, <1>2, <1>5, <2>2 DEF RconTypeOK, Return
  <2>4. Exclusive' /\ OwnRetry' /\ Unfinished'
    BY <1>2, <1>5 DEF Exclusive, OwnRetry, Unfinished, Call, Return, Busy, Awaits
  <2>5. call[p].fresh
    BY <1>2, <1>5 DEF OwnRetry
  <2>6. LeftoversHarmless'
    BY <1>2, <1>5, <2>5 DEF LeftoversHarmless, Call, Return
  <2> QED
    BY <1>3, <2>3, <2>4, <2>6
<1> QED
  BY <1>4, <1>5 DEF Fail

(* A call that goes on reading.                                            *)
LEMMA ReadsOnKeeps ==
  ASSUME IInv, NEW p \in Caller, call[p].pc \in Busy \ {"attempt"},
         NEW c \in Call, call' = [call EXCEPT ![p] = c],
         c.pc \in Busy \ {"attempt"},
         c.attempt = call[p].attempt, c.fresh = call[p].fresh,
         c.id = call[p].id, c.result = call[p].result,
         inbox' \in Seq(Piece), OnLink' \subseteq OnLink,
         UNCHANGED <<holder, conn, requests, wire, adrift, asked, ran>>
  PROVE  IInv'
<1> USE DEF IInv
<1>1. /\ call \in [Caller -> Call] /\ call' \in [Caller -> Call]
      /\ call'[p] = c
      /\ \A q \in Caller \ {p} : call'[q] = call[q]
  BY DEF RconTypeOK
<1>2. RconTypeOK'
  BY <1>1 DEF RconTypeOK
<1>3. Exclusive' /\ OwnRetry' /\ Unfinished' /\ LeftoversHarmless'
  BY <1>1 DEF Exclusive, OwnRetry, Unfinished, LeftoversHarmless, Busy, Awaits
<1>4. OnlyCurrent'
  <2> SUFFICES ASSUME NEW k \in OnLink' PROVE Current(k)'
    BY DEF OnlyCurrent
  <2>1. Current(k)
    BY DEF OnlyCurrent
  <2>2. asked[k] \in Caller
    BY <2>1 DEF Current, RconTypeOK
  <2> QED
    BY <1>1, <2>1, <2>2 DEF Current, Busy, Awaits
<1> QED
  BY <1>2, <1>3, <1>4

(* A call that returns, other than by the failure of its second attempt.   *)
LEMMA ReturnKeeps ==
  ASSUME IInv, NEW p \in Caller, call[p].pc \in Busy,
         NEW result \in Result \ {"error"},
         NEW output \in Seq([id: Nat, part: {1, 2}]),
         Return(p, result, output),
         inbox' \in Seq(Piece), OnLink' \subseteq OnLink,
         UNCHANGED <<conn, requests, wire, adrift, asked, ran>>
  PROVE  IInv'
<1> USE DEF IInv
<1> DEFINE c == [call[p] EXCEPT !.pc = "end", !.result = result,
                                !.output = output]
<1>1. call \in [Caller -> Call] /\ c \in Call
  BY DEF RconTypeOK, Call
<1>2. /\ call' = [call EXCEPT ![p] = c] /\ holder' = NoCaller
      /\ c.pc = "end" /\ c.result = result /\ c.id = call[p].id
      /\ call' \in [Caller -> Call]
      /\ call'[p] = c
      /\ \A q \in Caller \ {p} : call'[q] = call[q]
  BY <1>1 DEF Return, Call
<1> HIDE DEF c
<1>3. RconTypeOK'
  BY <1>2 DEF RconTypeOK
<1>4. holder = p /\ \A q \in Caller \ {p} : call[q].pc \notin Busy
  BY RconAssumption DEF Exclusive
<1>5. Exclusive' /\ OwnRetry' /\ Unfinished' /\ LeftoversHarmless'
  BY <1>2, <1>4 DEF Exclusive, OwnRetry, Unfinished, LeftoversHarmless, Busy,
                    Awaits
<1>6. OnlyCurrent'
  <2> SUFFICES ASSUME NEW k \in OnLink' PROVE Current(k)'
    BY DEF OnlyCurrent
  <2>1. Current(k)
    BY DEF OnlyCurrent
  <2>2. asked[k] \in Caller
    BY <2>1 DEF Current, RconTypeOK
  <2> QED
    BY <1>2, <2>1, <2>2 DEF Current
<1> QED
  BY <1>3, <1>5, <1>6

----------------------------------------------------------------------------
LEMMA IInvInit == RconInit => IInv
<1> SUFFICES ASSUME RconInit PROVE IInv
  OBVIOUS
<1> USE DEF RconInit
<1>1. <<>> \in Seq([id: Nat, part: {1, 2}])
  OBVIOUS
<1>2. RconTypeOK
  <2>1. MaxSkipped \in Nat
    BY RconAssumption
  <2>2. call \in [Caller -> Call]
    BY <1>1, <2>1 DEF Call, Result
  <2> QED
    BY <2>2 DEF RconTypeOK
<1>3. Exclusive /\ OwnRetry /\ Unfinished /\ LeftoversHarmless
  BY DEF Exclusive, OwnRetry, Unfinished, LeftoversHarmless, Busy, Awaits
<1>4. OnlyCurrent
  BY DEF OnlyCurrent, OnLink, SentIds
<1> QED
  BY <1>2, <1>3, <1>4 DEF IInv

LEMMA StartKeeps ==
  ASSUME IInv, NEW p \in Caller, Start(p)
  PROVE  IInv'
<1> USE DEF IInv, Start, At, Goto, link
<1> DEFINE c == [call[p] EXCEPT !.pc = "lock"]
<1>1. call \in [Caller -> Call] /\ c \in Call
  BY DEF RconTypeOK, Call, Awaits
<1>2. /\ call' = [call EXCEPT ![p] = c] /\ call' \in [Caller -> Call]
      /\ call'[p] = c /\ c.pc = "lock"
      /\ c.result = call[p].result /\ c.fresh = call[p].fresh
      /\ c.attempt = call[p].attempt
      /\ \A q \in Caller \ {p} : call'[q] = call[q]
  BY <1>1 DEF Call
<1> HIDE DEF c
<1>3. RconTypeOK'
  BY <1>2 DEF RconTypeOK
<1>4. Exclusive' /\ OwnRetry' /\ Unfinished' /\ LeftoversHarmless'
  BY <1>2 DEF Exclusive, OwnRetry, Unfinished, LeftoversHarmless, Busy, Awaits
<1>5. OnlyCurrent'
  <2> SUFFICES ASSUME NEW k \in OnLink' PROVE Current(k)'
    BY DEF OnlyCurrent
  <2>1. Current(k)
    BY DEF OnlyCurrent, OnLink, SentIds
  <2>2. asked[k] \in Caller \ {p}
    BY <2>1 DEF Current, RconTypeOK
  <2> QED
    BY <1>2, <2>1, <2>2 DEF Current
<1> QED
  BY <1>3, <1>4, <1>5

LEMMA LockKeeps ==
  ASSUME IInv, NEW p \in Caller, Lock(p)
  PROVE  IInv'
<1> USE DEF IInv, Lock, At, Goto, link
<1> DEFINE c == [call[p] EXCEPT !.pc = "attempt"]
<1>1. call \in [Caller -> Call] /\ c \in Call
  BY DEF RconTypeOK, Call, Awaits
<1>2. /\ call' = [call EXCEPT ![p] = c] /\ call' \in [Caller -> Call]
      /\ call'[p] = c /\ c.pc = "attempt"
      /\ c.result = call[p].result /\ c.attempt = call[p].attempt
      /\ \A q \in Caller \ {p} : call'[q] = call[q]
  BY <1>1 DEF Call
<1>3. call[p].result = "none" /\ call[p].attempt = 1
  BY DEF Unfinished
<1> HIDE DEF c
<1>4. RconTypeOK'
  BY <1>2 DEF RconTypeOK
<1>5. \A q \in Caller : call[q].pc \notin Busy
  BY RconAssumption DEF Exclusive
<1>6. Exclusive' /\ OwnRetry' /\ Unfinished' /\ LeftoversHarmless'
  BY <1>2, <1>3, <1>5 DEF Exclusive, OwnRetry, Unfinished, LeftoversHarmless
<1>7. OnlyCurrent'
  <2> SUFFICES ASSUME NEW k \in OnLink' PROVE Current(k)'
    BY DEF OnlyCurrent
  <2>1. Current(k)
    BY DEF OnlyCurrent, OnLink, SentIds
  <2>2. asked[k] \in Caller \ {p}
    BY <2>1 DEF Current, RconTypeOK
  <2> QED
    BY <1>2, <2>1, <2>2 DEF Current
<1> QED
  BY <1>4, <1>6, <1>7

LEMMA ConnectKeeps ==
  ASSUME IInv, NEW p \in Caller, Connect(p)
  PROVE  IInv'
<1> USE DEF IInv, Connect, At
<1> DEFINE c == [call[p] EXCEPT !.fresh = TRUE]
<1>1. call \in [Caller -> Call] /\ c \in Call
  BY DEF RconTypeOK, Call
<1>2. /\ call' = [call EXCEPT ![p] = c] /\ call' \in [Caller -> Call]
      /\ call'[p] = c /\ c.pc = call[p].pc /\ c.fresh = TRUE
      /\ c.result = call[p].result /\ c.attempt = call[p].attempt
      /\ c.id = call[p].id
      /\ \A q \in Caller \ {p} : call'[q] = call[q]
  BY <1>1 DEF Call
<1> HIDE DEF c
<1>3. RconTypeOK'
  BY <1>2 DEF RconTypeOK
<1>4. holder = p /\ \A q \in Caller \ {p} : call[q].pc \notin Busy
  BY RconAssumption DEF Exclusive, Busy, Awaits
<1>5. Exclusive' /\ OwnRetry' /\ Unfinished' /\ LeftoversHarmless'
  BY <1>2, <1>4 DEF Exclusive, OwnRetry, Unfinished, LeftoversHarmless
<1>6. OnlyCurrent'
  <2> SUFFICES ASSUME NEW k \in OnLink' PROVE Current(k)'
    BY DEF OnlyCurrent
  <2>1. Current(k)
    BY DEF OnlyCurrent, OnLink, SentIds
  <2>2. asked[k] \in Caller
    BY <2>1 DEF Current, RconTypeOK
  <2> QED
    BY <1>2, <2>1, <2>2 DEF Current
<1> QED
  BY <1>3, <1>5, <1>6

LEMMA RefusedKeeps ==
  ASSUME IInv, NEW p \in Caller, Refused(p)
  PROVE  IInv'
<1>1. call[p].pc \in Busy /\ <<>> \in Seq([id: Nat, part: {1, 2}])
  BY DEF Refused, At, Busy, Awaits
<1>2. /\ inbox' \in Seq(Piece) /\ OnLink' \subseteq OnLink
      /\ UNCHANGED <<conn, requests, wire, adrift, asked, ran>>
  BY DEF IInv, RconTypeOK, Refused, link, OnLink, SentIds
<1>3. "refused" \in Result \ {"error"} /\ Return(p, "refused", <<>>)
  BY DEF Result, Refused
<1> QED
  BY <1>1, <1>2, <1>3, ReturnKeeps

(* A request is new, and the call that makes it has none on the            *)
(* connection yet.                                                         *)
LEMMA SendKeeps ==
  ASSUME IInv, NEW p \in Caller, Send(p)
  PROVE  IInv'
<1> USE DEF IInv, Send, At
<1> DEFINE new == Len(asked) + 1
           c == [call[p] EXCEPT !.pc = "length", !.id = new, !.skipped = 0,
                                !.torn = FALSE]
<1>1. /\ call \in [Caller -> Call] /\ asked \in Seq(Caller) /\ new \in Nat
      /\ requests \in Seq(Nat)
  BY DEF RconTypeOK
<1>2. c \in Call
  <2>1. 0 \in 0 .. MaxSkipped /\ "length" \in {"idle", "end"} \cup Awaits
    BY RconAssumption DEF Awaits
  <2> QED
    BY <1>1, <2>1 DEF Call
<1>3. /\ call' = [call EXCEPT ![p] = c] /\ call' \in [Caller -> Call]
      /\ call'[p] = c /\ c.pc = "length" /\ c.id = new
      /\ c.result = call[p].result /\ c.attempt = call[p].attempt
      /\ c.fresh = call[p].fresh
      /\ \A q \in Caller \ {p} : call'[q] = call[q]
  BY <1>1, <1>2 DEF Call
<1> HIDE DEF c
<1>4. /\ asked' \in Seq(Caller) /\ Len(asked') = new /\ asked'[new] = p
      /\ \A k \in 1 .. Len(asked) : asked'[k] = asked[k]
  BY <1>1
<1>5. RconTypeOK'
  BY <1>1, <1>3, <1>4 DEF RconTypeOK
<1>6. holder = p /\ \A q \in Caller \ {p} : call[q].pc \notin Busy
  BY RconAssumption DEF Exclusive, Busy, Awaits
<1>7. Exclusive' /\ OwnRetry' /\ Unfinished' /\ LeftoversHarmless'
  BY <1>3, <1>6 DEF Exclusive, OwnRetry, Unfinished, LeftoversHarmless, Busy,
                    Awaits
<1>8. OnLink' \subseteq OnLink \cup {new}
  <2>1. SentIds' \subseteq SentIds \cup {new}
    BY <1>1 DEF SentIds
  <2> QED
    BY <2>1 DEF OnLink
<1>9. OnlyCurrent'
  <2> SUFFICES ASSUME NEW k \in OnLink' PROVE Current(k)'
    BY DEF OnlyCurrent
  <2>1. CASE k = new
    <3>1. call[p].result = "none"
      BY DEF Unfinished
    <3> QED
      BY <1>1, <1>3, <1>4, <2>1, <3>1 DEF Current
  <2>2. CASE k \in OnLink
    <3>1. Current(k)
      BY <2>2 DEF OnlyCurrent
    <3>2. k \in 1 .. Len(asked) /\ asked[k] \in Caller \ {p}
      BY <1>1, <3>1 DEF Current
    <3> QED
      BY <1>1, <1>3, <1>4, <3>1, <3>2 DEF Current
  <2> QED
    BY <1>8, <2>1, <2>2
<1> QED
  BY <1>5, <1>7, <1>9

LEMMA SendFailsKeeps ==
  ASSUME IInv, NEW p \in Caller, SendFails(p)
  PROVE  IInv'
<1>1. call[p].pc \in Busy /\ conn # "none" /\ Fail(p) /\ ran' = ran
  BY DEF SendFails, At, Busy, Awaits
<1>2. asked' \in Seq(Caller)
  BY DEF SendFails, IInv, RconTypeOK
<1> QED
  BY <1>1, <1>2, FailKeeps

----------------------------------------------------------------------------
LEMMA ReadLengthKeeps ==
  ASSUME IInv, NEW p \in Caller,
         NEW from \in Busy \ {"attempt"}, NEW to \in Busy \ {"attempt"},
         ReadLength(p, from, to)
  PROVE  IInv'
<1> DEFINE c == [call[p] EXCEPT !.pc = to]
<1>1. call \in [Caller -> Call] /\ to \in {"idle", "end"} \cup Awaits
  BY DEF IInv, RconTypeOK, Busy
<1>2. c \in Call
  BY <1>1 DEF Call
<1>3. /\ call' = [call EXCEPT ![p] = c]
      /\ c.pc = to /\ c.attempt = call[p].attempt /\ c.fresh = call[p].fresh
      /\ c.id = call[p].id /\ c.result = call[p].result
  BY <1>1 DEF ReadLength, Goto, Call
<1>4. inbox' \in Seq(Piece) /\ OnLink' \subseteq OnLink
  BY TailOnLink DEF IInv, ReadLength
<1>5. /\ call[p].pc \in Busy \ {"attempt"}
      /\ UNCHANGED <<holder, conn, requests, wire, adrift, asked, ran>>
  BY DEF ReadLength, At
<1> HIDE DEF c
<1> QED
  BY <1>2, <1>3, <1>4, <1>5, ReadsOnKeeps

(* Skipping a packet, or what is taken for one, with those before rest.    *)
LEMMA SkipKeeps ==
  ASSUME IInv, NEW p \in Caller, call[p].pc \in {"length", "payload"},
         NEW rest, NEW torn \in BOOLEAN, Skip(p, rest, torn),
         inbox' = rest => inbox' \in Seq(Piece)
                          /\ (UNCHANGED <<requests, wire>> => OnLink' \subseteq OnLink),
         UNCHANGED <<asked, ran>>
  PROVE  IInv'
<1>1. call[p].pc \in Busy \ {"attempt"}
  BY DEF Busy, Awaits
<1>2. CASE call[p].skipped < MaxSkipped
  <2> DEFINE c == [call[p] EXCEPT !.pc = "length", !.skipped = @ + 1,
                                  !.torn = @ \/ torn]
  <2>1. call \in [Caller -> Call]
    BY DEF IInv, RconTypeOK
  <2>2. c \in Call
    <3>1. call[p].skipped + 1 \in 0 .. MaxSkipped
      BY <1>2, <2>1, RconAssumption DEF Call
    <3>2. "length" \in {"idle", "end"} \cup Awaits
      BY DEF Awaits
    <3>3. (call[p].torn \/ torn) \in BOOLEAN
      OBVIOUS
    <3> QED
      BY <2>1, <3>1, <3>2, <3>3 DEF Call
  <2>3. /\ call' = [call EXCEPT ![p] = c] /\ inbox' = rest
        /\ UNCHANGED <<holder, conn, requests, wire, adrift>>
    BY <1>2 DEF Skip
  <2>4. /\ c.pc = "length" /\ c.attempt = call[p].attempt
        /\ c.fresh = call[p].fresh /\ c.id = call[p].id
        /\ c.result = call[p].result
    BY <2>1 DEF Call
  <2>5. c.pc \in Busy \ {"attempt"}
    BY <2>4 DEF Busy, Awaits
  <2> HIDE DEF c
  <2> QED
    BY <1>1, <2>2, <2>3, <2>4, <2>5, ReadsOnKeeps
<1>3. CASE ~(call[p].skipped < MaxSkipped)
  <2>1. Fail(p) /\ asked' \in Seq(Caller)
    BY <1>3 DEF Skip, IInv, RconTypeOK
  <2> QED
    BY <1>1, <2>1, FailKeeps
<1> QED
  BY <1>2, <1>3

(* A part of the reply.                                                    *)
LEMMA PartType ==
  ASSUME RconTypeOK, inbox # <<>>
  PROVE  /\ Head(inbox).pkt \in Packet
         /\ Part(Head(inbox).pkt) \in [id: Nat, part: {1, 2}]
<1>1. inbox \in Seq(Piece)
  BY DEF RconTypeOK
<1>2. Head(inbox) \in Piece
  BY <1>1
<1>3. Head(inbox).pkt \in Packet
  BY <1>2 DEF Piece
<1> QED
  BY <1>3 DEF Part, Packet

LEMMA AcceptKeeps ==
  ASSUME IInv, NEW p \in Caller, At(p, "payload"), inbox # <<>>,
         Accept(p, Head(inbox).pkt), UNCHANGED <<asked, ran>>
  PROVE  IInv'
<1> DEFINE pkt == Head(inbox).pkt
           out == <<Part(pkt)>>
<1>1. out \in Seq([id: Nat, part: {1, 2}])
  BY PartType DEF IInv
<1>2. inbox' \in Seq(Piece) /\ OnLink' \subseteq OnLink
  BY TailOnLink DEF IInv, Accept
<1>3. call[p].pc \in Busy \ {"attempt"}
  BY DEF At, Busy, Awaits
<1>4. CASE pkt.long
  <2> DEFINE c == [call[p] EXCEPT !.pc = "drain_length", !.output = out]
  <2>1. call \in [Caller -> Call]
    BY DEF IInv, RconTypeOK
  <2>2. "drain_length" \in {"idle", "end"} \cup Awaits
    BY DEF Awaits
  <2> HIDE DEF out
  <2>3. c \in Call
    BY <1>1, <2>1, <2>2 DEF Call
  <2>4. /\ call' = [call EXCEPT ![p] = c]
        /\ UNCHANGED <<holder, conn, requests, wire, adrift>>
    BY <1>4 DEF Accept, out
  <2>5. /\ c.pc = "drain_length" /\ c.attempt = call[p].attempt
        /\ c.fresh = call[p].fresh /\ c.id = call[p].id
        /\ c.result = call[p].result
    BY <2>1 DEF Call
  <2>6. c.pc \in Busy \ {"attempt"}
    BY <2>5 DEF Busy, Awaits
  <2> HIDE DEF c
  <2> QED
    BY <1>2, <1>3, <2>3, <2>4, <2>5, <2>6, ReadsOnKeeps
<1>5. CASE ~pkt.long
  <2>1. Return(p, "ok", out) /\ UNCHANGED <<conn, requests, wire, adrift>>
    BY <1>5 DEF Accept
  <2>2. "ok" \in Result \ {"error"}
    BY DEF Result
  <2> HIDE DEF out
  <2> QED
    BY <1>1, <1>2, <1>3, <2>1, <2>2, ReturnKeeps
<1> QED
  BY <1>4, <1>5

LEMMA ReadPayloadKeeps ==
  ASSUME IInv, NEW p \in Caller, ReadPayload(p)
  PROVE  IInv'
<1> DEFINE pkt == Head(inbox).pkt
<1>1. At(p, "payload") /\ inbox # <<>> /\ UNCHANGED <<asked, ran>>
  BY DEF ReadPayload
<1>2. CASE pkt.id = call[p].id
  BY <1>1, <1>2, AcceptKeeps DEF ReadPayload
<1>3. CASE pkt.id # call[p].id
  <2>1. Skip(p, Tail(inbox), FALSE)
    BY <1>3 DEF ReadPayload
  <2>2. inbox' = Tail(inbox) =>
          /\ inbox' \in Seq(Piece)
          /\ UNCHANGED <<requests, wire>> => OnLink' \subseteq OnLink
    <3>1. inbox \in Seq(Piece) /\ Tail(inbox) \in Seq(Piece)
      BY <1>1 DEF IInv, RconTypeOK
    <3> QED
      BY <1>1, <3>1, TailOnLink DEF IInv
  <2>3. call[p].pc \in {"length", "payload"}
    BY <1>1 DEF At
  <2> QED
    BY <1>1, <2>1, <2>2, <2>3, SkipKeeps
<1> QED
  BY <1>2, <1>3

LEMMA MisreadKeeps ==
  ASSUME IInv, NEW p \in Caller, Misread(p)
  PROVE  IInv'
<1>1. /\ call[p].pc \in {"length", "payload"} /\ call[p].pc # "attempt"
      /\ call[p].pc \in Busy
      /\ UNCHANGED <<asked, ran>>
  BY DEF Misread, At, Busy, Awaits
<1>2. CASE Fail(p)
  <2>1. asked' \in Seq(Caller)
    BY <1>1 DEF IInv, RconTypeOK
  <2> QED
    BY <1>1, <1>2, <2>1, FailKeeps
<1>3. CASE \E n \in 0 .. Len(inbox) :
             Skip(p, SubSeq(inbox, n + 1, Len(inbox)), TRUE)
  <2>1. PICK n \in 0 .. Len(inbox) :
          Skip(p, SubSeq(inbox, n + 1, Len(inbox)), TRUE)
    BY <1>3
  <2> DEFINE rest == SubSeq(inbox, n + 1, Len(inbox))
  <2>2. rest \in Seq(Piece)
    <3>1. inbox \in Seq(Piece) /\ n \in Nat
      BY DEF IInv, RconTypeOK
    <3>2. \A i \in n + 1 .. Len(inbox) : inbox[i] \in Piece
      BY <3>1
    <3> QED
      BY <3>1, <3>2
  <2>3. inbox' = rest =>
          /\ inbox' \in Seq(Piece)
          /\ UNCHANGED <<requests, wire>> => OnLink' \subseteq OnLink
    BY <2>2, CutOnLink DEF IInv
  <2> HIDE DEF rest
  <2>4. Skip(p, rest, TRUE)
    BY <2>1 DEF rest
  <2> QED
    BY <1>1, <2>3, <2>4, SkipKeeps
<1> QED
  BY <1>2, <1>3 DEF Misread

LEMMA ReadFailsKeeps ==
  ASSUME IInv, NEW p \in Caller, ReplyFails(p)
  PROVE  IInv'
<1>1. call[p].pc \in Busy /\ call[p].pc # "attempt"
  BY DEF ReplyFails, At, Busy, Awaits
<1>2. Fail(p) /\ ran' = ran /\ asked' \in Seq(Caller)
  BY DEF ReplyFails, IInv, RconTypeOK
<1> QED
  BY <1>1, <1>2, FailKeeps

LEMMA DrainPayloadKeeps ==
  ASSUME IInv, NEW p \in Caller, DrainPayload(p)
  PROVE  IInv'
<1> DEFINE pkt == Head(inbox).pkt
<1>1. /\ inbox # <<>> /\ inbox' = Tail(inbox)
      /\ UNCHANGED <<conn, requests, wire, adrift, asked, ran>>
      /\ call[p].pc \in Busy \ {"attempt"}
  BY DEF DrainPayload, At, Busy, Awaits
<1>2. inbox' \in Seq(Piece) /\ OnLink' \subseteq OnLink
  BY <1>1, TailOnLink DEF IInv
<1>3. /\ call \in [Caller -> Call]
      /\ call[p].output \in Seq([id: Nat, part: {1, 2}])
  BY DEF IInv, RconTypeOK, Call
<1>4. CASE pkt.id = call[p].id
  <2> DEFINE out == Append(call[p].output, Part(pkt))
             c == [call[p] EXCEPT !.pc = "drain_length", !.output = out]
  <2>1. out \in Seq([id: Nat, part: {1, 2}])
    BY <1>1, <1>3, PartType DEF IInv
  <2>2. /\ call' = [call EXCEPT ![p] = c]
        /\ UNCHANGED holder
    BY <1>4 DEF DrainPayload
  <2> HIDE DEF out
  <2>3. c \in Call
    <3>1. "drain_length" \in {"idle", "end"} \cup Awaits
      BY DEF Awaits
    <3> QED
      BY <1>3, <2>1, <3>1 DEF Call
  <2>4. /\ c.pc = "drain_length" /\ c.attempt = call[p].attempt
        /\ c.fresh = call[p].fresh /\ c.id = call[p].id
        /\ c.result = call[p].result
    BY <1>3 DEF Call
  <2>5. c.pc \in Busy \ {"attempt"}
    BY <2>4 DEF Busy, Awaits
  <2> HIDE DEF c
  <2> QED
    BY <1>1, <1>2, <2>2, <2>3, <2>4, <2>5, ReadsOnKeeps
<1>5. CASE pkt.id # call[p].id
  <2>1. Return(p, "ok", call[p].output) /\ "ok" \in Result \ {"error"}
    BY <1>5 DEF DrainPayload, Result
  <2> QED
    BY <1>1, <1>2, <1>3, <2>1, ReturnKeeps
<1> QED
  BY <1>4, <1>5

LEMMA DrainEndsKeeps ==
  ASSUME IInv, NEW p \in Caller, DrainEnds(p)
  PROVE  IInv'
<1>1. /\ call[p].pc \in Busy /\ "ok" \in Result \ {"error"}
      /\ Return(p, "ok", call[p].output)
      /\ UNCHANGED <<conn, requests, wire, inbox, adrift, asked, ran>>
  BY DEF DrainEnds, At, Busy, Awaits, Result, link
<1>2. call[p].output \in Seq([id: Nat, part: {1, 2}])
  BY DEF IInv, RconTypeOK, Call
<1>3. inbox' \in Seq(Piece) /\ OnLink' \subseteq OnLink
  BY <1>1 DEF IInv, RconTypeOK, OnLink, SentIds
<1> QED
  BY <1>1, <1>2, <1>3, ReturnKeeps

LEMMA DroppedKeeps ==
  ASSUME IInv, NEW p \in Caller, Dropped(p)
  PROVE  IInv'
<1> USE DEF IInv, Dropped, link
<1> DEFINE c == [call[p] EXCEPT !.pc = "end", !.result = "dropped"]
<1>1. call \in [Caller -> Call] /\ c \in Call
  BY DEF RconTypeOK, Call, Result
<1>2. /\ call' = [call EXCEPT ![p] = c] /\ call' \in [Caller -> Call]
      /\ call'[p] = c /\ c.pc = "end" /\ c.result = "dropped"
      /\ c.id = call[p].id
      /\ \A q \in Caller \ {p} : call'[q] = call[q]
  BY <1>1 DEF Call
<1> HIDE DEF c
<1>3. RconTypeOK'
  BY <1>2 DEF RconTypeOK
<1>4. Exclusive' /\ OwnRetry' /\ Unfinished' /\ LeftoversHarmless'
  BY <1>2 DEF Exclusive, OwnRetry, Unfinished, LeftoversHarmless, Busy, Awaits
<1>5. OnlyCurrent'
  <2> SUFFICES ASSUME NEW k \in OnLink' PROVE Current(k)'
    BY DEF OnlyCurrent
  <2>1. Current(k)
    BY DEF OnlyCurrent, OnLink, SentIds
  <2>2. asked[k] \in Caller
    BY <2>1 DEF Current, RconTypeOK
  <2> QED
    BY <1>2, <2>1, <2>2 DEF Current
<1> QED
  BY <1>3, <1>4, <1>5

----------------------------------------------------------------------------
(* The server and the network touch no call: the queues keep their types,  *)
(* and bring nothing to the connection that was not on it.                 *)
LEMMA ServerKeeps ==
  ASSUME IInv, UNCHANGED <<holder, asked, call>>,
         conn' \in {"none", "open", "dead"}, conn' = "none" <=> conn = "none",
         requests' \in Seq(Nat), wire' \in Seq(Piece), inbox' \in Seq(Piece),
         adrift' \subseteq Nat, ran' \subseteq Nat,
         OnLink' \subseteq OnLink
  PROVE  IInv'
<1> USE DEF IInv
<1>1. RconTypeOK'
  BY DEF RconTypeOK
<1>2. Exclusive' /\ OwnRetry' /\ Unfinished' /\ LeftoversHarmless'
  BY DEF Exclusive, OwnRetry, Unfinished, LeftoversHarmless
<1>3. OnlyCurrent'
  BY DEF OnlyCurrent, Current
<1> QED
  BY <1>1, <1>2, <1>3

LEMMA Concatenation ==
  ASSUME NEW S, NEW a \in Seq(S), NEW b \in Seq(S)
  PROVE  /\ a \o b \in Seq(S)
         /\ \A i \in DOMAIN (a \o b) :
              \/ i \in DOMAIN a /\ (a \o b)[i] = a[i]
              \/ i - Len(a) \in DOMAIN b /\ (a \o b)[i] = b[i - Len(a)]
<1>1. a \o b \in Seq(S) /\ Len(a \o b) = Len(a) + Len(b)
  OBVIOUS
<1>2. /\ \A i \in 1 .. Len(a) : (a \o b)[i] = a[i]
      /\ \A i \in Len(a) + 1 .. Len(a) + Len(b) : (a \o b)[i] = b[i - Len(a)]
  OBVIOUS
<1>3. Len(a) \in Nat /\ Len(b) \in Nat
  OBVIOUS
<1> QED
  BY <1>1, <1>2, <1>3

LEMMA AnswersType ==
  ASSUME NEW k \in Nat, NEW answer \in Answers(k)
  PROVE  /\ answer \in Seq(Piece)
         /\ \A i \in DOMAIN answer : answer[i].pkt.id = k
<1> DEFINE pkt(i, long) == [id |-> k, part |-> i, long |-> long]
<1>1. \A i \in {1, 2}, long \in BOOLEAN :
        /\ Pieces(pkt(i, long)) \in Seq(Piece)
        /\ Len(Pieces(pkt(i, long))) = 2
        /\ \A j \in 1 .. 2 : Pieces(pkt(i, long))[j].pkt.id = k
  BY DEF Pieces, Piece, Packet
<1>2. \/ answer = Pieces(pkt(1, FALSE))
      \/ answer = Pieces(pkt(1, TRUE))
      \/ answer = Pieces(pkt(1, TRUE)) \o Pieces(pkt(2, FALSE))
  BY DEF Answers
<1> HIDE DEF pkt
<1>3. CASE answer = Pieces(pkt(1, TRUE)) \o Pieces(pkt(2, FALSE))
  <2> DEFINE a == Pieces(pkt(1, TRUE))
             b == Pieces(pkt(2, FALSE))
  <2>1. /\ a \in Seq(Piece) /\ Len(a) = 2
        /\ \A j \in 1 .. 2 : a[j].pkt.id = k
        /\ b \in Seq(Piece) /\ Len(b) = 2
        /\ \A j \in 1 .. 2 : b[j].pkt.id = k
    BY <1>1
  <2> HIDE DEF a, b
  <2>2. answer = a \o b
    BY <1>3 DEF a, b
  <2>3. \A i \in DOMAIN a : i \in 1 .. 2
    BY <2>1
  <2>4. \A i \in DOMAIN b : i \in 1 .. 2
    BY <2>1
  <2>5. /\ answer \in Seq(Piece)
        /\ \A i \in DOMAIN answer :
             \/ i \in DOMAIN a /\ answer[i] = a[i]
             \/ i - Len(a) \in DOMAIN b /\ answer[i] = b[i - Len(a)]
    BY <2>1, <2>2, Concatenation
  <2> QED
    BY <2>1, <2>3, <2>4, <2>5
<1>4. CASE \E long \in BOOLEAN : answer = Pieces(pkt(1, long))
  BY <1>1, <1>4
<1> QED
  BY <1>2, <1>3, <1>4

LEMMA ServerRunsKeeps == IInv /\ ServerRuns => IInv'
<1> SUFFICES ASSUME IInv, ServerRuns PROVE IInv'
  OBVIOUS
<1> DEFINE k == Head(requests)
<1>1. requests \in Seq(Nat) /\ requests # <<>> /\ wire \in Seq(Piece)
  BY DEF IInv, RconTypeOK, ServerRuns
<1>2. /\ k \in Nat /\ k \in SentIds
      /\ requests' \in Seq(Nat) /\ SentIds' \subseteq SentIds
  <2>1. k = requests[1] /\ 1 \in DOMAIN requests /\ requests' = Tail(requests)
    BY <1>1 DEF ServerRuns
  <2>2. \A i \in DOMAIN requests' : i + 1 \in DOMAIN requests /\ requests'[i] = requests[i + 1]
    BY <1>1, <2>1
  <2> QED
    BY <1>1, <2>1, <2>2 DEF SentIds
<1>3. PICK answer \in Answers(k) : wire' = wire \o answer
  BY DEF ServerRuns
<1> HIDE DEF k
<1>4. /\ answer \in Seq(Piece)
      /\ \A i \in DOMAIN answer : answer[i].pkt.id = k
  BY <1>2, AnswersType
<1>5. wire' \in Seq(Piece)
  BY <1>1, <1>3, <1>4
<1>6. \A i \in DOMAIN wire' :
        \/ i \in DOMAIN wire /\ wire'[i] = wire[i]
        \/ wire'[i].pkt.id = k
  <2> SUFFICES ASSUME NEW i \in DOMAIN wire', i \notin DOMAIN wire
      PROVE wire'[i].pkt.id = k
    BY <1>1, <1>3, <1>4
  <2>1. i - Len(wire) \in DOMAIN answer /\ wire'[i] = answer[i - Len(wire)]
    BY <1>1, <1>3, <1>4
  <2> QED
    BY <1>4, <2>1
<1>7. OnLink' \subseteq OnLink
  BY <1>2, <1>6 DEF OnLink, ServerRuns
<1>8. ran' \subseteq Nat
  BY <1>2 DEF ServerRuns, IInv, RconTypeOK, k
<1> QED
  BY <1>2, <1>5, <1>7, <1>8, ServerKeeps DEF ServerRuns, IInv, RconTypeOK

LEMMA ServerRunsAdriftKeeps == IInv /\ ServerRunsAdrift => IInv'
<1> SUFFICES ASSUME IInv, ServerRunsAdrift PROVE IInv'
  OBVIOUS
<1>1. ran' \subseteq Nat /\ adrift' \subseteq Nat /\ OnLink' = OnLink
  BY DEF IInv, RconTypeOK, ServerRunsAdrift, OnLink, SentIds
<1> QED
  BY <1>1, ServerKeeps DEF ServerRunsAdrift, IInv, RconTypeOK

LEMMA ArriveKeeps == IInv /\ Arrive => IInv'
<1> SUFFICES ASSUME IInv, Arrive PROVE IInv'
  OBVIOUS
<1>1. wire \in Seq(Piece) /\ inbox \in Seq(Piece) /\ wire # <<>>
  BY DEF IInv, RconTypeOK, Arrive
<1>2. /\ Head(wire) = wire[1] /\ 1 \in DOMAIN wire /\ Head(wire) \in Piece
      /\ inbox' = Append(inbox, Head(wire)) /\ wire' = Tail(wire)
  BY <1>1 DEF Arrive
<1>3. inbox' \in Seq(Piece) /\ wire' \in Seq(Piece)
  BY <1>1, <1>2
<1>4. \A i \in DOMAIN wire' : i + 1 \in DOMAIN wire /\ wire'[i] = wire[i + 1]
  BY <1>1, <1>2
<1>5. \A i \in DOMAIN inbox' :
        \/ i \in DOMAIN inbox /\ inbox'[i] = inbox[i]
        \/ inbox'[i] = wire[1]
  BY <1>1, <1>2
<1>6. OnLink' \subseteq OnLink
  BY <1>2, <1>4, <1>5 DEF OnLink, SentIds, Arrive
<1> QED
  BY <1>3, <1>6, ServerKeeps DEF Arrive, IInv, RconTypeOK

LEMMA ServerClosesKeeps == IInv /\ ServerCloses => IInv'
<1> SUFFICES ASSUME IInv, ServerCloses PROVE IInv'
  OBVIOUS
<1>1. requests' = <<>> /\ wire' = <<>> /\ inbox' = inbox
  BY DEF ServerCloses
<1>2. requests' \in Seq(Nat) /\ wire' \in Seq(Piece) /\ OnLink' \subseteq OnLink
  BY <1>1 DEF OnLink, SentIds
<1>3. adrift' \subseteq Nat
  <2>1. requests \in Seq(Nat) /\ adrift \subseteq Nat
    BY DEF IInv, RconTypeOK
  <2>2. SentIds \subseteq Nat
    BY <2>1 DEF SentIds
  <2> QED
    BY <2>1, <2>2 DEF ServerCloses
<1> QED
  BY <1>2, <1>3, ServerKeeps DEF ServerCloses, IInv, RconTypeOK

----------------------------------------------------------------------------
LEMMA StepKeeps ==
  ASSUME IInv, NEW p \in Caller, Step(p)
  PROVE  IInv'
<1>1. {"length", "payload", "drain_length", "drain_payload"}
        \subseteq Busy \ {"attempt"}
  BY DEF Busy, Awaits
<1> QED
  BY <1>1, ConnectKeeps, RefusedKeeps, SendKeeps, SendFailsKeeps,
     ReadLengthKeeps, ReadPayloadKeeps, MisreadKeeps, ReadFailsKeeps,
     DrainPayloadKeeps, DrainEndsKeeps DEF Step

LEMMA IInvStep == IInv /\ [RconNext]_rconVars => IInv'
<1> SUFFICES ASSUME IInv, [RconNext]_rconVars PROVE IInv'
  OBVIOUS
<1>1. CASE UNCHANGED rconVars
  BY <1>1, ServerKeeps DEF rconVars, link, IInv, RconTypeOK, OnLink, SentIds
<1>2. CASE RconNext
  BY <1>2, StartKeeps, LockKeeps, StepKeeps, DroppedKeeps, ServerRunsKeeps,
     ServerRunsAdriftKeeps, ArriveKeeps, ServerClosesKeeps DEF RconNext
<1> QED
  BY <1>1, <1>2

LEMMA IInvHolds == RconSpec => []IInv
  BY IInvInit, IInvStep, PTL DEF RconSpec

(* The mutex, the connection and the calls keep their types.               *)
THEOREM RconTypeCorrect == RconSpec => []RconTypeOK
<1>1. IInv => RconTypeOK
  BY DEF IInv
<1> QED
  BY <1>1, IInvHolds, PTL

(* The mutex of RconClient: one call at a time works on the connection,    *)
(* wherever calls are dropped.                                             *)
THEOREM ExclusiveHolds == RconSpec => []Exclusive
<1>1. IInv => Exclusive
  BY DEF IInv
<1> QED
  BY <1>1, IInvHolds, PTL

(* execute_within fails a call only on a connection the call has opened:   *)
(* one retry is enough to get rid of anything others left.                 *)
THEOREM LeftoversHarmlessHolds == RconSpec => []LeftoversHarmless
<1>1. IInv => LeftoversHarmless
  BY DEF IInv
<1> QED
  BY <1>1, IInvHolds, PTL

(* "Drop it rather than leave a half-consumed response": what is on the    *)
(* connection is never from an attempt that failed.                        *)
THEOREM NothingLeftHolds == RconSpec => []NothingLeftByFailure
<1>1. IInv => NothingLeftByFailure
  BY DEF IInv, OnlyCurrent, Current, NothingLeftByFailure
<1> QED
  BY <1>1, IInvHolds, PTL


----------------------------------------------------------------------------
(* What is on its way to the callers, read and unread.  Rank numbers the   *)
(* pieces in the order in which they are written.                          *)
Queue == inbox \o wire

Rank(x) == 4 * x.pkt.id + 2 * x.pkt.part + IF x.first THEN 0 ELSE 1

Ordered(q) == \A i, j \in DOMAIN q : i < j => Rank(q[i]) < Rank(q[j])

Paired(q) == \A i, j \in DOMAIN q :
               j = i + 1 /\ q[i].first =>
                 q[j].pkt = q[i].pkt /\ ~q[j].first

(* The server answers in order, whole packets, what it has run.            *)
QueueInv ==
  /\ Ordered(Queue)
  /\ Paired(Queue)
  /\ conn = "open" /\ Queue # <<>> => ~Queue[Len(Queue)].first
  /\ conn = "none" => Queue = <<>>
  /\ \A i \in DOMAIN Queue : /\ Queue[i].pkt.id \in ran
                             /\ \A k \in SentIds : Queue[i].pkt.id < k
  /\ \A i, j \in DOMAIN requests : i < j => requests[i] < requests[j]

(* While nothing was misread, the second part of a call's reply is not     *)
(* without the first.                                                      *)
Reading(p) ==
  /\ call[p].id \in 1 .. Len(asked) /\ asked[call[p].id] = p
  /\ ~call[p].torn =>
       \A i \in DOMAIN Queue :
         Queue[i].pkt.id = call[p].id /\ Queue[i].pkt.part = 2 =>
           \E j \in DOMAIN Queue : /\ Queue[j].pkt.id = call[p].id
                                   /\ Queue[j].pkt.part = 1
                                   /\ ~Queue[j].first

(* What a call has read is a reply without a hole, ...                     *)
Reply(p) ==
  LET output == call[p].output IN
  /\ output # <<>>
  /\ \A i \in DOMAIN output :
       output[i] = [id |-> call[p].id, part |-> output[1].part + i - 1]
  /\ output[1].part = 1 \/ call[p].torn
  /\ call[p].id \in ran
  /\ call[p].id \in 1 .. Len(asked) /\ asked[call[p].id] = p

(* ... and what of it is still to come follows.                            *)
Draining(p) ==
  /\ Reply(p)
  /\ call[p].id \notin SentIds
  /\ \A i \in DOMAIN Queue :
       Queue[i].pkt.id = call[p].id =>
         Queue[i].pkt.part > call[p].output[Len(call[p].output)].part

(* After the length of a packet comes its payload, if anything.            *)
Aligned ==
  /\ conn = "open" => Queue # <<>>
  /\ Queue # <<>> => ~Queue[1].first

CallInv(p) ==
  /\ call[p].pc \in {"length", "payload"} => Reading(p)
  /\ call[p].pc \in {"drain_length", "drain_payload"} => Draining(p)
  /\ call[p].pc \in {"payload", "drain_payload"} => Aligned
  /\ call[p].result = "ok" => Reply(p)

RInv == IInv /\ QueueInv /\ \A p \in Caller : CallInv(p)

LEMMA QueueType ==
  ASSUME RconTypeOK
  PROVE  /\ Queue \in Seq(Piece)
         /\ Len(Queue) = Len(inbox) + Len(wire)
         /\ Len(inbox) \in Nat /\ Len(wire) \in Nat
         /\ DOMAIN Queue = 1 .. Len(inbox) + Len(wire)
         /\ \A i \in 1 .. Len(inbox) : Queue[i] = inbox[i]
         /\ \A i \in Len(inbox) + 1 .. Len(inbox) + Len(wire) :
              Queue[i] = wire[i - Len(inbox)]
<1>1. inbox \in Seq(Piece) /\ wire \in Seq(Piece)
  BY DEF RconTypeOK
<1> QED
  BY <1>1 DEF Queue

LEMMA NextQueueType ==
  ASSUME RconTypeOK'
  PROVE  /\ Queue' \in Seq(Piece)
         /\ Len(Queue') = Len(inbox') + Len(wire')
         /\ Len(inbox') \in Nat /\ Len(wire') \in Nat
         /\ DOMAIN Queue' = 1 .. Len(inbox') + Len(wire')
         /\ \A i \in 1 .. Len(inbox') : Queue'[i] = inbox'[i]
         /\ \A i \in Len(inbox') + 1 .. Len(inbox') + Len(wire') :
              Queue'[i] = wire'[i - Len(inbox')]
<1>1. inbox' \in Seq(Piece) /\ wire' \in Seq(Piece)
  BY DEF RconTypeOK
<1> QED
  BY <1>1 DEF Queue

LEMMA PieceType ==
  ASSUME RconTypeOK, NEW i \in DOMAIN Queue
  PROVE  /\ Queue[i] \in Piece
         /\ Queue[i].pkt.id \in Nat /\ Queue[i].pkt.part \in {1, 2}
         /\ Queue[i].first \in BOOLEAN
<1>1. Queue[i] \in Piece
  BY QueueType
<1> QED
  BY <1>1 DEF Piece, Packet

(* What is asked of a queue is as true of any stretch of it.               *)
Stretch(n) ==
  /\ Len(Queue') + n <= Len(Queue)
  /\ \A i \in DOMAIN Queue' : i + n \in DOMAIN Queue /\ Queue'[i] = Queue[i + n]

LEMMA StretchQueue ==
  ASSUME RInv, RconTypeOK', NEW n \in Nat, Stretch(n),
         ran \subseteq ran', SentIds' \subseteq SentIds,
         requests' = requests \/ requests' = <<>>,
         conn' = "open" => conn = "open" /\ Len(Queue') + n = Len(Queue),
         conn' = "none" => conn = "none"
  PROVE  QueueInv'
<1>q. RconTypeOK /\ QueueInv
  BY DEF RInv, IInv
<1>0. /\ \A i \in DOMAIN Queue : i \in Nat
      /\ \A i \in DOMAIN Queue' : i \in Nat
  BY <1>q, QueueType, NextQueueType
<1>1. Ordered(Queue')
  BY <1>0, <1>q DEF Stretch, Ordered, QueueInv
<1>2. Paired(Queue')
  <2> SUFFICES ASSUME NEW i \in DOMAIN Queue', NEW j \in DOMAIN Queue',
                      j = i + 1, Queue'[i].first
               PROVE  Queue'[j].pkt = Queue'[i].pkt /\ ~Queue'[j].first
    BY DEF Paired
  <2>1. /\ i + n \in DOMAIN Queue /\ Queue'[i] = Queue[i + n]
        /\ j + n \in DOMAIN Queue /\ Queue'[j] = Queue[j + n]
    BY DEF Stretch
  <2>2. j + n = (i + n) + 1
    BY <1>0
  <2> QED
    BY <1>q, <2>1, <2>2 DEF Paired, QueueInv
<1>3. conn' = "open" /\ Queue' # <<>> => ~Queue'[Len(Queue')].first
  <2> SUFFICES ASSUME conn' = "open", Queue' # <<>>
               PROVE  ~Queue'[Len(Queue')].first
    OBVIOUS
  <2>1. Queue \in Seq(Piece) /\ Queue' \in Seq(Piece)
    BY <1>q, QueueType, NextQueueType
  <2>2. Len(Queue') \in DOMAIN Queue' /\ Queue # <<>>
    BY <2>1 DEF Stretch
  <2>3. Queue'[Len(Queue')] = Queue[Len(Queue)]
    BY <2>1, <2>2 DEF Stretch
  <2> QED
    BY <1>q, <2>2, <2>3 DEF QueueInv
<1>4. \A i \in DOMAIN Queue' : /\ Queue'[i].pkt.id \in ran'
                               /\ \A k \in SentIds' : Queue'[i].pkt.id < k
  BY <1>q DEF Stretch, QueueInv
<1>5. \A i, j \in DOMAIN requests' : i < j => requests'[i] < requests'[j]
  BY <1>q DEF QueueInv
<1>6. conn' = "none" => Queue' = <<>>
  BY <1>q, QueueType, NextQueueType DEF Stretch, QueueInv
<1> QED
  BY <1>1, <1>2, <1>3, <1>4, <1>5, <1>6 DEF QueueInv

(* Nothing is on a connection that was given up.                           *)
LEMMA EmptyQueue ==
  ASSUME requests' = <<>>, wire' = <<>>, inbox' = <<>>
  PROVE  QueueInv'
<1>1. Queue' = <<>> /\ SentIds' = {}
  BY DEF Queue, SentIds
<1> QED
  BY <1>1 DEF QueueInv, Ordered, Paired

(* The first n pieces of the inbox are taken.                              *)
LEMMA CutQueue ==
  ASSUME RconTypeOK, RconTypeOK', NEW n \in 0 .. Len(inbox),
         Len(inbox') = Len(inbox) - n,
         \A i \in DOMAIN inbox' : inbox'[i] = inbox[i + n],
         UNCHANGED wire
  PROVE  Stretch(n) /\ Len(Queue') + n = Len(Queue)
<1>1. inbox \in Seq(Piece) /\ inbox' \in Seq(Piece)
  BY DEF RconTypeOK
<1>2. /\ DOMAIN Queue = 1 .. Len(inbox) + Len(wire)
      /\ DOMAIN Queue' = 1 .. Len(inbox') + Len(wire)
      /\ Len(Queue') = Len(inbox') + Len(wire)
      /\ Len(Queue) = Len(inbox) + Len(wire)
      /\ Len(inbox) \in Nat /\ Len(wire) \in Nat /\ Len(inbox') \in Nat
  BY <1>1, QueueType, NextQueueType
<1>3. ASSUME NEW i \in DOMAIN Queue'
      PROVE  i + n \in DOMAIN Queue /\ Queue'[i] = Queue[i + n]
  <2>1. i \in Nat /\ i + n \in DOMAIN Queue
    BY <1>2
  <2>2. CASE i \in 1 .. Len(inbox')
    <3>1. Queue'[i] = inbox'[i]
      BY <2>2, NextQueueType
    <3>2. i + n \in 1 .. Len(inbox) /\ i \in DOMAIN inbox'
      BY <1>1, <1>2, <2>2
    <3>3. Queue[i + n] = inbox[i + n]
      BY <3>2, QueueType
    <3> QED
      BY <2>1, <3>1, <3>2, <3>3
  <2>3. CASE i \in Len(inbox') + 1 .. Len(inbox') + Len(wire)
    <3>1. Queue'[i] = wire[i - Len(inbox')]
      BY <2>3, NextQueueType
    <3>2. i + n \in Len(inbox) + 1 .. Len(inbox) + Len(wire)
      BY <1>2, <2>3
    <3>3. Queue[i + n] = wire[(i + n) - Len(inbox)]
      BY <3>2, QueueType
    <3>4. (i + n) - Len(inbox) = i - Len(inbox')
      BY <1>2, <2>1
    <3> QED
      BY <2>1, <3>1, <3>3, <3>4
  <2> QED
    BY <1>2, <2>2, <2>3
<1> QED
  BY <1>2, <1>3 DEF Stretch

LEMMA TailQueue ==
  ASSUME RconTypeOK, RconTypeOK', inbox # <<>>, inbox' = Tail(inbox), UNCHANGED wire
  PROVE  /\ Stretch(1) /\ Len(Queue') + 1 = Len(Queue)
         /\ 1 \in DOMAIN Queue /\ Queue[1] = Head(inbox)
<1>1. inbox \in Seq(Piece)
  BY DEF RconTypeOK
<1>2. /\ 1 \in 0 .. Len(inbox) /\ Len(inbox') = Len(inbox) - 1
      /\ \A i \in DOMAIN inbox' : inbox'[i] = inbox[i + 1]
      /\ 1 \in 1 .. Len(inbox) /\ Head(inbox) = inbox[1]
  BY <1>1
<1>3. 1 \in DOMAIN Queue /\ Queue[1] = inbox[1]
  BY <1>2, QueueType
<1> QED
  BY <1>2, <1>3, CutQueue

LEMMA SameQueue ==
  ASSUME RInv, RconTypeOK', UNCHANGED <<conn, requests, wire, inbox>>, ran \subseteq ran'
  PROVE  QueueInv'
BY DEF RInv, QueueInv, Queue, SentIds

(* What is on the connection was asked for.                                *)
LEMMA QueueIds ==
  ASSUME RInv
  PROVE  /\ \A i \in DOMAIN Queue : Queue[i].pkt.id \in 1 .. Len(asked)
         /\ \A k \in SentIds : k \in 1 .. Len(asked)
<1>1. RconTypeOK /\ OnlyCurrent
  BY DEF RInv, IInv
<1>2. inbox \in Seq(Piece) /\ wire \in Seq(Piece)
  BY <1>1 DEF RconTypeOK
<1>3. ASSUME NEW i \in DOMAIN Queue PROVE Queue[i].pkt.id \in OnLink
  <2>1. CASE i \in 1 .. Len(inbox)
    <3>1. i \in DOMAIN inbox /\ Queue[i] = inbox[i]
      BY <1>1, <1>2, <2>1, QueueType
    <3> QED
      BY <3>1 DEF OnLink
  <2>2. CASE i \in Len(inbox) + 1 .. Len(inbox) + Len(wire)
    <3>1. i - Len(inbox) \in DOMAIN wire /\ Queue[i] = wire[i - Len(inbox)]
      BY <1>1, <1>2, <2>2, QueueType
    <3> QED
      BY <3>1 DEF OnLink
  <2> QED
    BY <1>1, <2>1, <2>2, QueueType
<1> QED
  BY <1>1, <1>3 DEF OnlyCurrent, Current, OnLink

(* More requests are made, and run, and no reply changes.                  *)
Asking == asked' = asked \/ \E r \in Caller : asked' = Append(asked, r)

LEMMA ReplyKept ==
  ASSUME RconTypeOK, NEW q \in Caller, Reply(q),
         call'[q].output = call[q].output, call'[q].id = call[q].id,
         call'[q].torn = call[q].torn, ran \subseteq ran', Asking
  PROVE  Reply(q)'
<1>1. asked \in Seq(Caller)
  BY DEF RconTypeOK
<1>2. /\ call[q].id \in 1 .. Len(asked') /\ asked'[call[q].id] = asked[call[q].id]
  BY <1>1 DEF Asking, Reply
<1> QED
  BY <1>2 DEF Reply

(* While one call has the connection, the others are at rest.              *)
LEMMA OthersKept ==
  ASSUME RInv, NEW p \in Caller, call[p].pc \in Busy,
         \A q \in Caller \ {p} : call'[q] = call[q],
         ran \subseteq ran', Asking
  PROVE  \A q \in Caller \ {p} : CallInv(q)'
<1> SUFFICES ASSUME NEW q \in Caller \ {p} PROVE CallInv(q)'
  OBVIOUS
<1>1. call'[q] = call[q] /\ call[q].pc \notin Busy /\ CallInv(q) /\ RconTypeOK
  BY DEF RInv, IInv, Exclusive
<1>2. call[q].result = "ok" => Reply(q)'
  BY <1>1, ReplyKept DEF CallInv
<1> QED
  BY <1>1, <1>2 DEF CallInv, Busy, Awaits

(* A call that is not on the connection says nothing of it.                *)
LEMMA AtRest ==
  ASSUME NEW q \in Caller, call'[q].result # "ok",
         call'[q].pc \in {"idle", "lock", "attempt", "end"}
  PROVE  CallInv(q)'
BY DEF CallInv

LEMMA FailRInv ==
  ASSUME RInv, IInv', NEW p \in Caller, call[p].pc \in Busy, Fail(p),
         ran' = ran, Asking
  PROVE  RInv'
<1>1. call \in [Caller -> Call] /\ call[p].result = "none"
  BY DEF RInv, IInv, RconTypeOK, Unfinished, Busy, Awaits
<1>2. QueueInv'
  BY EmptyQueue DEF Fail, Disconnect
<1>3. \A q \in Caller \ {p} : call'[q] = call[q]
  BY <1>1 DEF Fail, Return
<1>4. CallInv(p)'
  <2>1. call'[p].result # "ok" /\ call'[p].pc \in {"attempt", "end"}
    BY <1>1 DEF Fail, Return, Call
  <2> QED
    BY <2>1, AtRest
<1> QED
  BY <1>2, <1>3, <1>4, OthersKept DEF RInv

(* A call starts, waits, gets the mutex or is dropped: the connection and  *)
(* the other calls stay as they are.                                       *)
LEMMA AsideRInv ==
  ASSUME RInv, IInv', NEW p \in Caller, UNCHANGED <<link, asked, ran>>,
         \A q \in Caller \ {p} : call'[q] = call[q],
         CallInv(p)'
  PROVE  RInv'
<1>1. QueueInv'
  BY SameQueue DEF RInv, IInv, link
<1>2. ASSUME NEW q \in Caller \ {p} PROVE CallInv(q)'
  <2>1. CallInv(q) /\ call'[q] = call[q]
    BY DEF RInv
  <2>2. UNCHANGED <<conn, requests, Queue, SentIds, asked, ran>>
    BY DEF link, Queue, SentIds
  <2>3. /\ Reading(q) => Reading(q)'
        /\ Reply(q) => Reply(q)'
        /\ Aligned => Aligned'
    BY <2>1, <2>2 DEF Reading, Reply, Aligned
  <2>4. Draining(q) => Draining(q)'
    BY <2>1, <2>2, <2>3 DEF Draining
  <2> QED
    BY <2>1, <2>3, <2>4 DEF CallInv
<1> QED
  BY <1>1, <1>2 DEF RInv

LEMMA OutsideRInv ==
  ASSUME RInv, IInv', NEW p \in Caller, Start(p) \/ Lock(p) \/ Dropped(p)
  PROVE  RInv'
<1>1. call \in [Caller -> Call] /\ Unfinished
  BY DEF RInv, IInv, RconTypeOK
<1>2. /\ UNCHANGED <<link, asked, ran>>
      /\ \A q \in Caller \ {p} : call'[q] = call[q]
      /\ call'[p].result # "ok"
      /\ call'[p].pc \in {"idle", "lock", "attempt", "end"}
  <2>1. CASE Start(p)
    BY <1>1, <2>1 DEF Start, At, Goto, Unfinished, Call
  <2>2. CASE Lock(p)
    BY <1>1, <2>2 DEF Lock, At, Goto, Unfinished, Call
  <2>3. CASE Dropped(p)
    BY <1>1, <2>3 DEF Dropped, Call
  <2> QED
    BY <2>1, <2>2, <2>3
<1>3. CallInv(p)'
  BY <1>2, AtRest
<1> QED
  BY <1>2, <1>3, AsideRInv

LEMMA ConnectRInv ==
  ASSUME RInv, IInv', NEW p \in Caller, Connect(p)
  PROVE  RInv'
<1>1. call \in [Caller -> Call] /\ call[p].pc = "attempt"
      /\ call[p].result = "none" /\ call[p].pc \in Busy
  BY DEF RInv, IInv, RconTypeOK, Unfinished, Connect, At, Busy, Awaits
<1>2. /\ \A q \in Caller \ {p} : call'[q] = call[q]
      /\ call'[p].pc = "attempt" /\ call'[p].result = "none"
      /\ ran' = ran /\ Asking
  BY <1>1 DEF Connect, Call, Asking
<1>3. CallInv(p)'
  BY <1>2, AtRest
<1>4. QueueInv'
  <2>1. Queue = <<>> /\ Queue' = Queue /\ conn' = "open" /\ requests' = requests
    BY DEF Connect, Queue, RInv, QueueInv
  <2> QED
    BY <2>1 DEF RInv, QueueInv, Ordered, Paired
<1> QED
  BY <1>1, <1>2, <1>3, <1>4, OthersKept DEF RInv

(* A call that ends without a reply, ...                                   *)
LEMMA QuietEndRInv ==
  ASSUME RInv, IInv', NEW p \in Caller, SendFails(p) \/ ReplyFails(p) \/ Refused(p)
  PROVE  RInv'
<1>1. call[p].pc \in Busy /\ call[p].result = "none" /\ call \in [Caller -> Call]
  BY DEF RInv, IInv, RconTypeOK, Unfinished, SendFails, ReplyFails, Refused, At,
         Busy, Awaits
<1>2. CASE SendFails(p) \/ ReplyFails(p)
  <2>1. Fail(p) /\ ran' = ran /\ Asking
    BY <1>2 DEF SendFails, ReplyFails, Asking
  <2> QED
    BY <1>1, <2>1, FailRInv
<1>3. CASE Refused(p)
  <2>1. /\ UNCHANGED <<link, asked, ran>>
        /\ \A q \in Caller \ {p} : call'[q] = call[q]
        /\ call'[p].result = "refused" /\ call'[p].pc = "end"
    BY <1>1, <1>3 DEF Refused, Return, Call
  <2>2. CallInv(p)'
    BY <2>1, AtRest
  <2> QED
    BY <2>1, <2>2, AsideRInv
<1> QED
  BY <1>2, <1>3

(* ... or with one.                                                        *)
LEMMA DrainEndsRInv ==
  ASSUME RInv, IInv', NEW p \in Caller, DrainEnds(p)
  PROVE  RInv'
<1>1. /\ call \in [Caller -> Call] /\ RconTypeOK
      /\ call[p].pc \in {"drain_length", "drain_payload"}
  BY DEF RInv, IInv, RconTypeOK, DrainEnds, At
<1>2. /\ UNCHANGED <<link, asked, ran>> /\ Asking /\ ran \subseteq ran'
      /\ \A q \in Caller \ {p} : call'[q] = call[q]
      /\ call'[p].pc = "end" /\ call'[p].output = call[p].output
      /\ call'[p].id = call[p].id /\ call'[p].torn = call[p].torn
  BY <1>1 DEF DrainEnds, Return, Call, Asking
<1>3. Reply(p)
  BY <1>1 DEF RInv, CallInv, Draining
<1>4. CallInv(p)'
  BY <1>1, <1>2, <1>3, ReplyKept DEF CallInv
<1> QED
  BY <1>2, <1>4, AsideRInv

LEMMA SendRInv ==
  ASSUME RInv, IInv', NEW p \in Caller, Send(p)
  PROVE  RInv'
<1> DEFINE new == Len(asked) + 1
<1>1. /\ RconTypeOK /\ call \in [Caller -> Call] /\ asked \in Seq(Caller)
      /\ requests \in Seq(Nat)
      /\ call[p].pc = "attempt" /\ call[p].pc \in Busy
      /\ call[p].result = "none" /\ QueueInv
  BY DEF RInv, IInv, RconTypeOK, Unfinished, Send, At, Busy, Awaits
<1>2. /\ \A q \in Caller \ {p} : call'[q] = call[q]
      /\ call'[p].pc = "length" /\ call'[p].id = new
      /\ call'[p].result = "none"
      /\ ran' = ran /\ Asking /\ asked' = Append(asked, p)
      /\ UNCHANGED <<conn, wire, inbox>>
  BY <1>1 DEF Send, Call, Asking
<1>3. Queue' = Queue
  BY <1>2 DEF Queue
<1>4. QueueInv'
  <2>1. /\ \A i \in DOMAIN Queue : Queue[i].pkt.id \in 1 .. Len(asked)
        /\ \A k \in SentIds : k \in 1 .. Len(asked)
    BY QueueIds
  <2>2. requests' = requests \/ requests' = Append(requests, new)
    BY DEF Send
  <2>3. SentIds' \subseteq SentIds \cup {new}
    <3> HIDE DEF new
    <3>1. \A i \in DOMAIN requests' : \/ i \in DOMAIN requests /\ requests'[i] = requests[i]
                                 \/ requests'[i] = new
      BY <1>1, <2>2
    <3> QED
      BY <3>1 DEF SentIds
  <2>4. Len(asked) \in Nat
    BY <1>1
  <2>5. \A i \in DOMAIN Queue : \A k \in SentIds' : Queue[i].pkt.id < k
    BY <1>1, <2>1, <2>3, <2>4 DEF QueueInv
  <2>6. \A i, j \in DOMAIN requests' : i < j => requests'[i] < requests'[j]
    <3>1. \A i \in DOMAIN requests : requests[i] \in 1 .. Len(asked)
      BY <2>1 DEF SentIds
    <3>2. \A i, j \in DOMAIN requests : i < j => requests[i] < requests[j]
      BY <1>1 DEF QueueInv
    <3>3. CASE requests' = Append(requests, new)
      <4> SUFFICES ASSUME NEW i \in DOMAIN requests', NEW j \in DOMAIN requests', i < j
                   PROVE  requests'[i] < requests'[j]
        OBVIOUS
      <4>1. i \in DOMAIN requests /\ requests'[i] = requests[i]
        BY <1>1, <3>3
      <4>2. CASE j \in DOMAIN requests
        BY <1>1, <3>2, <3>3, <4>1, <4>2
      <4>3. CASE j \notin DOMAIN requests
        BY <1>1, <2>4, <3>1, <3>3, <4>1, <4>3
      <4> QED
        BY <4>2, <4>3
    <3> QED
      BY <2>2, <3>2, <3>3
  <2> QED
    BY <1>1, <1>2, <1>3, <2>5, <2>6 DEF QueueInv
<1>5. CallInv(p)'
  <2>1. \A i \in DOMAIN Queue : Queue[i].pkt.id # new
    BY <1>1, QueueIds
  <2>2. new \in 1 .. Len(asked') /\ asked'[new] = p
    BY <1>1, <1>2
  <2> HIDE DEF new
  <2>3. Reading(p)'
    BY <1>2, <1>3, <2>1, <2>2 DEF Reading
  <2> QED
    BY <1>2, <2>3 DEF CallInv
<1> QED
  BY <1>1, <1>2, <1>4, <1>5, OthersKept DEF RInv

----------------------------------------------------------------------------
(* One piece is read: what is asked of the reader holds of the rest.       *)
PieceRead ==
  /\ inbox # <<>> /\ inbox' = Tail(inbox)
  /\ UNCHANGED <<conn, requests, wire, asked, ran>>

LEMMA PieceReadQueue ==
  ASSUME RInv, IInv', PieceRead
  PROVE  /\ QueueInv'
         /\ Stretch(1) /\ Len(Queue') + 1 = Len(Queue)
         /\ 1 \in DOMAIN Queue /\ Queue[1] = Head(inbox)
         /\ SentIds' = SentIds /\ Asking
<1>1. RconTypeOK /\ RconTypeOK'
  BY DEF RInv, IInv
<1>2. /\ Stretch(1) /\ Len(Queue') + 1 = Len(Queue)
      /\ 1 \in DOMAIN Queue /\ Queue[1] = Head(inbox)
  BY <1>1, TailQueue DEF PieceRead
<1>3. SentIds' = SentIds /\ Asking
  BY DEF PieceRead, SentIds, Asking
<1> QED
  BY <1>1, <1>2, <1>3, StretchQueue DEF PieceRead

LEMMA ReadingKept ==
  ASSUME RInv, IInv', NEW p \in Caller, Reading(p), PieceRead,
         Queue[1].first \/ Queue[1].pkt.id # call[p].id,
         call'[p].id = call[p].id, call'[p].torn = call[p].torn
  PROVE  Reading(p)'
<1>1. RconTypeOK /\ RconTypeOK'
  BY DEF RInv, IInv
<1>2. CASE ~call[p].torn
  <2> SUFFICES ASSUME NEW i \in DOMAIN Queue',
                      Queue'[i].pkt.id = call[p].id, Queue'[i].pkt.part = 2
               PROVE  \E j \in DOMAIN Queue' : /\ Queue'[j].pkt.id = call[p].id
                                               /\ Queue'[j].pkt.part = 1
                                               /\ ~Queue'[j].first
    BY DEF Reading, PieceRead
  <2>1. i + 1 \in DOMAIN Queue /\ Queue'[i] = Queue[i + 1]
    BY PieceReadQueue DEF Stretch
  <2>2. PICK j \in DOMAIN Queue : /\ Queue[j].pkt.id = call[p].id
                                  /\ Queue[j].pkt.part = 1
                                  /\ ~Queue[j].first
    BY <1>2, <2>1 DEF Reading
  <2>3. j # 1
    BY <2>2
  <2>4. j - 1 \in DOMAIN Queue' /\ (j - 1) + 1 = j
    BY <1>1, <2>3, PieceReadQueue, QueueType, NextQueueType
  <2>5. Queue'[j - 1] = Queue[j]
    BY <2>4, PieceReadQueue DEF Stretch
  <2> QED
    BY <2>2, <2>4, <2>5
<1>3. CASE call[p].torn
  BY <1>3 DEF Reading, PieceRead
<1> QED
  BY <1>2, <1>3

LEMMA DrainingKept ==
  ASSUME RInv, IInv', NEW p \in Caller, Draining(p), PieceRead,
         call'[p].id = call[p].id, call'[p].torn = call[p].torn,
         call'[p].output = call[p].output
  PROVE  Draining(p)'
<1>1. Reply(p)'
  BY PieceReadQueue, ReplyKept DEF RInv, IInv, Draining, PieceRead
<1>2. \A i \in DOMAIN Queue' :
        Queue'[i].pkt.id = call'[p].id =>
          Queue'[i].pkt.part > call'[p].output[Len(call'[p].output)].part
  BY PieceReadQueue DEF Draining, Stretch
<1> QED
  BY <1>1, <1>2, PieceReadQueue DEF Draining

(* Behind the length of a packet is its payload, at once or later.         *)
LEMMA AlignedNow ==
  ASSUME RInv, IInv', PieceRead, Queue[1].first
  PROVE  Aligned'
<1>1. RconTypeOK /\ RconTypeOK' /\ QueueInv
  BY DEF RInv, IInv
<1>2. /\ Queue \in Seq(Piece) /\ Queue' \in Seq(Piece)
      /\ Len(Queue') + 1 = Len(Queue) /\ 1 \in DOMAIN Queue
  BY <1>1, QueueType, NextQueueType, PieceReadQueue
<1>3. conn' = "open" => Queue' # <<>>
  <2> SUFFICES ASSUME conn = "open", Queue' = <<>> PROVE FALSE
    BY DEF PieceRead
  <2>1. Len(Queue) = 1 /\ Queue # <<>>
    BY <1>2
  <2> QED
    BY <1>1, <2>1 DEF QueueInv
<1>4. ASSUME Queue' # <<>> PROVE ~Queue'[1].first
  <2>1. 1 \in DOMAIN Queue'
    BY <1>2, <1>4
  <2>2. 2 \in DOMAIN Queue /\ Queue'[1] = Queue[2]
    BY <1>2, <2>1, PieceReadQueue DEF Stretch
  <2>3. Paired(Queue) /\ 2 = 1 + 1
    BY <1>1 DEF QueueInv
  <2>4. ~Queue[2].first
    BY <1>2, <2>2, <2>3 DEF Paired
  <2> QED
    BY <2>2, <2>4
<1> QED
  BY <1>3, <1>4 DEF Aligned

LEMMA ReadLengthRInv ==
  ASSUME RInv, IInv', NEW p \in Caller,
         \/ ReadLength(p, "length", "payload")
         \/ ReadLength(p, "drain_length", "drain_payload")
  PROVE  RInv'
<1>1. /\ RconTypeOK /\ call \in [Caller -> Call] /\ call[p].pc \in Busy
      /\ call[p].pc \in {"length", "drain_length"}
      /\ call[p].result = "none" /\ CallInv(p)
  BY DEF RInv, IInv, RconTypeOK, Unfinished, ReadLength, At, Busy, Awaits
<1>2. /\ \A q \in Caller \ {p} : call'[q] = call[q]
      /\ \/ call[p].pc = "length" /\ call'[p].pc = "payload"
         \/ call[p].pc = "drain_length" /\ call'[p].pc = "drain_payload"
      /\ call'[p].id = call[p].id /\ call'[p].torn = call[p].torn
      /\ call'[p].output = call[p].output /\ call'[p].result = "none"
      /\ PieceRead /\ Head(inbox).first
  BY <1>1 DEF ReadLength, At, Goto, Call, PieceRead
<1>3. QueueInv' /\ Queue[1].first /\ Asking /\ ran \subseteq ran'
  BY <1>2, PieceReadQueue DEF PieceRead
<1>4. Aligned'
  BY <1>2, <1>3, AlignedNow
<1>5. CallInv(p)'
  <2>1. CASE call[p].pc = "length" /\ call'[p].pc = "payload"
    <3>1. Reading(p)'
      BY <1>1, <1>2, <1>3, <2>1, ReadingKept DEF CallInv
    <3> QED
      BY <1>2, <1>4, <2>1, <3>1 DEF CallInv
  <2>2. CASE call[p].pc = "drain_length" /\ call'[p].pc = "drain_payload"
    <3>1. Draining(p)'
      BY <1>1, <1>2, <2>2, DrainingKept DEF CallInv
    <3> QED
      BY <1>2, <1>4, <2>2, <3>1 DEF CallInv
  <2> QED
    BY <1>2, <2>1, <2>2
<1> QED
  BY <1>1, <1>2, <1>3, <1>5, OthersKept DEF RInv

(* Skipping moves the reader to the beginning of a packet.                 *)
Skipped(rest) ==
  inbox' = rest /\ UNCHANGED <<holder, conn, requests, wire, adrift>>

LEMMA SkipRInv ==
  ASSUME RInv, IInv', NEW p \in Caller, call[p].pc \in {"length", "payload"},
         NEW rest, NEW torn \in BOOLEAN, Skip(p, rest, torn),
         UNCHANGED <<asked, ran>>,
         Skipped(rest) => QueueInv',
         Skipped(rest) =>
           (call'[p].id = call[p].id => (call'[p].torn = (call[p].torn \/ torn)
             => Reading(p)'))
  PROVE  RInv'
<1>1. /\ call \in [Caller -> Call] /\ call[p].pc \in Busy
      /\ call[p].result = "none" /\ Asking
  BY DEF RInv, IInv, RconTypeOK, Unfinished, Busy, Awaits, Asking
<1>2. CASE Fail(p)
  BY <1>1, <1>2, FailRInv
<1>3. CASE /\ call' = [call EXCEPT ![p].pc = "length", ![p].skipped = @ + 1,
                                   ![p].torn = @ \/ torn]
           /\ Skipped(rest)
  <2>1. /\ \A q \in Caller \ {p} : call'[q] = call[q]
        /\ call'[p].pc = "length" /\ call'[p].result = "none"
        /\ call'[p].id = call[p].id /\ call'[p].torn = (call[p].torn \/ torn)
    BY <1>1, <1>3 DEF Call
  <2>2. QueueInv' /\ Reading(p)'
    BY <1>3, <2>1
  <2>3. CallInv(p)'
    BY <2>1, <2>2 DEF CallInv
  <2> QED
    BY <1>1, <2>1, <2>2, <2>3, OthersKept DEF RInv
<1> QED
  BY <1>2, <1>3 DEF Skip, Skipped

LEMMA MisreadRInv ==
  ASSUME RInv, IInv', NEW p \in Caller, Misread(p)
  PROVE  RInv'
<1>1. /\ call[p].pc = "length" /\ call[p].pc \in Busy /\ CallInv(p)
      /\ UNCHANGED <<asked, ran>> /\ Asking
      /\ RconTypeOK /\ RconTypeOK' /\ inbox \in Seq(Piece) /\ TRUE \in BOOLEAN
  BY DEF RInv, IInv, RconTypeOK, Misread, At, Busy, Awaits, Asking
<1>2. CASE Fail(p)
  BY <1>1, <1>2, FailRInv
<1>3. ASSUME NEW n \in 0 .. Len(inbox),
             Skip(p, SubSeq(inbox, n + 1, Len(inbox)), TRUE)
      PROVE  RInv'
  <2> DEFINE rest == SubSeq(inbox, n + 1, Len(inbox))
  <2>1. ASSUME Skipped(rest) PROVE QueueInv'
    <3>0. inbox' = rest /\ UNCHANGED <<conn, requests, wire>>
      BY <2>1 DEF Skipped
    <3>1. /\ Len(inbox') = Len(inbox) - n
          /\ \A i \in DOMAIN inbox' : inbox'[i] = inbox[i + n]
      BY <1>1, <3>0
    <3>2. Stretch(n) /\ Len(Queue') + n = Len(Queue) /\ n \in Nat
      BY <1>1, <3>0, <3>1, CutQueue
    <3>3. SentIds' = SentIds
      BY <3>0 DEF SentIds
    <3> QED
      BY <1>1, <3>0, <3>2, <3>3, StretchQueue
  <2>2. call'[p].id = call[p].id => (call'[p].torn = (call[p].torn \/ TRUE)
          => Reading(p)')
    BY <1>1 DEF Reading, CallInv
  <2> HIDE DEF rest
  <2>3. Skip(p, rest, TRUE)
    BY <1>3 DEF rest
  <2> QED
    BY <1>1, <2>1, <2>2, <2>3, SkipRInv
<1> QED
  BY <1>2, <1>3 DEF Misread

(* The payload of the reply: of a reply that was not torn, the first part. *)
LEMMA AcceptRInv ==
  ASSUME RInv, IInv', NEW p \in Caller, At(p, "payload"), inbox # <<>>,
         Head(inbox).pkt.id = call[p].id, Accept(p, Head(inbox).pkt),
         UNCHANGED <<asked, ran>>
  PROVE  RInv'
<1> DEFINE pkt == Head(inbox).pkt
           out == <<Part(pkt)>>
<1>1. /\ RconTypeOK /\ call \in [Caller -> Call] /\ call[p].pc = "payload"
      /\ call[p].pc \in Busy /\ call[p].result = "none" /\ CallInv(p) /\ QueueInv
  BY DEF RInv, IInv, RconTypeOK, Unfinished, At, Busy, Awaits
<1>2. PieceRead
  BY DEF Accept, PieceRead
<1>3. /\ \A q \in Caller \ {p} : call'[q] = call[q]
      /\ call'[p].id = call[p].id /\ call'[p].torn = call[p].torn
      /\ call'[p].output = out
      /\ \/ call'[p].pc = "drain_length" /\ call'[p].result = "none"
         \/ call'[p].pc = "end" /\ call'[p].result = "ok"
  <2> HIDE DEF out
  <2>1. CASE pkt.long
    BY <1>1, <2>1 DEF Accept, Call, out
  <2>2. CASE ~pkt.long
    BY <1>1, <2>2 DEF Accept, Return, Call, out
  <2> QED
    BY <2>1, <2>2
<1>4. /\ QueueInv' /\ Asking /\ SentIds' = SentIds /\ ran \subseteq ran'
      /\ Stretch(1) /\ 1 \in DOMAIN Queue /\ Queue[1] = Head(inbox)
  BY <1>2, PieceReadQueue DEF PieceRead
<1>5. /\ pkt.id = call[p].id /\ pkt.part \in {1, 2} /\ pkt.id \in Nat
      /\ ~Queue[1].first
  <2>1. Aligned /\ Queue # <<>>
    BY <1>1, <1>4 DEF CallInv
  <2> QED
    BY <1>1, <1>4, <2>1, PieceType DEF Aligned
<1>6. out # <<>> /\ DOMAIN out = {1} /\ Len(out) = 1
      /\ out[1] = [id |-> call[p].id, part |-> pkt.part]
  BY <1>5 DEF Part
<1>7. Reading(p)
  BY <1>1 DEF CallInv
<1>8. pkt.part = 1 \/ call[p].torn
  <2> SUFFICES ASSUME pkt.part = 2, ~call[p].torn PROVE FALSE
    BY <1>5
  <2>1. PICK j \in DOMAIN Queue : /\ Queue[j].pkt.id = call[p].id
                                  /\ Queue[j].pkt.part = 1
                                  /\ ~Queue[j].first
    BY <1>4, <1>5, <1>7 DEF Reading
  <2>2. Rank(Queue[j]) = 4 * call[p].id + 3
    BY <1>5, <2>1 DEF Rank
  <2>3. Rank(Queue[1]) = 4 * call[p].id + 5
    BY <1>4, <1>5 DEF Rank
  <2>4. j # 1 => Rank(Queue[1]) < Rank(Queue[j])
    <3>1. j \in Nat /\ j >= 1
      BY <1>1, QueueType
    <3> QED
      BY <1>1, <1>4, <3>1 DEF QueueInv, Ordered
  <2>5. j # 1
    BY <1>4, <2>1
  <2>6. call[p].id \in Nat
    BY <1>5
  <2> QED
    BY <2>2, <2>3, <2>4, <2>5, <2>6
<1>9. call[p].id \in ran /\ call[p].id \notin SentIds
  BY <1>1, <1>4, <1>5 DEF QueueInv
<1> HIDE DEF out
<1>10. Reply(p)'
  <2>1. \A i \in DOMAIN out :
          out[i] = [id |-> call[p].id, part |-> out[1].part + i - 1]
    BY <1>5, <1>6
  <2>2. out[1].part = 1 \/ call[p].torn
    BY <1>6, <1>8
  <2> QED
    BY <1>3, <1>4, <1>6, <1>7, <1>9, <2>1, <2>2 DEF Reply, Reading, PieceRead
<1>11. ASSUME NEW i \in DOMAIN Queue', Queue'[i].pkt.id = call[p].id
       PROVE  Queue'[i].pkt.part > pkt.part
  <2>1. i + 1 \in DOMAIN Queue /\ Queue'[i] = Queue[i + 1] /\ i \in Nat /\ i > 0
    BY <1>4, NextQueueType DEF Stretch, RInv, IInv
  <2>2. Rank(Queue[1]) < Rank(Queue[i + 1])
    BY <1>1, <1>4, <2>1 DEF QueueInv, Ordered
  <2>3. Queue[i + 1].pkt.part \in {1, 2} /\ Queue[i + 1].pkt.id = call[p].id
    BY <1>1, <1>11, <2>1, PieceType
  <2> QED
    BY <1>4, <1>5, <2>1, <2>2, <2>3 DEF Rank
<1>12. CallInv(p)'
  <2>1. CASE call'[p].pc = "drain_length" /\ call'[p].result = "none"
    <3>1. Draining(p)'
      BY <1>3, <1>4, <1>6, <1>9, <1>10, <1>11 DEF Draining
    <3> QED
      BY <2>1, <3>1 DEF CallInv
  <2>2. CASE call'[p].pc = "end" /\ call'[p].result = "ok"
    BY <1>10, <2>2 DEF CallInv
  <2> QED
    BY <1>3, <2>1, <2>2
<1> QED
  BY <1>1, <1>3, <1>4, <1>12, OthersKept DEF RInv

LEMMA ReadPayloadRInv ==
  ASSUME RInv, IInv', NEW p \in Caller, ReadPayload(p)
  PROVE  RInv'
<1> DEFINE pkt == Head(inbox).pkt
<1>1. /\ At(p, "payload") /\ inbox # <<>> /\ UNCHANGED <<asked, ran>>
      /\ call[p].pc \in {"length", "payload"} /\ FALSE \in BOOLEAN
      /\ CallInv(p)
  BY DEF ReadPayload, At, RInv
<1>2. CASE pkt.id = call[p].id
  BY <1>1, <1>2, AcceptRInv DEF ReadPayload
<1>3. CASE pkt.id # call[p].id
  <2>1. Skip(p, Tail(inbox), FALSE)
    BY <1>3 DEF ReadPayload
  <2>2. ASSUME Skipped(Tail(inbox))
        PROVE  /\ QueueInv'
               /\ call'[p].id = call[p].id =>
                    (call'[p].torn = (call[p].torn \/ FALSE) => Reading(p)')
    <3>1. PieceRead
      BY <1>1, <2>2 DEF PieceRead, Skipped
    <3>2. QueueInv' /\ Queue[1].pkt.id # call[p].id
      BY <1>3, <3>1, PieceReadQueue
    <3>3. Reading(p) /\ call[p].torn \in BOOLEAN
      BY <1>1 DEF CallInv, At, RInv, IInv, RconTypeOK, Call
    <3>4. (call[p].torn \/ FALSE) = call[p].torn
      BY <3>3
    <3> QED
      BY <3>1, <3>2, <3>3, <3>4, ReadingKept
  <2> QED
    BY <1>1, <2>1, <2>2, SkipRInv
<1> QED
  BY <1>2, <1>3

(* One element, and one more.                                              *)
LEMMA AppendLast ==
  ASSUME NEW S, NEW s \in Seq(S), NEW x \in S, NEW n, n = Len(s) + 1
  PROVE  Append(s, x)[n] = x
OBVIOUS

LEMMA AppendSecond ==
  ASSUME NEW S, NEW s \in Seq(S), Len(s) = 1, NEW x \in S
  PROVE  /\ Len(Append(s, x)) = 2 /\ DOMAIN Append(s, x) = 1 .. 2
         /\ Append(s, x) # <<>>
         /\ Append(s, x)[1] = s[1] /\ Append(s, x)[2] = x
<1>1. Append(s, x) \in Seq(S) /\ Len(Append(s, x)) = 2
  OBVIOUS
<1>2. Append(s, x)[1] = s[1] /\ Append(s, x)[2] = x
  <2>1. Append(s, x)[1] = s[1]
    BY <1>1
  <2>2. Append(s, x)[2] = x
    <3>1. 2 = Len(s) + 1
      OBVIOUS
    <3>2. \A n : n = Len(s) + 1 => Append(s, x)[n] = x
      BY AppendLast
    <3> QED
      BY <3>1, <3>2
  <2> QED
    BY <2>1, <2>2
<1>3. DOMAIN Append(s, x) = 1 .. 2
  BY <1>1
<1>4. Append(s, x) # <<>>
  BY <1>1
<1> QED
  BY <1>1, <1>2, <1>3, <1>4

(* A part that follows another is the second of two.                       *)
Consecutive(s, k) ==
  \A i \in DOMAIN s : s[i] = [id |-> k, part |-> s[1].part + i - 1]

LEMMA SecondPart ==
  ASSUME NEW out \in Seq([id: Nat, part: {1, 2}]), out # <<>>, NEW k,
         Consecutive(out, k),
         NEW next \in {1, 2}, next > out[Len(out)].part,
         NEW new, new = Append(out, [id |-> k, part |-> next])
  PROVE  /\ next = 2 /\ new # <<>> /\ Len(new) = 2
         /\ new[1].part = 1 /\ new[2].part = 2
         /\ Consecutive(new, k)
<1> USE DEF Consecutive
<1>1. 1 \in DOMAIN out /\ Len(out) \in DOMAIN out /\ Len(out) \in Nat
  OBVIOUS
<1>2. out[1] \in [id: Nat, part: {1, 2}]
  BY <1>1
<1>3. out[Len(out)].part = out[1].part + Len(out) - 1
  BY <1>1
<1>4. out[1].part \in {1, 2} /\ out[1].id \in Nat /\ Len(out) >= 1
  BY <1>1, <1>2
<1>5. next = 2 /\ out[1].part = 1 /\ Len(out) = 1
  <2>1. ASSUME NEW a \in {1, 2}, NEW l \in Nat, l >= 1, next > a + l - 1
        PROVE  next = 2 /\ a = 1 /\ l = 1
    BY <2>1
  <2> QED
    BY <1>1, <1>3, <1>4, <2>1
<1>6. out[1] = [id |-> k, part |-> 1] /\ k \in Nat
  <2>1. out[1] = [id |-> k, part |-> out[1].part + 1 - 1]
    BY <1>1
  <2>2. out[1].id = k
    BY <2>1
  <2> QED
    BY <1>4, <1>5, <2>1, <2>2
<1>7. /\ new # <<>> /\ Len(new) = 2 /\ DOMAIN new = 1 .. 2
      /\ new[1] = out[1] /\ new[2] = [id |-> k, part |-> 2]
  <2> DEFINE x == [id |-> k, part |-> 2]
             S == [id: Nat, part: {1, 2}]
  <2>1. x \in S /\ new = Append(out, x)
    BY <1>5, <1>6
  <2>2. out \in Seq(S) /\ Len(out) = 1
    BY <1>5
  <2> HIDE DEF x, S
  <2>3. /\ Len(Append(out, x)) = 2 /\ DOMAIN Append(out, x) = 1 .. 2
        /\ Append(out, x) # <<>>
        /\ Append(out, x)[1] = out[1] /\ Append(out, x)[2] = x
    BY <2>1, <2>2, AppendSecond
  <2> QED
    BY <2>1, <2>3 DEF x
<1>8. new[1].part = 1 /\ new[2].part = 2
  BY <1>6, <1>7
<1>9. \A i \in DOMAIN new : new[i] = [id |-> k, part |-> new[1].part + i - 1]
  <2>1. 1 + 1 - 1 = 1 /\ 1 + 2 - 1 = 2
    OBVIOUS
  <2> QED
    BY <1>6, <1>7, <1>8, <2>1
<1> QED
  BY <1>5, <1>7, <1>8, <1>9

(* The rest of a long reply: its second part, once.                        *)
LEMMA DrainPayloadRInv ==
  ASSUME RInv, IInv', NEW p \in Caller, DrainPayload(p)
  PROVE  RInv'
<1> DEFINE pkt == Head(inbox).pkt
           out == call[p].output
<1>1. /\ RconTypeOK /\ call \in [Caller -> Call] /\ call[p].pc = "drain_payload"
      /\ call[p].pc \in Busy /\ call[p].result = "none" /\ CallInv(p) /\ QueueInv
      /\ out \in Seq([id: Nat, part: {1, 2}])
  BY DEF RInv, IInv, RconTypeOK, Unfinished, DrainPayload, At, Busy, Awaits, Call
<1>2. PieceRead
  BY DEF DrainPayload, PieceRead
<1>3. /\ QueueInv' /\ Asking /\ SentIds' = SentIds /\ ran \subseteq ran'
      /\ Stretch(1) /\ 1 \in DOMAIN Queue /\ Queue[1] = Head(inbox)
  BY <1>2, PieceReadQueue DEF PieceRead
<1>4. Draining(p) /\ Reply(p) /\ ~Queue[1].first /\ pkt.part \in {1, 2}
  <2>1. Aligned /\ Queue # <<>>
    BY <1>1, <1>3 DEF CallInv
  <2> QED
    BY <1>1, <1>3, <2>1, PieceType DEF Aligned, CallInv, Draining
<1>5. CASE pkt.id # call[p].id
  <2>1. /\ \A q \in Caller \ {p} : call'[q] = call[q]
        /\ call'[p].pc = "end" /\ call'[p].result = "ok"
        /\ call'[p].output = out /\ call'[p].id = call[p].id
        /\ call'[p].torn = call[p].torn
    BY <1>1, <1>5 DEF DrainPayload, Return, Call
  <2>2. Reply(p)'
    BY <1>1, <1>3, <1>4, <2>1, ReplyKept
  <2>3. CallInv(p)'
    BY <2>1, <2>2 DEF CallInv
  <2> QED
    BY <1>1, <1>3, <2>1, <2>3, OthersKept DEF RInv
<1>6. CASE pkt.id = call[p].id
  <2> DEFINE new == Append(out, Part(pkt))
  <2>1. /\ \A q \in Caller \ {p} : call'[q] = call[q]
        /\ call'[p].pc = "drain_length" /\ call'[p].result = "none"
        /\ call'[p].output = new /\ call'[p].id = call[p].id
        /\ call'[p].torn = call[p].torn
    <3> HIDE DEF new
    <3> QED
      BY <1>1, <1>6 DEF DrainPayload, Call, new
  <2>2. out # <<>> /\ pkt.part > out[Len(out)].part
    BY <1>3, <1>4, <1>6 DEF Draining, Reply
  <2>3. Consecutive(out, call[p].id)
    BY <1>4 DEF Reply, Consecutive
  <2>4. Part(pkt) = [id |-> call[p].id, part |-> pkt.part]
    BY <1>6 DEF Part
  <2> HIDE DEF out, pkt
  <2>a. new = Append(out, [id |-> call[p].id, part |-> pkt.part])
    BY <2>4
  <2> HIDE DEF new
  <2>5. /\ pkt.part = 2 /\ new # <<>> /\ Len(new) = 2
        /\ new[1].part = 1 /\ new[2].part = 2
        /\ Consecutive(new, call[p].id)
    <3> DEFINE k == call[p].id
               next == pkt.part
    <3>1. /\ out \in Seq([id: Nat, part: {1, 2}]) /\ out # <<>>
          /\ Consecutive(out, k) /\ next \in {1, 2} /\ next > out[Len(out)].part
          /\ new = Append(out, [id |-> k, part |-> next])
      BY <1>1, <1>4, <2>2, <2>3, <2>a
    <3> HIDE DEF k, next
    <3>2. /\ next = 2 /\ new # <<>> /\ Len(new) = 2
          /\ new[1].part = 1 /\ new[2].part = 2
          /\ Consecutive(new, k)
      BY <3>1, SecondPart
    <3> QED
      BY <3>2 DEF k, next
  <2>7. Reply(p)'
    BY <1>2, <1>4, <2>1, <2>5 DEF Reply, PieceRead, Consecutive
  <2>8. ASSUME NEW i \in DOMAIN Queue', Queue'[i].pkt.id = call[p].id
        PROVE  FALSE
    <3>1. i + 1 \in DOMAIN Queue /\ Queue'[i] = Queue[i + 1] /\ i \in Nat /\ i > 0
      BY <1>3, NextQueueType DEF Stretch, RInv, IInv
    <3>2. Rank(Queue[1]) < Rank(Queue[i + 1])
      BY <1>1, <1>3, <3>1 DEF QueueInv, Ordered
    <3>3. Queue[i + 1].pkt.part \in {1, 2} /\ Queue[i + 1].pkt.id = call[p].id
          /\ call[p].id \in Nat
      BY <1>1, <2>8, <3>1, PieceType
    <3>4. Rank(Queue[1]) = 4 * call[p].id + 5
      BY <1>3, <1>4, <1>6, <2>5, <3>3 DEF Rank, pkt
    <3>5. ASSUME NEW k \in Nat, NEW part \in {1, 2}, NEW last \in {0, 1}
          PROVE  ~(4 * k + 5 < 4 * k + 2 * part + last)
      BY <3>5
    <3>6. Rank(Queue[i + 1]) =
            4 * call[p].id + 2 * Queue[i + 1].pkt.part
              + (IF Queue[i + 1].first THEN 0 ELSE 1)
      BY <3>3 DEF Rank
    <3> QED
      BY <3>2, <3>3, <3>4, <3>5, <3>6
  <2>9. Draining(p)'
    BY <1>3, <1>4, <2>1, <2>7, <2>8 DEF Draining
  <2>10. CallInv(p)'
    BY <2>1, <2>9 DEF CallInv
  <2> QED
    BY <1>1, <1>3, <2>1, <2>10, OthersKept DEF RInv
<1> QED
  BY <1>5, <1>6

----------------------------------------------------------------------------
(* The server's answer to request k: whole packets, in order.              *)
WholeAnswer(answer, k) ==
  /\ answer \in Seq(Piece) /\ answer # <<>>
  /\ \A i \in DOMAIN answer : answer[i].pkt.id = k
  /\ Ordered(answer) /\ Paired(answer)
  /\ ~answer[Len(answer)].first
  /\ \A i \in DOMAIN answer : answer[i].pkt.part = 2 =>
       \E j \in DOMAIN answer : answer[j].pkt.part = 1 /\ ~answer[j].first

LEMMA ShortDomain ==
  ASSUME NEW S, NEW s \in Seq(S)
  PROVE  /\ Len(s) = 2 => DOMAIN s = {1, 2} /\ s # <<>>
         /\ Len(s) = 4 => DOMAIN s = {1, 2, 3, 4} /\ s # <<>>
<1>1. DOMAIN s = 1 .. Len(s)
  OBVIOUS
<1>2. Len(s) # 0 => s # <<>>
  OBVIOUS
<1>3. 1 .. 2 = {1, 2} /\ 1 .. 4 = {1, 2, 3, 4}
  OBVIOUS
<1> QED
  BY <1>1, <1>2, <1>3

LEMMA TwoPieces ==
  ASSUME NEW k \in Nat, NEW s, Len(s) = 2, s \in Seq(Piece),
         s[1].pkt = s[2].pkt, s[1].pkt.id = k, s[1].pkt.part = 1,
         s[1].first, ~s[2].first
  PROVE  WholeAnswer(s, k)
<1>1. DOMAIN s = {1, 2} /\ s # <<>>
  BY ShortDomain
<1>2. Rank(s[1]) = 4 * k + 2 /\ Rank(s[2]) = 4 * k + 3
  BY DEF Rank
<1>3. Ordered(s)
  BY <1>1, <1>2 DEF Ordered
<1>4. Paired(s)
  BY <1>1 DEF Paired
<1> QED
  BY <1>1, <1>3, <1>4 DEF WholeAnswer

LEMMA FourPieces ==
  ASSUME NEW k \in Nat, NEW s, Len(s) = 4, s \in Seq(Piece),
         s[1].pkt = s[2].pkt, s[1].pkt.id = k, s[1].pkt.part = 1,
         s[3].pkt = s[4].pkt, s[3].pkt.id = k, s[3].pkt.part = 2,
         s[1].first, ~s[2].first, s[3].first, ~s[4].first
  PROVE  WholeAnswer(s, k)
<1>1. DOMAIN s = {1, 2, 3, 4} /\ s # <<>>
  BY ShortDomain
<1>2. /\ Rank(s[1]) = 4 * k + 2 /\ Rank(s[2]) = 4 * k + 3
      /\ Rank(s[3]) = 4 * k + 4 /\ Rank(s[4]) = 4 * k + 5
  BY DEF Rank
<1>3. Ordered(s)
  BY <1>1, <1>2 DEF Ordered
<1>4. Paired(s)
  BY <1>1 DEF Paired
<1>5. \A i \in DOMAIN s : s[i].pkt.id = k
  BY <1>1
<1>6. 2 \in DOMAIN s /\ s[2].pkt.part = 1 /\ ~s[2].first
  BY <1>1
<1> QED
  BY <1>1, <1>3, <1>4, <1>5, <1>6 DEF WholeAnswer

LEMMA AnswersWhole ==
  ASSUME NEW k \in Nat, NEW answer \in Answers(k)
  PROVE  WholeAnswer(answer, k)
<1> DEFINE pkt(i, long) == [id |-> k, part |-> i, long |-> long]
<1>1. answer \in Seq(Piece)
  BY AnswersType
<1>2. \/ \E long \in BOOLEAN : answer = Pieces(pkt(1, long))
      \/ answer = Pieces(pkt(1, TRUE)) \o Pieces(pkt(2, FALSE))
  BY DEF Answers
<1>3. ASSUME NEW long \in BOOLEAN, answer = Pieces(pkt(1, long))
      PROVE  WholeAnswer(answer, k)
  <2>1. /\ Len(answer) = 2
        /\ answer[1] = [pkt |-> pkt(1, long), first |-> TRUE]
        /\ answer[2] = [pkt |-> pkt(1, long), first |-> FALSE]
    BY <1>3 DEF Pieces
  <2> QED
    BY <1>1, <2>1, TwoPieces
<1>4. CASE answer = Pieces(pkt(1, TRUE)) \o Pieces(pkt(2, FALSE))
  <2> DEFINE x1 == [pkt |-> pkt(1, TRUE), first |-> TRUE]
             x2 == [pkt |-> pkt(1, TRUE), first |-> FALSE]
             x3 == [pkt |-> pkt(2, FALSE), first |-> TRUE]
             x4 == [pkt |-> pkt(2, FALSE), first |-> FALSE]
  <2>1. answer = <<x1, x2>> \o <<x3, x4>>
    BY <1>4 DEF Pieces
  <2>2. /\ x1.pkt = x2.pkt /\ x1.pkt.id = k /\ x1.pkt.part = 1
        /\ x3.pkt = x4.pkt /\ x3.pkt.id = k /\ x3.pkt.part = 2
        /\ x1.first /\ ~x2.first /\ x3.first /\ ~x4.first
    OBVIOUS
  <2> HIDE DEF x1, x2, x3, x4
  <2>3. /\ Len(answer) = 4 /\ answer[1] = x1 /\ answer[2] = x2
        /\ answer[3] = x3 /\ answer[4] = x4
    BY <2>1
  <2> QED
    BY <1>1, <2>2, <2>3, FourPieces
<1> QED
  BY <1>2, <1>3, <1>4

(* The answer is written behind what is on its way.                        *)
Written(answer) ==
  /\ Len(Queue') = Len(Queue) + Len(answer)
  /\ \A i \in DOMAIN Queue : i \in DOMAIN Queue' /\ Queue'[i] = Queue[i]
  /\ \A i \in DOMAIN Queue' :
       i \notin DOMAIN Queue => /\ i - Len(Queue) \in DOMAIN answer
                                /\ Queue'[i] = answer[i - Len(Queue)]
  /\ \A i \in DOMAIN answer : /\ i + Len(Queue) \in DOMAIN Queue'
                              /\ Queue'[i + Len(Queue)] = answer[i]

LEMMA WrittenQueue ==
  ASSUME RconTypeOK, RconTypeOK', NEW answer \in Seq(Piece),
         wire' = wire \o answer, inbox' = inbox
  PROVE  Written(answer)
<1>1. inbox \in Seq(Piece) /\ wire \in Seq(Piece)
  BY DEF RconTypeOK
<1>2. /\ Len(wire') = Len(wire) + Len(answer)
      /\ \A i \in 1 .. Len(wire) : wire'[i] = wire[i]
      /\ \A i \in Len(wire) + 1 .. Len(wire) + Len(answer) :
           wire'[i] = answer[i - Len(wire)]
  BY <1>1
<1>3. /\ Len(inbox) \in Nat /\ Len(wire) \in Nat /\ Len(answer) \in Nat
      /\ DOMAIN answer = 1 .. Len(answer)
      /\ Len(Queue) = Len(inbox) + Len(wire)
      /\ DOMAIN Queue = 1 .. Len(Queue)
      /\ Len(Queue') = Len(Queue) + Len(answer)
      /\ DOMAIN Queue' = 1 .. Len(Queue) + Len(answer)
  <2>1. /\ Len(inbox) \in Nat /\ Len(wire) \in Nat
        /\ Len(Queue) = Len(inbox) + Len(wire)
        /\ DOMAIN Queue = 1 .. Len(inbox) + Len(wire)
    BY QueueType
  <2>2. /\ Len(Queue') = Len(inbox) + Len(wire')
        /\ DOMAIN Queue' = 1 .. Len(inbox) + Len(wire')
    BY NextQueueType
  <2>3. Len(answer) \in Nat /\ DOMAIN answer = 1 .. Len(answer)
    OBVIOUS
  <2>4. Len(inbox) + (Len(wire) + Len(answer)) = Len(Queue) + Len(answer)
    BY <2>1, <2>3
  <2> QED
    BY <1>2, <2>1, <2>2, <2>3, <2>4
<1>4. ASSUME NEW i \in DOMAIN Queue
      PROVE  i \in DOMAIN Queue' /\ Queue'[i] = Queue[i]
  <2>1. i \in DOMAIN Queue'
    BY <1>3
  <2>2. CASE i \in 1 .. Len(inbox)
    <3>1. Queue[i] = inbox[i] /\ Queue'[i] = inbox[i]
      BY <2>2, QueueType, NextQueueType
    <3> QED
      BY <2>1, <3>1
  <2>3. CASE i \in Len(inbox) + 1 .. Len(inbox) + Len(wire)
    <3>1. i \in Len(inbox') + 1 .. Len(inbox') + Len(wire')
      BY <1>2, <1>3, <2>3
    <3>2. Queue[i] = wire[i - Len(inbox)] /\ Queue'[i] = wire'[i - Len(inbox)]
      BY <2>3, <3>1, QueueType, NextQueueType
    <3>3. i - Len(inbox) \in 1 .. Len(wire)
      BY <1>3, <2>3
    <3> QED
      BY <1>2, <2>1, <3>2, <3>3
  <2> QED
    BY <1>3, <2>2, <2>3
<1>5. ASSUME NEW i \in DOMAIN answer
      PROVE  /\ i + Len(Queue) \in DOMAIN Queue'
             /\ Queue'[i + Len(Queue)] = answer[i]
  <2> DEFINE j == i + Len(Queue)
  <2>1. /\ j \in DOMAIN Queue'
        /\ j \in Len(inbox') + 1 .. Len(inbox') + Len(wire')
        /\ j - Len(inbox) \in Len(wire) + 1 .. Len(wire) + Len(answer)
        /\ (j - Len(inbox)) - Len(wire) = i
    BY <1>2, <1>3
  <2> HIDE DEF j
  <2>2. Queue'[j] = wire'[j - Len(inbox)]
    BY <2>1, NextQueueType
  <2>3. wire'[j - Len(inbox)] = answer[(j - Len(inbox)) - Len(wire)]
    BY <1>2, <2>1
  <2> QED
    BY <2>1, <2>2, <2>3 DEF j
<1>6. ASSUME NEW i \in DOMAIN Queue', i \notin DOMAIN Queue
      PROVE  /\ i - Len(Queue) \in DOMAIN answer
             /\ Queue'[i] = answer[i - Len(Queue)]
  <2>1. i - Len(Queue) \in DOMAIN answer /\ (i - Len(Queue)) + Len(Queue) = i
    BY <1>3, <1>6
  <2> QED
    BY <1>5, <2>1
<1> QED
  BY <1>3, <1>4, <1>5, <1>6 DEF Written

LEMMA ServerRunsRInv == RInv /\ IInv' /\ ServerRuns => RInv'
<1> SUFFICES ASSUME RInv, IInv', ServerRuns PROVE RInv'
  OBVIOUS
<1> DEFINE k == Head(requests)
<1>1. /\ RconTypeOK /\ RconTypeOK' /\ requests \in Seq(Nat) /\ requests # <<>> /\ QueueInv
      /\ conn = "open" /\ conn' = "open"
      /\ inbox' = inbox /\ asked' = asked /\ call' = call
  BY DEF RInv, IInv, RconTypeOK, ServerRuns
<1>2. /\ k \in Nat /\ k \in SentIds /\ SentIds' \subseteq SentIds
      /\ \A l \in SentIds' : k < l
      /\ \A i, j \in DOMAIN requests' : i < j => requests'[i] < requests'[j]
  <2>1. k = requests[1] /\ 1 \in DOMAIN requests /\ requests' = Tail(requests)
    BY <1>1 DEF ServerRuns
  <2>2. \A i \in DOMAIN requests' : /\ i \in Nat /\ i > 0 /\ i + 1 \in DOMAIN requests
                                /\ requests'[i] = requests[i + 1]
    BY <1>1, <2>1
  <2>3. \A i \in DOMAIN requests' : 1 < i + 1
    BY <2>2
  <2>4. \A i, j \in DOMAIN requests : i < j => requests[i] < requests[j]
    BY <1>1 DEF QueueInv
  <2>5. \A i \in DOMAIN requests' : k < requests'[i]
    BY <2>1, <2>2, <2>3, <2>4
  <2>6. \A i, j \in DOMAIN requests' : i < j => requests'[i] < requests'[j]
    BY <2>2, <2>4
  <2> QED
    BY <1>1, <2>1, <2>2, <2>5, <2>6 DEF SentIds
<1>3. PICK answer \in Answers(k) : wire' = wire \o answer
  BY DEF ServerRuns
<1>4. ran \subseteq ran' /\ k \in ran' /\ Asking
  BY <1>1 DEF ServerRuns, Asking
<1> HIDE DEF k
<1>5. WholeAnswer(answer, k)
  BY <1>2, AnswersWhole
<1>6. Written(answer)
  BY <1>1, <1>3, <1>5, WrittenQueue DEF WholeAnswer
<1>7. /\ Queue \in Seq(Piece) /\ Queue' \in Seq(Piece) /\ answer \in Seq(Piece)
      /\ DOMAIN Queue = 1 .. Len(Queue) /\ Len(Queue) \in Nat
      /\ DOMAIN Queue' = 1 .. Len(Queue') /\ Len(Queue') \in Nat
      /\ DOMAIN answer = 1 .. Len(answer) /\ Len(answer) \in Nat
      /\ Len(answer) > 0
  <2>1. Queue \in Seq(Piece) /\ Queue' \in Seq(Piece)
    BY <1>1, QueueType, NextQueueType
  <2>2. answer \in Seq(Piece) /\ answer # <<>>
    BY <1>5 DEF WholeAnswer
  <2> QED
    BY <2>1, <2>2
<1>8. \A i \in DOMAIN Queue : /\ Queue[i].pkt.id \in Nat /\ Queue[i].pkt.id < k
                              /\ Queue[i].pkt.id \in ran
                              /\ \A l \in SentIds : Queue[i].pkt.id < l
  BY <1>1, <1>2, PieceType DEF QueueInv
<1>9. QueueInv'
  <2>1. Ordered(Queue')
    <3> SUFFICES ASSUME NEW i \in DOMAIN Queue', NEW j \in DOMAIN Queue', i < j
                 PROVE  Rank(Queue'[i]) < Rank(Queue'[j])
      BY DEF Ordered
    <3>1. CASE j \in DOMAIN Queue
      <4>1. i \in DOMAIN Queue
        BY <1>7, <3>1
      <4> QED
        BY <1>1, <1>6, <3>1, <4>1 DEF Written, QueueInv, Ordered
    <3>2. CASE i \notin DOMAIN Queue /\ j \notin DOMAIN Queue
      <4>1. /\ i - Len(Queue) \in DOMAIN answer
            /\ j - Len(Queue) \in DOMAIN answer
            /\ Queue'[i] = answer[i - Len(Queue)]
            /\ Queue'[j] = answer[j - Len(Queue)]
        BY <1>6, <3>2 DEF Written
      <4>2. i - Len(Queue) < j - Len(Queue)
        BY <1>7
      <4> QED
        BY <1>5, <4>1, <4>2 DEF WholeAnswer, Ordered
    <3>3. CASE i \in DOMAIN Queue /\ j \notin DOMAIN Queue
      <4>1. /\ Queue'[i] = Queue[i]
            /\ j - Len(Queue) \in DOMAIN answer
            /\ Queue'[j] = answer[j - Len(Queue)]
        BY <1>6, <3>3 DEF Written
      <4>2. /\ Queue'[i].pkt.id \in Nat /\ Queue'[i].pkt.id < k
            /\ Queue'[i].pkt.part \in {1, 2}
        BY <1>1, <1>8, <3>3, <4>1, PieceType
      <4>3. Queue'[j].pkt.id = k /\ Queue'[j].pkt.part \in {1, 2}
        <5>1. answer[j - Len(Queue)] \in Piece
          BY <1>7, <4>1
        <5> QED
          BY <1>5, <4>1, <5>1 DEF WholeAnswer, Piece, Packet
      <4>4. ASSUME NEW a \in Nat, NEW b \in Nat, a < b,
                   NEW s \in {1, 2}, NEW t \in {1, 2},
                   NEW x \in {0, 1}, NEW y \in {0, 1}
            PROVE  4 * a + 2 * s + x < 4 * b + 2 * t + y
        BY <4>4
      <4>5. /\ (IF Queue'[i].first THEN 0 ELSE 1) \in {0, 1}
            /\ (IF Queue'[j].first THEN 0 ELSE 1) \in {0, 1}
        OBVIOUS
      <4> QED
        BY <1>2, <4>2, <4>3, <4>4, <4>5 DEF Rank
    <3> QED
      BY <3>1, <3>2, <3>3
  <2>2. Paired(Queue')
    <3> SUFFICES ASSUME NEW i \in DOMAIN Queue', NEW j \in DOMAIN Queue',
                        j = i + 1, Queue'[i].first
                 PROVE  Queue'[j].pkt = Queue'[i].pkt /\ ~Queue'[j].first
      BY DEF Paired
    <3>1. CASE j \in DOMAIN Queue
      <4>1. i \in DOMAIN Queue
        BY <1>7, <3>1
      <4> QED
        BY <1>1, <1>6, <3>1, <4>1 DEF Written, QueueInv, Paired
    <3>2. CASE i \notin DOMAIN Queue
      <4>0. j \notin DOMAIN Queue
        BY <1>7, <3>2
      <4>1. /\ i - Len(Queue) \in DOMAIN answer
            /\ j - Len(Queue) \in DOMAIN answer
            /\ Queue'[i] = answer[i - Len(Queue)]
            /\ Queue'[j] = answer[j - Len(Queue)]
        BY <1>6, <3>2, <4>0 DEF Written
      <4>2. j - Len(Queue) = (i - Len(Queue)) + 1
        BY <1>7
      <4> QED
        BY <1>5, <4>1, <4>2 DEF WholeAnswer, Paired
    <3>3. CASE i \in DOMAIN Queue /\ j \notin DOMAIN Queue
      <4>1. i = Len(Queue) /\ Queue # <<>> /\ Queue'[i] = Queue[i]
        BY <1>6, <1>7, <3>3 DEF Written
      <4> QED
        BY <1>1, <4>1 DEF QueueInv
    <3> QED
      BY <3>1, <3>2, <3>3
  <2>3. ~Queue'[Len(Queue')].first
    <3>1. /\ Len(answer) \in DOMAIN answer
          /\ Len(Queue') = Len(answer) + Len(Queue)
      BY <1>6, <1>7 DEF Written
    <3> QED
      BY <1>5, <1>6, <3>1 DEF Written, WholeAnswer
  <2>4. \A i \in DOMAIN Queue' : /\ Queue'[i].pkt.id \in ran'
                                 /\ \A l \in SentIds' : Queue'[i].pkt.id < l
    <3> SUFFICES ASSUME NEW i \in DOMAIN Queue'
                 PROVE  /\ Queue'[i].pkt.id \in ran'
                        /\ \A l \in SentIds' : Queue'[i].pkt.id < l
      OBVIOUS
    <3>1. CASE i \in DOMAIN Queue
      BY <1>2, <1>4, <1>6, <1>8, <3>1 DEF Written
    <3>2. CASE i \notin DOMAIN Queue
      <4>1. Queue'[i].pkt.id = k
        BY <1>5, <1>6, <3>2 DEF Written, WholeAnswer
      <4> QED
        BY <1>2, <1>4, <4>1
    <3> QED
      BY <3>1, <3>2
  <2> QED
    BY <1>1, <1>2, <2>1, <2>2, <2>3, <2>4 DEF QueueInv
<1>10. ASSUME NEW q \in Caller PROVE CallInv(q)'
  <2>1. CallInv(q) /\ call'[q] = call[q]
    BY <1>1 DEF RInv
  <2>2. Reply(q) => Reply(q)'
    BY <1>1, <1>4, <2>1, ReplyKept
  <2>3. ASSUME Reading(q) PROVE Reading(q)'
    <3> SUFFICES ASSUME ~call[q].torn, NEW i \in DOMAIN Queue',
                        Queue'[i].pkt.id = call[q].id, Queue'[i].pkt.part = 2
                 PROVE  \E j \in DOMAIN Queue' : /\ Queue'[j].pkt.id = call[q].id
                                                 /\ Queue'[j].pkt.part = 1
                                                 /\ ~Queue'[j].first
      BY <1>1, <2>1, <2>3 DEF Reading
    <3>1. CASE i \in DOMAIN Queue
      <4>1. PICK j \in DOMAIN Queue : /\ Queue[j].pkt.id = call[q].id
                                      /\ Queue[j].pkt.part = 1
                                      /\ ~Queue[j].first
        BY <1>6, <2>3, <3>1 DEF Reading, Written
      <4>2. j \in DOMAIN Queue' /\ Queue'[j] = Queue[j]
        BY <1>6 DEF Written
      <4> QED
        BY <4>1, <4>2
    <3>2. CASE i \notin DOMAIN Queue
      <4>1. /\ i - Len(Queue) \in DOMAIN answer
            /\ Queue'[i] = answer[i - Len(Queue)]
        BY <1>6, <3>2 DEF Written
      <4>2. PICK j \in DOMAIN answer : answer[j].pkt.part = 1 /\ ~answer[j].first
        BY <1>5, <4>1 DEF WholeAnswer
      <4>3. /\ j + Len(Queue) \in DOMAIN Queue'
            /\ Queue'[j + Len(Queue)] = answer[j]
        BY <1>6 DEF Written
      <4>4. answer[j].pkt.id = call[q].id
        BY <1>5, <4>1 DEF WholeAnswer
      <4> QED
        BY <4>2, <4>3, <4>4
    <3> QED
      BY <3>1, <3>2
  <2>4. ASSUME Draining(q) PROVE Draining(q)'
    <3>1. Reply(q)' /\ call[q].id \notin SentIds' /\ call[q].id # k
      BY <1>2, <2>2, <2>4 DEF Draining
    <3>2. ASSUME NEW i \in DOMAIN Queue', Queue'[i].pkt.id = call[q].id
          PROVE  i \in DOMAIN Queue /\ Queue'[i] = Queue[i]
      <4>1. i \in DOMAIN Queue
        BY <1>5, <1>6, <3>1, <3>2 DEF Written, WholeAnswer
      <4> QED
        BY <1>6, <4>1 DEF Written
    <3> QED
      BY <2>1, <2>4, <3>1, <3>2 DEF Draining
  <2>5. ASSUME Aligned PROVE Aligned'
    <3>1. 1 \in DOMAIN Queue /\ ~Queue[1].first
      BY <1>1, <1>7, <2>5 DEF Aligned
    <3>2. 1 \in DOMAIN Queue' /\ ~Queue'[1].first
      BY <1>6, <3>1 DEF Written
    <3> QED
      BY <1>7, <3>2 DEF Aligned
  <2> QED
    BY <2>1, <2>2, <2>3, <2>4, <2>5 DEF CallInv
<1> QED
  BY <1>9, <1>10 DEF RInv

(* The queue stays as it is: what is run outside, what arrives.            *)
LEMMA SameQueueRInv ==
  ASSUME RInv, IInv', UNCHANGED <<conn, requests, Queue, asked, call>>,
         ran \subseteq ran'
  PROVE  RInv'
<1>1. SentIds' = SentIds /\ Queue' = Queue /\ RconTypeOK
  BY DEF SentIds, RInv, IInv
<1>2. QueueInv'
  BY <1>1 DEF RInv, QueueInv, Ordered, Paired
<1>3. ASSUME NEW q \in Caller PROVE CallInv(q)'
  <2>1. CallInv(q) /\ call'[q] = call[q] /\ Asking
    BY DEF RInv, Asking
  <2>2. Reply(q) => Reply(q)'
    BY <1>1, <2>1, ReplyKept
  <2>3. /\ Reading(q) => Reading(q)'
        /\ Aligned => Aligned'
    BY <1>1, <2>1 DEF Reading, Aligned
  <2>4. Draining(q) => Draining(q)'
    BY <1>1, <2>1, <2>2 DEF Draining
  <2> QED
    BY <2>1, <2>2, <2>3, <2>4 DEF CallInv
<1> QED
  BY <1>2, <1>3 DEF RInv

LEMMA ServerRunsAdriftRInv == RInv /\ IInv' /\ ServerRunsAdrift => RInv'
<1> SUFFICES ASSUME RInv, IInv', ServerRunsAdrift PROVE RInv'
  OBVIOUS
<1>1. UNCHANGED <<conn, requests, Queue, asked, call>> /\ ran \subseteq ran'
  BY DEF ServerRunsAdrift, Queue
<1> QED
  BY <1>1, SameQueueRInv

LEMMA Handover ==
  ASSUME NEW S, NEW a \in Seq(S), NEW b \in Seq(S), b # <<>>
  PROVE  Append(a, Head(b)) \o Tail(b) = a \o b
<1> DEFINE x == Append(a, Head(b)) \o Tail(b)
           y == a \o b
<1>1. Head(b) \in S /\ Tail(b) \in Seq(S) /\ Append(a, Head(b)) \in Seq(S)
  OBVIOUS
<1>2. x \in Seq(S) /\ y \in Seq(S)
  BY <1>1
<1>3. /\ Len(a) \in Nat /\ Len(b) \in Nat /\ Len(b) >= 1
      /\ Len(Append(a, Head(b))) = Len(a) + 1 /\ Len(Tail(b)) = Len(b) - 1
  BY <1>1
<1>4. Len(x) = Len(a) + Len(b) /\ Len(y) = Len(a) + Len(b)
  BY <1>1, <1>3
<1>5. ASSUME NEW i \in 1 .. Len(a) + Len(b) PROVE x[i] = y[i]
  <2>1. CASE i \in 1 .. Len(a)
    <3>1. i \in 1 .. Len(Append(a, Head(b)))
      BY <1>3, <2>1
    <3>2. x[i] = Append(a, Head(b))[i]
      BY <1>1, <3>1
    <3>3. Append(a, Head(b))[i] = a[i]
      BY <1>1, <2>1
    <3>4. y[i] = a[i]
      BY <2>1
    <3> QED
      BY <3>2, <3>3, <3>4
  <2>2. CASE i = Len(a) + 1
    <3>1. i \in 1 .. Len(Append(a, Head(b)))
      BY <1>3, <2>2
    <3>2. x[i] = Append(a, Head(b))[i]
      BY <1>1, <3>1
    <3>3. Append(a, Head(b))[i] = Head(b)
      BY <1>1, <2>2, AppendLast
    <3>4. i \in Len(a) + 1 .. Len(a) + Len(b) /\ i - Len(a) = 1
      BY <1>3, <2>2
    <3>5. y[i] = b[i - Len(a)]
      BY <3>4
    <3> QED
      BY <3>2, <3>3, <3>4, <3>5
  <2>3. CASE i \in Len(a) + 2 .. Len(a) + Len(b)
    <3> DEFINE n == Len(Append(a, Head(b)))
    <3>1. /\ i \in n + 1 .. n + Len(Tail(b)) /\ n = Len(a) + 1
          /\ i - n \in 1 .. Len(Tail(b)) /\ (i - n) + 1 = i - Len(a)
          /\ i \in Len(a) + 1 .. Len(a) + Len(b)
      BY <1>3, <2>3
    <3>2. x[i] = Tail(b)[i - n]
      BY <1>1, <3>1
    <3>3. Tail(b)[i - n] = b[(i - n) + 1]
      BY <3>1
    <3>4. y[i] = b[i - Len(a)]
      BY <3>1
    <3> QED
      BY <3>1, <3>2, <3>3, <3>4
  <2> QED
    BY <1>3, <2>1, <2>2, <2>3
<1> HIDE DEF x, y
<1>6. x = y
  BY <1>2, <1>4, <1>5
<1> QED
  BY <1>6 DEF x, y

LEMMA ArriveRInv == RInv /\ IInv' /\ Arrive => RInv'
<1> SUFFICES ASSUME RInv, IInv', Arrive PROVE RInv'
  OBVIOUS
<1>1. inbox \in Seq(Piece) /\ wire \in Seq(Piece) /\ wire # <<>>
  BY DEF RInv, IInv, RconTypeOK, Arrive
<1>2. Queue' = Queue
  BY <1>1, Handover DEF Queue, Arrive
<1> QED
  BY <1>2, SameQueueRInv DEF Arrive

(* What the connection had not brought is lost: a first part that has      *)
(* arrived stays, as it came before the second.                            *)
LEMMA ServerClosesRInv == RInv /\ IInv' /\ ServerCloses => RInv'
<1> SUFFICES ASSUME RInv, IInv', ServerCloses PROVE RInv'
  OBVIOUS
<1>1. /\ RconTypeOK /\ RconTypeOK' /\ QueueInv /\ conn' = "dead" /\ ran' = ran
      /\ requests' = <<>> /\ wire' = <<>> /\ inbox' = inbox
      /\ asked' = asked /\ call' = call
  BY DEF RInv, IInv, ServerCloses
<1>2. /\ Len(wire') = 0 /\ Len(wire) \in Nat /\ Len(inbox) \in Nat
      /\ SentIds' = {} /\ Asking
  BY <1>1, QueueType DEF SentIds, Asking
<1>3. /\ Len(Queue') = Len(inbox) /\ DOMAIN Queue' = 1 .. Len(inbox)
      /\ Len(Queue) = Len(inbox) + Len(wire)
      /\ DOMAIN Queue = 1 .. Len(inbox) + Len(wire)
      /\ Queue' \in Seq(Piece) /\ Queue \in Seq(Piece)
  <2>1. Len(inbox) + 0 = Len(inbox)
    BY <1>2
  <2> QED
    BY <1>1, <1>2, <2>1, QueueType, NextQueueType
<1>4. ASSUME NEW i \in DOMAIN Queue'
      PROVE  i \in DOMAIN Queue /\ Queue'[i] = Queue[i] /\ i \in Nat
  BY <1>1, <1>2, <1>3, QueueType, NextQueueType
<1>5. Stretch(0)
  <2>1. \A i \in DOMAIN Queue' : i + 0 = i
    BY <1>4
  <2>2. Len(Queue') + 0 <= Len(Queue)
    BY <1>2, <1>3
  <2> QED
    BY <1>4, <2>1, <2>2 DEF Stretch
<1>6. QueueInv'
  <2>1. 0 \in Nat /\ ran \subseteq ran' /\ SentIds' \subseteq SentIds
    BY <1>1, <1>2
  <2> QED
    BY <1>1, <1>5, <2>1, StretchQueue
<1>7. ASSUME NEW q \in Caller PROVE CallInv(q)'
  <2>1. CallInv(q) /\ call'[q] = call[q]
    BY <1>1 DEF RInv
  <2>2. Reply(q) => Reply(q)'
    BY <1>1, <1>2, <2>1, ReplyKept
  <2>3. ASSUME Reading(q) PROVE Reading(q)'
    <3> SUFFICES ASSUME ~call[q].torn, NEW i \in DOMAIN Queue',
                        Queue'[i].pkt.id = call[q].id, Queue'[i].pkt.part = 2
                 PROVE  \E j \in DOMAIN Queue' : /\ Queue'[j].pkt.id = call[q].id
                                                 /\ Queue'[j].pkt.part = 1
                                                 /\ ~Queue'[j].first
      BY <1>1, <2>1, <2>3 DEF Reading
    <3>1. i \in DOMAIN Queue /\ Queue'[i] = Queue[i]
      BY <1>4
    <3>2. PICK j \in DOMAIN Queue : /\ Queue[j].pkt.id = call[q].id
                                    /\ Queue[j].pkt.part = 1
                                    /\ ~Queue[j].first
      BY <2>3, <3>1 DEF Reading
    <3>3. j < i
      <4>1. ~(i < j)
        <5> SUFFICES ASSUME i < j PROVE FALSE
          OBVIOUS
        <5>1. Rank(Queue[i]) < Rank(Queue[j])
          BY <1>1, <3>1 DEF QueueInv, Ordered
        <5>2. Queue[i].pkt.id \in Nat
          BY <1>1, <3>1, PieceType
        <5>3. Rank(Queue[j]) = 4 * Queue[i].pkt.id + 3
          BY <3>1, <3>2, <5>2 DEF Rank
        <5>4. \/ Rank(Queue[i]) = 4 * Queue[i].pkt.id + 4
              \/ Rank(Queue[i]) = 4 * Queue[i].pkt.id + 5
          BY <3>1, <5>2 DEF Rank
        <5> QED
          BY <5>1, <5>2, <5>3, <5>4
      <4>2. i # j
        BY <3>1, <3>2
      <4> QED
        BY <1>2, <1>3, <3>1, <4>1, <4>2
    <3>4. j \in DOMAIN Queue'
      BY <1>2, <1>3, <3>3
    <3> QED
      BY <1>4, <3>2, <3>4
  <2>4. ASSUME Draining(q) PROVE Draining(q)'
    <3>1. Reply(q)' /\ call[q].id \notin SentIds'
      BY <1>2, <2>2, <2>4 DEF Draining
    <3> QED
      BY <1>4, <2>1, <2>4, <3>1 DEF Draining
  <2>5. ASSUME Aligned PROVE Aligned'
    <3> SUFFICES ASSUME Queue' # <<>> PROVE ~Queue'[1].first
      BY <1>1 DEF Aligned
    <3>1. 1 \in DOMAIN Queue'
      BY <1>3
    <3>2. 1 \in DOMAIN Queue /\ Queue'[1] = Queue[1] /\ Queue # <<>>
      BY <1>3, <1>4, <3>1
    <3> QED
      BY <2>5, <3>2 DEF Aligned
  <2> QED
    BY <2>1, <2>2, <2>3, <2>4, <2>5 DEF CallInv
<1> QED
  BY <1>6, <1>7 DEF RInv

----------------------------------------------------------------------------
LEMMA RInvInit == RconInit => RInv
<1> SUFFICES ASSUME RconInit PROVE RInv
  OBVIOUS
<1>1. IInv
  BY IInvInit
<1>2. QueueInv
  BY DEF RconInit, QueueInv, Ordered, Paired, Queue, SentIds
<1>3. \A p \in Caller : CallInv(p)
  BY DEF RconInit, CallInv
<1> QED
  BY <1>1, <1>2, <1>3 DEF RInv

LEMMA RInvStep == RInv /\ [RconNext]_rconVars => RInv'
<1> SUFFICES ASSUME RInv, [RconNext]_rconVars PROVE RInv'
  OBVIOUS
<1>1. IInv'
  BY IInvStep DEF RInv
<1>2. CASE UNCHANGED rconVars
  <2>1. UNCHANGED <<conn, requests, Queue, asked, call>> /\ ran \subseteq ran'
    BY <1>2 DEF rconVars, link, Queue
  <2> QED
    BY <1>1, <2>1, SameQueueRInv
<1>3. ASSUME NEW p \in Caller, Step(p) PROVE RInv'
  BY <1>1, <1>3, ConnectRInv, QuietEndRInv, SendRInv, ReadLengthRInv,
     ReadPayloadRInv, MisreadRInv, DrainPayloadRInv, DrainEndsRInv DEF Step
<1>4. ASSUME NEW p \in Caller, Start(p) \/ Lock(p) \/ Dropped(p) PROVE RInv'
  BY <1>1, <1>4, OutsideRInv
<1>5. CASE RconNext
  BY <1>1, <1>3, <1>4, <1>5, ServerRunsRInv, ServerRunsAdriftRInv, ArriveRInv,
     ServerClosesRInv DEF RconNext
<1> QED
  BY <1>2, <1>5

(* OwnReply: what a caller is given is the reply to its own command,       *)
(* without a hole, and the command has been run, whatever earlier calls    *)
(* and a slow server left on the connection (run_command).                 *)
THEOREM OwnReplyHolds == RconSpec => []OwnReply
<1>1. RInv => OwnReply
  BY DEF RInv, CallInv, Reply, OwnReply
<1> QED
  BY <1>1, RInvInit, RInvStep, PTL DEF RconSpec
=============================================================================
