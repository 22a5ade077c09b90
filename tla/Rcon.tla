-------------------------------- MODULE Rcon --------------------------------
(***************************************************************************)
(* RconClient of src/src/src/rcon.rs, for a client that has a password:    *)
(* callers that share one connection behind a mutex, and the game server   *)
(* at its other end, which is slow, closes connections, and runs what it   *)
(* was sent whether or not anyone still waits.  A caller may be dropped at *)
(* any await: the mutex is then free and the connection stays as it is.    *)
(*                                                                         *)
(* A packet is read in two pieces, its length and its payload, and any     *)
(* wait may end between them.  What follows a length that was read and     *)
(* forgotten is not the beginning of a packet.                             *)
(***************************************************************************)
EXTENDS Integers, Sequences, FiniteSets

CONSTANTS
  Caller,      \* calls of execute and execute_within, one command each
  NoCaller,    \* nobody
  MaxSkipped   \* MAX_SKIPPED_PACKETS

ASSUME RconAssumption ==
  /\ NoCaller \notin Caller
  /\ MaxSkipped \in Nat

VARIABLES
  holder,   \* who has the mutex of RconClient.conn
  conn,     \* RconClient.conn: none, open, or dead without our knowing
  requests,     \* requests on the connection that the server has not run
  wire,     \* pieces of replies on their way
  inbox,    \* pieces that have arrived and have not been read
  adrift,   \* requests of connections given up, which may still run
  asked,    \* who made each request: next_id is Len(asked) + 1
  ran,      \* requests the server has run (history)
  call      \* the state of each call

link == <<conn, requests, wire, inbox, adrift>>
rconVars == <<holder, link, asked, ran, call>>

Awaits == {"lock", "attempt", "length", "payload",
            "drain_length", "drain_payload"}

Result == {"none", "ok", "refused", "error", "dropped"}

(* A long first packet may be followed by another.                         *)
Packet == [id: Nat, part: {1, 2}, long: BOOLEAN]
Pieces(pkt) == <<[pkt |-> pkt, first |-> TRUE], [pkt |-> pkt, first |-> FALSE]>>
Piece  == [pkt: Packet, first: BOOLEAN]

Call == [pc: {"idle", "end"} \cup Awaits, attempt: 1 .. 2, id: Nat,
         output: Seq([id: Nat, part: {1, 2}]), skipped: 0 .. MaxSkipped,
         torn: BOOLEAN, fresh: BOOLEAN, result: Result]

RconTypeOK ==
  /\ holder \in Caller \cup {NoCaller}
  /\ conn \in {"none", "open", "dead"}
  /\ requests \in Seq(Nat)
  /\ wire \in Seq(Piece) /\ inbox \in Seq(Piece)
  /\ adrift \subseteq Nat /\ ran \subseteq Nat
  /\ asked \in Seq(Caller)
  /\ call \in [Caller -> Call]

RconInit ==
  /\ holder = NoCaller
  /\ conn = "none"
  /\ requests = <<>> /\ wire = <<>> /\ inbox = <<>>
  /\ adrift = {} /\ ran = {}
  /\ asked = <<>>
  /\ call = [p \in Caller |->
               [pc |-> "idle", attempt |-> 1, id |-> 0, output |-> <<>>,
                skipped |-> 0, torn |-> FALSE, fresh |-> FALSE,
                result |-> "none"]]

----------------------------------------------------------------------------
At(p, pc) == call[p].pc = pc

Goto(p, pc) == call' = [call EXCEPT ![p].pc = pc]

(* execute_within returns, and the guard of the mutex goes with it.        *)
Return(p, result, output) ==
  /\ call' = [call EXCEPT ![p].pc = "end", ![p].result = result,
                          ![p].output = output]
  /\ holder' = NoCaller

SentIds == {requests[i] : i \in DOMAIN requests}

(* The connection is dropped.  The server may already have its requests.   *)
Disconnect ==
  /\ conn' = "none"
  /\ requests' = <<>> /\ wire' = <<>> /\ inbox' = <<>>
  /\ adrift' = adrift \cup SentIds

Fail_Final(p) ==
  /\ Disconnect
  /\ Return(p, "error", <<>>)

(* run_command failed: the connection is dropped, and the command is tried *)
(* once more.                                                              *)
Fail(p) ==
  /\ Disconnect
  /\ \/ /\ call[p].attempt = 1
        /\ call' = [call EXCEPT ![p].pc = "attempt", ![p].attempt = 2,
                                ![p].fresh = FALSE, ![p].output = <<>>]
        /\ UNCHANGED holder
     \/ /\ call[p].attempt = 2
        /\ Return(p, "error", <<>>)

----------------------------------------------------------------------------
Start(p) ==
  /\ At(p, "idle")
  /\ Goto(p, "lock")
  /\ UNCHANGED <<holder, link, asked, ran>>

Lock(p) ==
  /\ At(p, "lock")
  /\ holder = NoCaller
  /\ holder' = p
  /\ Goto(p, "attempt")
  /\ UNCHANGED <<link, asked, ran>>

(* connect_and_auth: a connection with nothing on it, or an error that is  *)
(* not retried.                                                            *)
Connect(p) ==
  /\ At(p, "attempt") /\ conn = "none"
  /\ conn' = "open"
  /\ call' = [call EXCEPT ![p].fresh = TRUE]
  /\ UNCHANGED <<holder, requests, wire, inbox, adrift, asked, ran>>

Refused(p) ==
  /\ At(p, "attempt") /\ conn = "none"
  /\ Return(p, "refused", <<>>)
  /\ UNCHANGED <<link, asked, ran>>

(* The request gets the next id and is written.  A dead connection may     *)
(* swallow it.                                                             *)
Send(p) ==
  /\ At(p, "attempt") /\ conn # "none"
  /\ asked' = Append(asked, p)
  /\ requests' = IF conn = "open" THEN Append(requests, Len(asked) + 1) ELSE requests
  /\ call' = [call EXCEPT ![p].pc = "length", ![p].id = Len(asked) + 1,
                          ![p].skipped = 0, ![p].torn = FALSE]
  /\ UNCHANGED <<holder, conn, wire, inbox, adrift, ran>>

SendFails(p) ==
  /\ At(p, "attempt") /\ conn # "none"
  /\ asked' = Append(asked, p)
  /\ Fail(p)
  /\ UNCHANGED ran

----------------------------------------------------------------------------
(* read_packet, at the beginning of a packet.                              *)
ReadLength(p, from, to) ==
  /\ At(p, from)
  /\ inbox # <<>> /\ Head(inbox).first
  /\ inbox' = Tail(inbox)
  /\ Goto(p, to)
  /\ UNCHANGED <<holder, conn, requests, wire, adrift, asked, ran>>

(* A packet of another request is skipped, but not for ever.  torn is      *)
(* history: in this attempt something was taken for a packet that is none. *)
Skip(p, rest, torn) ==
  IF call[p].skipped < MaxSkipped
    THEN /\ call' = [call EXCEPT ![p].pc = "length", ![p].skipped = @ + 1,
                                 ![p].torn = @ \/ torn]
         /\ inbox' = rest
         /\ UNCHANGED <<holder, conn, requests, wire, adrift>>
    ELSE Fail(p)

Part(pkt) == [id |-> pkt.id, part |-> pkt.part]

(* The reply is found; only a long one is waited on for more.              *)
Accept(p, pkt) ==
  /\ IF pkt.long
       THEN /\ call' = [call EXCEPT ![p].pc = "drain_length",
                                    ![p].output = <<Part(pkt)>>]
            /\ UNCHANGED holder
       ELSE Return(p, "ok", <<Part(pkt)>>)
  /\ inbox' = Tail(inbox)
  /\ UNCHANGED <<conn, requests, wire, adrift>>

ReadPayload_AnyId(p) ==
  /\ At(p, "payload") /\ inbox # <<>>
  /\ Accept(p, Head(inbox).pkt)
  /\ UNCHANGED <<asked, ran>>

ReadPayload(p) ==
  /\ At(p, "payload") /\ inbox # <<>>
  /\ LET pkt == Head(inbox).pkt IN
       IF pkt.id = call[p].id THEN Accept(p, pkt) ELSE Skip(p, Tail(inbox), FALSE)
  /\ UNCHANGED <<asked, ran>>

(* read_packet where no packet begins: the length it finds is out of       *)
(* range, or as much is taken for a packet as it says.  The id of such a   *)
(* packet is the type of another one or the middle of a text, and taken to *)
(* be no id in use.                                                        *)
Misread(p) ==
  /\ At(p, "length")
  /\ inbox # <<>> /\ ~Head(inbox).first
  /\ \/ Fail(p)
     \/ \E n \in 0 .. Len(inbox) :
          Skip(p, SubSeq(inbox, n + 1, Len(inbox)), TRUE)
  /\ UNCHANGED <<asked, ran>>

Silence == inbox = <<>> \/ conn = "dead"

ReplyFails_NoTimeout(p) ==
  /\ At(p, "length") \/ At(p, "payload")
  /\ conn = "dead"
  /\ Fail(p)
  /\ UNCHANGED <<asked, ran>>

(* The time is up or the connection closed.                                *)
ReplyFails(p) ==
  /\ At(p, "length") \/ At(p, "payload")
  /\ Silence
  /\ Fail(p)
  /\ UNCHANGED <<asked, ran>>

----------------------------------------------------------------------------
(* The rest of a long reply, as far as it comes in time.                   *)
DrainPayload(p) ==
  /\ At(p, "drain_payload") /\ inbox # <<>>
  /\ LET pkt == Head(inbox).pkt IN
       IF pkt.id = call[p].id
         THEN /\ call' = [call EXCEPT ![p].pc = "drain_length",
                                      ![p].output = Append(@, Part(pkt))]
              /\ UNCHANGED holder
         ELSE Return(p, "ok", call[p].output)
  /\ inbox' = Tail(inbox)
  /\ UNCHANGED <<conn, requests, wire, adrift, asked, ran>>

(* DRAIN_TIMEOUT may strike in the middle of a packet; the connection is   *)
(* kept.                                                                   *)
DrainEnds(p) ==
  /\ At(p, "drain_length") \/ At(p, "drain_payload")
  /\ Silence
  /\ Return(p, "ok", call[p].output)
  /\ UNCHANGED <<link, asked, ran>>

(* The future is dropped, at any await.                                    *)
Dropped(p) ==
  /\ call[p].pc \in Awaits
  /\ call' = [call EXCEPT ![p].pc = "end", ![p].result = "dropped"]
  /\ holder' = IF holder = p THEN NoCaller ELSE holder
  /\ UNCHANGED <<link, asked, ran>>

----------------------------------------------------------------------------
(* The server runs the requests of a connection one after the other, and   *)
(* answers in one packet, or two when the text does not fit in the first.  *)
Answers(k) ==
  LET pkt(i, long) == Pieces([id |-> k, part |-> i, long |-> long]) IN
  {pkt(1, FALSE), pkt(1, TRUE), pkt(1, TRUE) \o pkt(2, FALSE)}

ServerRuns ==
  /\ conn = "open" /\ requests # <<>>
  /\ ran' = ran \cup {Head(requests)}
  /\ requests' = Tail(requests)
  /\ \E answer \in Answers(Head(requests)) : wire' = wire \o answer
  /\ UNCHANGED <<holder, conn, inbox, adrift, asked, call>>

ServerRunsAdrift ==
  /\ \E k \in adrift : ran' = ran \cup {k} /\ adrift' = adrift \ {k}
  /\ UNCHANGED <<holder, conn, requests, wire, inbox, asked, call>>

Arrive ==
  /\ conn = "open" /\ wire # <<>>
  /\ inbox' = Append(inbox, Head(wire))
  /\ wire' = Tail(wire)
  /\ UNCHANGED <<holder, conn, requests, adrift, asked, ran, call>>

(* The server stops or closes the connection.                              *)
ServerCloses ==
  /\ conn = "open"
  /\ conn' = "dead"
  /\ requests' = <<>> /\ wire' = <<>>
  /\ adrift' = adrift \cup SentIds
  /\ UNCHANGED <<holder, inbox, asked, ran, call>>

----------------------------------------------------------------------------
Step(p) ==
  \/ Connect(p) \/ Refused(p) \/ Send(p) \/ SendFails(p)
  \/ ReadLength(p, "length", "payload") \/ ReadPayload(p)
  \/ Misread(p) \/ ReplyFails(p)
  \/ ReadLength(p, "drain_length", "drain_payload") \/ DrainPayload(p)
  \/ DrainEnds(p)

RconNext ==
  \/ \E p \in Caller : Start(p) \/ Lock(p) \/ Step(p) \/ Dropped(p)
  \/ ServerRuns \/ ServerRunsAdrift \/ Arrive \/ ServerCloses

RconSpec == RconInit /\ [][RconNext]_rconVars

(* Every await of a call ends, by its timeout if by nothing else, and      *)
(* tokio's mutex is handed over in the order of asking.  The server owes   *)
(* nothing.                                                                *)
RconFairSpec ==
  /\ RconSpec
  /\ \A p \in Caller : WF_rconVars(Step(p)) /\ SF_rconVars(Lock(p))

----------------------------------------------------------------------------
(* What a caller is given is the reply to its own command, without a hole, *)
(* and the command has been run, whatever earlier calls left on the        *)
(* connection; and it is the reply from its start unless its beginning was *)
(* swallowed with the rest of a torn packet (run_command).                 *)
OwnReply ==
  \A p \in Caller : call[p].result = "ok" =>
    LET output == call[p].output IN
    /\ output # <<>>
    /\ \A i \in DOMAIN output :
         output[i] = [id |-> call[p].id, part |-> output[1].part + i - 1]
    /\ output[1].part = 1 \/ call[p].torn
    /\ call[p].id \in ran /\ asked[call[p].id] = p

OnLink == SentIds \cup {wire[i].pkt.id : i \in DOMAIN wire}
                  \cup {inbox[i].pkt.id : i \in DOMAIN inbox}

(* Nothing of an attempt that failed is on the connection the next command *)
(* uses: what is there comes from the last attempt of a call that got its  *)
(* reply, still waits for it, or was dropped (execute_within).             *)
NothingLeftByFailure ==
  \A k \in OnLink :
    /\ k = call[asked[k]].id
    /\ call[asked[k]].result # "error"

(* What others leave behind, a dead socket, half a packet or more replies  *)
(* than are skipped, may cost a call its first attempt and never the call: *)
(* it fails only on a connection it opened itself (execute_within).        *)
LeftoversHarmless ==
  \A p \in Caller : call[p].result = "error" => call[p].fresh

(* Every call comes to an end, however the server behaves: again and again *)
(* there is none under way.                                                *)
CallsEnd == []<>(\A p \in Caller : At(p, "idle") \/ At(p, "end"))
=============================================================================
