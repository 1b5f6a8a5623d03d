------------------------------ MODULE ReqResp ------------------------------
(***************************************************************************)
(* One request of the req/resp domain (packages/lodestar/src/network/      *)
(* reqresp) between two nodes that both run this code: sendRequest on one  *)
(* end, handleRequest and the block handlers on the other, and the stream  *)
(* between them.  The responder's finalized blocks move from the hot       *)
(* database to the archive while it answers.                               *)
(*                                                                         *)
(* The stream carries the pieces a response chunk is written in: its       *)
(* result, its context bytes (the fork digest, version 2 of the block      *)
(* methods) and its payload (length prefix and snappy frames, abstracted   *)
(* to the block's slot).  A timeout may fire whenever it is armed; the     *)
(* connection may break between any two pieces.                            *)
(***************************************************************************)
EXTENDS Integers, Sequences, FiniteSets, SequencesExt

CONSTANTS
    Slots,              \* the slots of the responder's canonical blocks after genesis
    Requests,           \* the requests, see ByRange, ByRoots and Simple
    MAX_REQUEST_BLOCKS

VARIABLES
    req,        \* the request
    client,     \* the requester: phase, what it reads next, the blocks read, result, penalty
    server,     \* the responder: phase, what it has still to look up or to send, the last slot sent
    wire,       \* the pieces under way from the responder to the requester
    ended,      \* the responder has closed its side of the stream
    events,     \* NetworkEvent.reqRespRequest emitted to the responder's peer manager
    db          \* the responder's database and fork choice

vars == <<req, client, server, wire, ended, events, db>>

SingleResponse == {"status", "goodbye", "ping", "metadata"}

MaxResponses == CASE req.method = "beacon_blocks_by_range" -> req.count
                  [] req.method = "beacon_blocks_by_root" -> Cardinality(req.roots)
                  [] OTHER -> 1

---------------------------------------------------------------------------
(* score.ts: what a failed request costs the peer.  A dial that finds no   *)
(* common protocol is a DIAL_ERROR too, so the function's last part (an    *)
(* error that names ERR_UNSUPPORTED_PROTOCOL) is not reached.              *)

OnOutgoingReqRespError(code) ==
    CASE code \in {"INVALID_REQUEST", "DIAL_TIMEOUT", "DIAL_ERROR"} -> "LowToleranceError"
      [] code = "SERVER_ERROR" -> "MidToleranceError"
      [] code = "UNKNOWN_ERROR_STATUS" -> "HighToleranceError"
      [] code \in {"TTFB_TIMEOUT", "RESP_TIMEOUT"} /\ req.method = "ping" -> "LowToleranceError"
      [] code \in {"TTFB_TIMEOUT", "RESP_TIMEOUT"} /\ req.method \notin SingleResponse -> "MidToleranceError"
      [] OTHER -> "none"

---------------------------------------------------------------------------
(* The requester.                                                          *)

\* The request is over; stream.close() or abort() in every case.
Settle(code) ==
    client' = [client EXCEPT !.phase = "done", !.result = code, !.penalty = OnOutgoingReqRespError(code)]

\* withTimeout(dialProtocol).  Both ends prefer version 2 of the methods that have one.
Dial ==
    /\ client.phase = "dial"
    /\ \/ client' = [client EXCEPT !.phase = "write"]
       \/ Settle("DIAL_TIMEOUT") \/ Settle("DIAL_ERROR")
    /\ UNCHANGED <<req, server, wire, ended, events, db>>

\* withTimeout(pipe(requestEncode, stream.sink)).
WriteRequest ==
    /\ client.phase = "write"
    /\ \/ /\ client' = [client EXCEPT !.phase = "read"]
          /\ server' = [server EXCEPT !.phase = "decode"]
       \/ /\ Settle("REQUEST_TIMEOUT") \/ Settle("REQUEST_ERROR")
          /\ UNCHANGED server
    /\ UNCHANGED <<req, wire, ended, events, db>>

\* contextBytesTypeByProtocol
HasContextBytes == req.method \notin SingleResponse

\* assertSequentialBlocksInRange
AssertSequentialBlocksInRange(blocks) ==
    LET n == Len(blocks) IN
    n > 0 =>
      /\ n <= req.count
      /\ blocks[1] >= req.start
      /\ blocks[n] <= req.start + (req.count * req.step) - 1
      /\ \A i \in 1..(n - 1) : blocks[i] + req.step <= blocks[i + 1]

\* collectResponses has what it wants, or the stream has ended between two chunks.
Collected(blocks) ==
    IF req.method \in SingleResponse
    THEN Settle(IF blocks = <<>> THEN "EMPTY_RESPONSE" ELSE "ok")
    ELSE client' = [client EXCEPT
           !.phase = "done",
           !.got = blocks,
           !.result = IF req.method = "beacon_blocks_by_range" /\ ~AssertSequentialBlocksInRange(blocks)
                      THEN "BLOCKS_BY_RANGE_ERROR" ELSE "ok"]

StatusError(status) ==
    IF status \in {"INVALID_REQUEST", "SERVER_ERROR", "RESOURCE_UNAVAILABLE"}
    THEN status ELSE "UNKNOWN_ERROR_STATUS"

\* responseDecode: the next piece of a <response_chunk>.
ReadPiece ==
    /\ client.phase = "read" /\ wire # <<>>
    /\ wire' = Tail(wire)
    /\ LET piece == Head(wire)
           blocks == Append(client.got, piece.slot)
       IN  CASE client.next = "result" /\ piece.status # "SUCCESS" -> Settle(StatusError(piece.status))
             [] client.next = "result" /\ piece.status = "SUCCESS" ->
                  client' = [client EXCEPT !.firstByte = TRUE, !.next = IF HasContextBytes THEN "context" ELSE "payload"]
             [] client.next = "context" -> client' = [client EXCEPT !.next = "payload"]
             [] client.next = "payload" ->
                  IF req.method \in SingleResponse \/ Len(blocks) >= MaxResponses
                  THEN Collected(blocks)
                  ELSE client' = [client EXCEPT !.got = blocks, !.next = "result"]
    /\ UNCHANGED <<req, server, ended, events, db>>

\* The stream has ended: allowed only between two chunks.
ReadEnd ==
    /\ client.phase = "read" /\ wire = <<>> /\ ended
    /\ IF client.next = "result" THEN Collected(client.got) ELSE Settle("SOURCE_ABORTED")
    /\ UNCHANGED <<req, server, wire, ended, events, db>>

\* Mutant: only the wait for the first byte is bounded.
ReadTimeoutFirstByte ==
    /\ client.phase = "read" /\ ~client.firstByte
    /\ Settle("TTFB_TIMEOUT")
    /\ UNCHANGED <<req, server, wire, ended, events, db>>

\* responseTimeoutsHandler and maxTotalResponseTimeout.
ReadTimeout ==
    /\ client.phase = "read"
    /\ \/ ~client.firstByte /\ Settle("TTFB_TIMEOUT")
       \/ client.firstByte /\ Settle("RESP_TIMEOUT")
       \/ Settle("RESPONSE_TIMEOUT")
    /\ UNCHANGED <<req, server, wire, ended, events, db>>

---------------------------------------------------------------------------
(* The responder.                                                          *)

Piece(status, slot) == [status |-> status, slot |-> slot]

\* responseEncodeSuccess: result, context bytes, payload.
Chunk(slot) ==
    <<Piece("SUCCESS", slot)>> \o (IF HasContextBytes THEN <<Piece("SUCCESS", slot)>> ELSE <<>>)
                               \o <<Piece("SUCCESS", slot)>>

\* The catch block of handleRequest: responseEncodeError, then the stream is closed.
Fail(status) ==
    /\ server' = [server EXCEPT !.phase = "done"]
    /\ wire' = Append(wire, Piece(status, 0))
    /\ ended' = TRUE
    /\ UNCHANGED events

\* The handler has returned: the stream is closed and the event goes out.
Finish ==
    /\ server' = [server EXCEPT !.phase = "done"]
    /\ ended' = TRUE
    /\ events' = events \cup {req.method}
    /\ UNCHANGED wire

ValidRange == req.step >= 1 /\ req.count >= 1 /\ req.start >= 0
Count == IF req.count > MAX_REQUEST_BLOCKS THEN MAX_REQUEST_BLOCKS ELSE req.count
UpperSlot == req.start + (Count * req.step)
InStep(slot) == (slot - req.start) % req.step = 0

\* requestDecode, with its timeout, and the start of the handler.  The archive's
\* stream reads the database as it was when the stream was opened.
DecodeRequest ==
    /\ server.phase = "decode"
    /\ \/ Fail("SERVER_ERROR")
       \/ Fail("INVALID_REQUEST")
       \/ req.method \in SingleResponse
          /\ server' = [server EXCEPT !.phase = "finish"]
          /\ wire' = wire \o Chunk(0)
          /\ UNCHANGED <<ended, events>>
       \/ req.method = "beacon_blocks_by_range" /\ ~ValidRange /\ Fail("INVALID_REQUEST")
       \/ req.method = "beacon_blocks_by_range" /\ ValidRange
          /\ server' = [server EXCEPT !.phase = "archive",
               !.todo = {s \in db.archive : s >= req.start /\ s < UpperSlot /\ InStep(s)}]
          /\ UNCHANGED <<wire, ended, events>>
       \/ req.method = "beacon_blocks_by_root"
          /\ server' = [server EXCEPT !.phase = "roots", !.todo = req.roots]
          /\ UNCHANGED <<wire, ended, events>>
    /\ UNCHANGED <<req, client, db>>

Lowest(slots) == CHOOSE s \in slots : \A t \in slots : s <= t

\* Mutant: the slots after the archived ones start at the last archived slot.
RecentSlotsAgain(last) ==
    {s \in (IF last = 0 THEN req.start ELSE last)..(UpperSlot - 1) : InStep(s)}

\* injectRecentBlocks: the slots left for the fork choice.
RecentSlots(last) ==
    {s \in (IF last = 0 THEN req.start ELSE last + req.step)..(UpperSlot - 1) : InStep(s)}

\* A block is written, in the order of the slots.
SendLowest ==
    LET s == Lowest(server.todo) IN
    /\ wire' = wire \o Chunk(s)
    /\ server' = [server EXCEPT !.todo = @ \ {s}, !.last = s]

\* for await (const archiveBlock of archiveStream), then the fork choice is asked
StreamArchive ==
    /\ server.phase = "archive"
    /\ \/ server.todo # {} /\ SendLowest
       \/ /\ server.todo = {}
          /\ server' = [server EXCEPT !.phase = "recent", !.todo = RecentSlots(server.last) \cap db.forkChoice]
          /\ UNCHANGED wire
    /\ UNCHANGED <<req, client, ended, events, db>>

\* getUnfinalizedBlocksAtSlots has read the blocks of the hot database.
InjectRecentBlocks ==
    /\ server.phase = "recent"
    /\ LET blocks == server.todo \cap db.hot
       IN  \/ blocks = {} /\ server.last = 0 /\ Fail("RESOURCE_UNAVAILABLE")
           \/ /\ blocks # {} \/ server.last # 0
              /\ server' = [server EXCEPT !.phase = "blocks", !.todo = blocks]
              /\ UNCHANGED <<wire, ended, events>>
    /\ UNCHANGED <<req, client, db>>

\* for (const block of blocks)
YieldBlock ==
    /\ server.phase = "blocks"
    /\ \/ server.todo # {} /\ SendLowest
       \/ server.todo = {} /\ server' = [server EXCEPT !.phase = "finish"] /\ UNCHANGED wire
    /\ UNCHANGED <<req, client, ended, events, db>>

\* onBeaconBlocksByRoot: the fork choice, then the hot database, then the archive
\* through its root index.  The reads of one root are one step.
ServeRoot ==
    /\ server.phase = "roots"
    /\ IF server.todo = {}
       THEN server' = [server EXCEPT !.phase = "finish"] /\ UNCHANGED wire
       ELSE \E s \in server.todo :
              /\ server' = [server EXCEPT !.todo = @ \ {s}]
              /\ wire' = IF s \in db.forkChoice \cap db.hot \/ s \in db.index \cap db.archive
                         THEN wire \o Chunk(s) ELSE wire
    /\ UNCHANGED <<req, client, ended, events, db>>

FinishRequest ==
    /\ server.phase = "finish"
    /\ Finish
    /\ UNCHANGED <<req, client, db>>

\* The connection breaks: what was written may be lost, from any piece on.
Disconnect ==
    /\ client.phase = "read" /\ ~ended
    /\ \E n \in 0..Len(wire) : wire' = SubSeq(wire, 1, n)
    /\ ended' = TRUE
    /\ server' = [server EXCEPT !.phase = "done"]
    /\ UNCHANGED <<req, client, events, db>>

---------------------------------------------------------------------------
(* The responder's archiver (archiveBlocks.ts, blockArchive.ts) moves the  *)
(* blocks up to a finalized one: the copy and the delete run side by side, *)
(* the root index is written without being waited for, and then the fork   *)
(* choice forgets the blocks before the finalized one.                     *)

Finalize(s) ==
    /\ db.moving = {} /\ s \in db.hot
    /\ db' = [db EXCEPT !.moving = {t \in db.hot : t <= s}, !.pending = {"put", "index", "delete", "prune"}]
    /\ UNCHANGED <<req, client, server, wire, ended, events>>

MoveBlocks(step) ==
    /\ step \in db.pending
    /\ step = "prune" => db.pending \cap {"put", "delete"} = {}
    /\ LET last == {t \in db.moving : \A u \in db.moving : u <= t}
           left == db.pending \ {step}
       IN  db' = [db EXCEPT
             !.pending = left,
             !.moving = IF left = {} THEN {} ELSE @,
             !.archive = IF step = "put" THEN @ \cup db.moving ELSE @,
             !.index = IF step = "index" THEN @ \cup db.moving ELSE @,
             !.hot = IF step = "delete" THEN @ \ db.moving ELSE @,
             !.forkChoice = IF step = "prune" THEN (@ \ db.moving) \cup last ELSE @]
    /\ UNCHANGED <<req, client, server, wire, ended, events>>

---------------------------------------------------------------------------
Init ==
    /\ req \in Requests
    /\ client = [phase |-> "dial", next |-> "result", firstByte |-> FALSE,
                 got |-> <<>>, result |-> "none", penalty |-> "none"]
    /\ server = [phase |-> "idle", todo |-> {}, last |-> 0]
    /\ wire = <<>> /\ ended = FALSE /\ events = {}
    /\ \E fin \in {0} \cup Slots :
         db = [archive |-> {s \in Slots : s <= fin}, index |-> {s \in Slots : s <= fin},
               hot |-> {s \in Slots : s > fin}, forkChoice |-> {s \in Slots : s >= fin},
               moving |-> {}, pending |-> {}]

Next ==
    \/ Dial \/ WriteRequest \/ ReadPiece \/ ReadEnd \/ ReadTimeout
    \/ DecodeRequest \/ StreamArchive \/ InjectRecentBlocks \/ YieldBlock \/ ServeRoot \/ FinishRequest
    \/ Disconnect
    \/ \E s \in Slots : Finalize(s)
    \/ \E step \in {"put", "index", "delete", "prune"} : MoveBlocks(step)

\* Each of the requester's waits has a timeout.  Nothing is assumed of the responder.
Fairness == WF_vars(Dial) /\ WF_vars(WriteRequest) /\ WF_vars(ReadTimeout)

Spec == Init /\ [][Next]_vars /\ Fairness

---------------------------------------------------------------------------
\* Whatever the responder's finality does while it answers, the blocks of its answer
\* are accepted: in order, in range, no slot twice, never more than asked for.
HonestAnswerAccepted ==
    /\ client.result # "BLOCKS_BY_RANGE_ERROR"
    /\ client.phase = "done" /\ client.result = "ok" /\ req.method \notin SingleResponse
         => Len(client.got) <= MaxResponses /\ ToSet(client.got) \subseteq Slots

\* A request ends, with an answer or an error, however little the responder does.
RequestEnds == <>(client.phase = "done")
=============================================================================
