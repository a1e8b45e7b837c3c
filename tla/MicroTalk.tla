----------------------------- MODULE MicroTalk -----------------------------
(***************************************************************************)
(* application/micro-talk-client: one thread that works off a queue of     *)
(* scheduled works and serves two connections.  The data channel is opened *)
(* for one request and its answer at a time, on behalf of the session that *)
(* owns it: a file sent or received in chunks, or a command asked for.     *)
(* The notice channel stays open, carries heartbeats and their answers,    *)
(* and notices, which make the client ask for a command.                   *)
(*                                                                         *)
(* A work may run at any moment after it was scheduled: times are left out, *)
(* the queue and its capacity are not.  Each action is one work or one     *)
(* served event, which the single thread runs to its end; only connecting  *)
(* the notice channel is two, with the thread held in between by connect   *)
(* and by the read of the login's answer, which has no timeout.            *)
(***************************************************************************)
EXTENDS Integers, Sequences, FiniteSets

CONSTANTS
    MaxSessions,    \* bound: sessions created in one behaviour
    NChunks,        \* chunks of a file
    IndexMod,       \* indices of heartbeats (255)
    WorksCap,       \* capacity of works_pq (8)
    RingSize,       \* capacity of a connection's ring (8)
    RxSize,         \* size of rx_buff (4096)
    MaxCnt,         \* recv_timout_maxcnt (5)
    MaxUnread,      \* bound: notices and answers on their way
    MaxFaults       \* bound: connections refused or broken by the server

ASSUME MtkAssumption ==
    /\ MaxSessions \in Nat /\ NChunks \in Nat \ {0} /\ IndexMod \in Nat \ {0}
    /\ WorksCap \in Nat \ {0} /\ RingSize \in Nat \ {0} /\ RxSize \in Nat \ {0}
    /\ MaxCnt \in Nat
    /\ MaxUnread \in Nat /\ MaxFaults \in Nat

Sessions == 1 .. MaxSessions
NoReq == [s |-> 0, index |-> 0]

\* What the server makes of a request.  Refused: a header code of 1 or 2;
\* empty: no data; else the first byte of the data: ok for 0, error for 3 and 4,
\* done for the others, and for a command with a file to fetch.
Answers == {"refused", "empty", "ok", "done", "error"}

VARIABLES
    baseid, kind, state, index, \* sessions: session_baseid, and of each its type, state and ci->index
    parts, file,                \* ci->chunk_pq: (priority, chunk) pairs; the pairs merged into a file
    put,                        \* history: chunks the server was sent or asked for
    starts, dcConnects, ncConnects, keepalives, \* works_pq: how many of each work
    cur,                        \* session of the data channel, 0 for none
    dc, req, ans, dcCtx,        \* the data channel, its request, the server's answer, context set
    nc, ncCtx, msgindex,        \* the notice channel
    ring, asked, unread, eof,   \* its heartbeats: queued, sent; what the server sent; its end
    rwait,                      \* its receive timeout: whether it runs, how often it ran out
    rx,                         \* rx_buff after a read that failed: its bytes, and how many it counts
    lost,                       \* history: what a session does not recover from
    faults, alive

sess == <<baseid, kind, state, index, parts, file, put>>
works == <<starts, dcConnects, ncConnects, keepalives>>
data == <<cur, dc, req, ans, dcCtx>>
notice == <<nc, ncCtx, msgindex, ring, asked, unread, eof, rwait>>
vars == <<sess, works, data, notice, rx, lost, faults, alive>>

TypeOK ==
    /\ baseid \in 0 .. MaxSessions
    /\ kind \in [Sessions -> {"send", "recv", "getcmd"}]
    /\ state \in [Sessions -> {"unborn", "REQ", "RSP", "freed"}]
    /\ index \in [Sessions -> 0 .. NChunks - 1]
    /\ parts \in [Sessions -> Seq(Nat \X Int)] /\ file \in [Sessions -> SUBSET (Nat \X Int)]
    /\ put \in [Sessions -> Seq(Nat)]
    /\ starts \in [Sessions -> Nat]
    /\ dcConnects \in Nat /\ ncConnects \in Nat /\ keepalives \in Nat
    /\ cur \in Sessions \cup {0}
    /\ dc \in {"down", "idle", "queued", "asked"}
    /\ req \in [s : Sessions \cup {0}, index : 0 .. NChunks - 1]
    /\ ans \in Answers \cup {"none", "eof", "part"}
    /\ nc \in {"down", "connecting", "up"}
    /\ dcCtx \in BOOLEAN /\ ncCtx \in BOOLEAN
    /\ msgindex \in 0 .. IndexMod
    /\ ring \in Seq(0 .. IndexMod) /\ Len(ring) <= RingSize
    /\ asked \in Seq(0 .. IndexMod) /\ unread \in Seq(0 .. IndexMod)
    /\ eof \in BOOLEAN /\ alive \in BOOLEAN
    /\ rx \in {"clean", "old", "part", "full"}
    /\ rwait \in [runs : BOOLEAN, cnt : 0 .. MaxCnt]
    /\ lost \in SUBSET {"connect", "connected", "answer", "stream", "misread", "start"}
    /\ faults \in 0 .. MaxFaults

\* client.c main: the notice channel is to be connected, and some files sent or
\* received, before the service loop starts.
Init ==
    /\ baseid \in 0 .. MaxSessions
    /\ kind \in {k \in [Sessions -> {"send", "recv"}] : \A s \in Sessions : s > baseid => k[s] = "send"}
    /\ state = [s \in Sessions |-> IF s <= baseid THEN "REQ" ELSE "unborn"]
    /\ index = [s \in Sessions |-> 0]
    /\ parts = [s \in Sessions |-> <<>>] /\ file = [s \in Sessions |-> {}]
    /\ put = [s \in Sessions |-> <<>>]
    /\ starts = [s \in Sessions |-> IF s <= baseid THEN 1 ELSE 0]
    /\ baseid < WorksCap
    /\ dcConnects = 0 /\ ncConnects = 1 /\ keepalives = 0
    /\ cur = 0 /\ dc = "down" /\ req = NoReq /\ ans = "none"
    /\ dcCtx = FALSE /\ ncCtx = FALSE
    /\ nc = "down" /\ msgindex = 0 /\ ring = <<>> /\ asked = <<>> /\ unread = <<>>
    /\ eof = FALSE /\ rwait = [runs |-> FALSE, cnt |-> 0]
    /\ rx = "clean" /\ lost = {} /\ faults = 0 /\ alive = TRUE

-----------------------------------------------------------------------------
(* The work queue *)

\* (A session is in the queue once at the most: NoDangling.)
Starting == {s \in Sessions : starts[s] > 0}

Pending == Cardinality(Starting) + dcConnects + ncConnects + keepalives

\* The thread is free for the next work or event.
Runs == alive /\ nc # "connecting"

\* awoke_minpq_insert: works_pq does not grow.  A refused work is forgotten; the
\* only caller that acts on it is nc_notice_recv, which has its connection closed.
Fits(n) == Pending + n <= WorksCap

\* mtk_work_schedule
Scheduled(count, fits) == IF fits THEN count + 1 ELSE count
Forgotten(fits) == IF fits THEN {} ELSE {"start"}

\* mtk_work_delete of one nc_keepalive of k.
Deleted(k) == IF k > 0 THEN 1 ELSE 0

Fault == faults < MaxFaults /\ faults' = faults + 1

-----------------------------------------------------------------------------
(* Sessions and the data channel *)

\* Mutant of mtk_session_start: a running session does not keep others waiting.
StartAtOnce(s) ==
    /\ Runs /\ starts[s] > 0
    /\ starts' = [starts EXCEPT ![s] = @ - 1]
    /\ cur' = s
    /\ dcConnects' = dcConnects + 1
    /\ UNCHANGED <<sess, ncConnects, keepalives, dc, req, ans, dcCtx, notice, rx, lost, faults, alive>>

\* mtk_session_start: a session goes on, or takes the free channel; the others
\* are put back into the queue, to ask again in a second.
mtk_session_start(s) ==
    /\ Runs /\ starts[s] > 0
    /\ cur \in {0, s}
    /\ starts' = [starts EXCEPT ![s] = @ - 1]
    /\ cur' = s
    /\ dcConnects' = dcConnects + 1
    /\ UNCHANGED <<sess, ncConnects, keepalives, dc, req, ans, dcCtx, notice, rx, lost, faults, alive>>

\* mtk_session_free
Freed(s) ==
    /\ state' = [state EXCEPT ![s] = "freed"]
    /\ index' = [index EXCEPT ![s] = 0]
    /\ put' = [put EXCEPT ![s] = <<>>]

DcConnect ==
    /\ Runs /\ dcConnects > 0
    /\ dcConnects' = dcConnects - 1
    /\ UNCHANGED <<baseid, kind, parts, file, starts, ncConnects, keepalives, notice, rx>>

\* The request of the session: chunksend_request, chunkrecv_request,
\* getcmd_request, called on MTK_CALLBACK_CONNECTION_ESTABLISHED.
req_process ==
    IF cur = 0 THEN dc' = "idle" /\ UNCHANGED <<req, state>>
    ELSE /\ dc' = "queued"
         /\ req' = [s |-> cur, index |-> index[cur]]
         /\ state' = [state EXCEPT ![cur] = "RSP"]

dc_established ==
    /\ DcConnect /\ dc = "down"
    /\ req_process
    /\ ans' = "none" /\ dcCtx' = TRUE
    /\ UNCHANGED <<index, put, cur, lost, faults, alive>>

\* chunksend_request cannot read the file: the session is deleted, the
\* connection stays.
dc_request_fails ==
    /\ DcConnect /\ dc = "down"
    /\ cur # 0 /\ kind[cur] = "send"
    /\ Freed(cur) /\ cur' = 0
    /\ dc' = "idle" /\ ans' = "none" /\ dcCtx' = TRUE
    /\ UNCHANGED <<req, lost, faults, alive>>

\* The connection is up already: nothing is done, and no request made.
dc_already_connected ==
    /\ DcConnect /\ dc # "down"
    /\ lost' = lost \cup {"connected"}
    /\ UNCHANGED <<state, index, put, data, faults, alive>>

\* No connection: mtk_connect_release goes through conn->context, which only a
\* first success sets.  mtk_retry_work_schedule does nothing.
dc_connect_fails ==
    /\ DcConnect /\ dc = "down"
    /\ Fault
    /\ alive' = dcCtx
    /\ lost' = lost \cup {"connect"}
    /\ UNCHANGED <<state, index, put, data>>

\* mtk_handle_write_event, MTK_CALLBACL_CONNECTION_WRITABLE
dc_write ==
    /\ Runs /\ dc = "queued"
    /\ dc' = "asked"
    /\ put' = IF ans = "eof" THEN put ELSE [put EXCEPT ![req.s] = Append(@, req.index)]
    /\ rx' = "clean"
    /\ UNCHANGED <<baseid, kind, state, index, parts, file, works, cur, req, ans, dcCtx, notice, lost, faults, alive>>

\* mtk_connect_release of the data channel
DcReleased == dc' = "down" /\ req' = NoReq /\ ans' = "none" /\ UNCHANGED dcCtx

\* The server has closed: the write fails, or a signal ends the process.
dc_write_fails ==
    /\ Runs /\ dc = "queued" /\ ans = "eof"
    /\ DcReleased
    /\ lost' = lost \cup {"stream"}
    /\ alive' \in BOOLEAN
    /\ UNCHANGED <<sess, works, cur, notice, rx, faults>>

\* short_link_read, the stream ends, or ends within an answer, or within what old
\* bytes at its start make of the answer, or rx_buff has no room at all: the
\* session is not resumed.
dc_read_broken ==
    /\ Runs /\ dc \in {"idle", "asked"}
    /\ ans \in {"eof", "part"} \/ (ans \in Answers /\ rx \in {"part", "full"})
    /\ DcReleased
    /\ rx' \in (IF ans = "eof" \/ rx = "full" THEN {rx} ELSE {"part", "full"})
    /\ lost' = IF dc = "asked" THEN lost \cup {"stream"} ELSE lost
    /\ UNCHANGED <<sess, works, cur, notice, faults, alive>>

\* short_link_read, a whole answer.  Behind bytes that rx_buff counts already it is
\* read as something else.
Receives(a) ==
    /\ Runs /\ dc = "asked" /\ ans \in Answers
    /\ rx # "full" /\ (a = ans \/ rx = "part")
    /\ DcReleased
    /\ rx' = "clean"
    /\ UNCHANGED <<dcConnects, ncConnects, keepalives, notice, faults, alive>>

Misread == IF rx = "part" THEN {"misread"} ELSE {}
Chunk == IF rx = "part" THEN -1 ELSE req.index

\* dc_response_recv, which leaves the session waiting.
dc_response_ignored ==
    /\ \E a \in {"refused", "empty"} : Receives(a)
    /\ lost' = lost \cup {"answer"}
    /\ UNCHANGED <<sess, starts, cur>>

\* Mutant of NextChunk: the session is not started again.
NextChunkNoStart ==
    /\ index' = [index EXCEPT ![cur] = @ + 1]
    /\ state' = [state EXCEPT ![cur] = "REQ"]
    /\ lost' = lost \cup Misread
    /\ UNCHANGED <<cur, starts, put>>

\* Mutant of NextChunk: the same chunk again.
NextChunkSame ==
    /\ state' = [state EXCEPT ![cur] = "REQ"]
    /\ starts' = [starts EXCEPT ![cur] = Scheduled(@, Fits(1))]
    /\ lost' = lost \cup Misread \cup Forgotten(Fits(1))
    /\ UNCHANGED <<cur, index, put>>

\* The next chunk: the session is started again.
NextChunk ==
    /\ index' = [index EXCEPT ![cur] = @ + 1]
    /\ state' = [state EXCEPT ![cur] = "REQ"]
    /\ starts' = [starts EXCEPT ![cur] = Scheduled(@, Fits(1))]
    /\ lost' = lost \cup Misread \cup Forgotten(Fits(1))
    /\ UNCHANGED <<cur, put>>

\* Mutant of Finished: the session is started once more.
FinishedRestarts ==
    /\ state' = [state EXCEPT ![cur] = "freed"]
    /\ cur' = 0
    /\ starts' = [starts EXCEPT ![cur] = @ + 1]
    /\ lost' = lost \cup Misread
    /\ UNCHANGED <<index, put>>

\* Mutant of Finished: the session keeps the channel.
FinishedKeeps ==
    /\ state' = [state EXCEPT ![cur] = "freed"]
    /\ lost' = lost \cup Misread
    /\ UNCHANGED <<cur, index, starts, put>>

\* The session has ended, and its connection with it.
Finished ==
    /\ Freed(cur) /\ cur' = 0
    /\ lost' = lost \cup Misread
    /\ UNCHANGED starts

chunksend_response(a) ==
    /\ Receives(a) /\ cur # 0 /\ kind[cur] = "send"
    /\ IF a = "ok" /\ index[cur] # NChunks - 1 THEN NextChunk ELSE Finished
    /\ UNCHANGED <<baseid, kind, parts, file>>

\* Mutant of mtk_chunkdata_merge: stops before the last chunk.
MergeShort(q) == {q[i] : i \in 1 .. Len(q) - 1}

\* mtk_chunkdata_merge writes the chunks by ascending priority: what is in the
\* file is determined by the pairs.
mtk_chunkdata_merge(q) == {q[i] : i \in DOMAIN q}

\* The file cannot be had, or not be written: mtk_connect_session_del.
chunkrecv_response(a) ==
    /\ Receives(a) /\ cur # 0 /\ kind[cur] = "recv"
    /\ LET q == Append(parts[cur], <<index[cur], Chunk>>) IN
       \/ /\ a = "ok" /\ Len(q) < NChunks
          /\ parts' = [parts EXCEPT ![cur] = q]
          /\ NextChunk /\ UNCHANGED file
       \/ /\ a = "ok" /\ Len(q) = NChunks
          /\ file' = [file EXCEPT ![cur] = mtk_chunkdata_merge(q)]
          /\ parts' = [parts EXCEPT ![cur] = <<>>]
          /\ Finished
       \/ /\ parts' = [parts EXCEPT ![cur] = <<>>]
          /\ a # "ok" \/ Len(q) = NChunks
          /\ Finished /\ UNCHANGED file
    /\ UNCHANGED <<baseid, kind>>

\* A command without a file to fetch, or with one: mtk_voicefile_recv.  (At the
\* bound of sessions there is no file.)
getcmd_response(a) ==
    /\ Receives(a) /\ cur # 0 /\ kind[cur] = "getcmd"
    /\ cur' = 0
    /\ IF a = "done" /\ baseid < MaxSessions
       THEN /\ baseid' = baseid + 1
            /\ kind' = [kind EXCEPT ![baseid + 1] = "recv"]
            /\ state' = [state EXCEPT ![cur] = "freed", ![baseid + 1] = "REQ"]
            /\ put' = [put EXCEPT ![cur] = <<>>]
            /\ starts' = [starts EXCEPT ![baseid + 1] = Scheduled(@, Fits(1))]
            /\ lost' = lost \cup Misread \cup Forgotten(Fits(1))
            /\ UNCHANGED index
       ELSE /\ Freed(cur)
            /\ lost' = lost \cup Misread
            /\ UNCHANGED <<baseid, kind, starts>>
    /\ UNCHANGED <<parts, file>>

rsp_process ==
    \E a \in {"ok", "done", "error"} :
        chunksend_response(a) \/ chunkrecv_response(a) \/ getcmd_response(a)

-----------------------------------------------------------------------------
(* The notice channel *)

nc_already_connected ==
    /\ Runs /\ ncConnects > 0 /\ nc = "up"
    /\ ncConnects' = ncConnects - 1
    /\ UNCHANGED <<sess, starts, dcConnects, keepalives, data, notice, rx, lost, faults, alive>>

\* mtk_client_connect_via_info: the thread is in connect or in mtk_nc_login.
nc_connects ==
    /\ Runs /\ ncConnects > 0 /\ nc = "down"
    /\ ncConnects' = ncConnects - 1
    /\ nc' = "connecting"
    /\ UNCHANGED <<sess, starts, dcConnects, keepalives, data, ncCtx, msgindex, ring, asked, unread, eof, rwait, rx, lost, faults, alive>>

\* Connected and logged in; the first heartbeat is due in a minute.
nc_established ==
    /\ alive /\ nc = "connecting"
    /\ keepalives' = keepalives + 1
    /\ nc' = "up" /\ ncCtx' = TRUE
    /\ UNCHANGED <<sess, starts, dcConnects, ncConnects, data, msgindex, ring, asked, unread, eof, rwait, rx, lost, faults, alive>>

\* No connection, or the login fails.  mtk_connect_release schedules a retry, for
\* which the queue has the place of this work, and mtk_nc_connect another; before
\* the first success the release goes through a null pointer.  (So, in effect,
\* does a redirect: it calls the callback of an info it has not initialised.)
nc_connect_fails ==
    /\ alive /\ nc = "connecting"
    /\ Fault
    /\ alive' = ncCtx
    /\ nc' = "down"
    /\ IF ncCtx
       THEN /\ keepalives' = keepalives - Deleted(keepalives)
            /\ ncConnects' = Scheduled(ncConnects + 1, Fits(2 - Deleted(keepalives)))
       ELSE UNCHANGED <<keepalives, ncConnects>>
    /\ UNCHANGED <<sess, starts, dcConnects, data, ncCtx, msgindex, ring, asked, unread, eof, rwait, rx, lost>>

\* nc_build_heartbeat, into a ring that overwrites its oldest.
Heartbeat == IF Len(ring) < RingSize THEN Append(ring, msgindex) ELSE Append(Tail(ring), msgindex)

nc_keepalive ==
    /\ Runs /\ keepalives > 0
    /\ keepalives' = keepalives - 1
    /\ ring' = IF nc = "up" THEN Heartbeat ELSE ring
    /\ UNCHANGED <<sess, starts, dcConnects, ncConnects, data, nc, ncCtx, msgindex, asked, unread, eof, rwait, rx, lost, faults, alive>>

\* mtk_service_connect once the handler has returned: the timeout is stopped,
\* also the one that mtk_connect_write has just started.
Served(w) == [runs |-> FALSE, cnt |-> 0]

nc_write ==
    /\ Runs /\ nc = "up" /\ ring # <<>>
    /\ ring' = Tail(ring)
    /\ asked' = IF eof THEN asked ELSE Append(asked, Head(ring))
    /\ rwait' = Served([rwait EXCEPT !.runs = TRUE])
    /\ rx' = "clean"
    /\ UNCHANGED <<sess, works, data, nc, ncCtx, msgindex, unread, eof, lost, faults, alive>>

\* Mutant of NcReleased: nothing is scheduled.
NcReleasedNoRetry(k, n) ==
    /\ nc' = "down" /\ ring' = <<>> /\ asked' = <<>> /\ unread' = <<>> /\ eof' = FALSE
    /\ rwait' = [runs |-> FALSE, cnt |-> 0]
    /\ keepalives' = k - Deleted(k)
    /\ UNCHANGED <<dcConnects, ncConnects, data, ncCtx, faults>>

\* mtk_connect_release of the notice channel, with n works in the queue of which k
\* are keepalives: one of those is taken out, a retry put in.
NcReleased(k, n) ==
    /\ nc' = "down" /\ ring' = <<>> /\ asked' = <<>> /\ unread' = <<>> /\ eof' = FALSE
    /\ rwait' = [runs |-> FALSE, cnt |-> 0]
    /\ keepalives' = k - Deleted(k)
    /\ ncConnects' = Scheduled(ncConnects, n - Deleted(k) < WorksCap)
    /\ UNCHANGED <<dcConnects, data, ncCtx, faults>>

NcClosed == NcReleased(keepalives, Pending) /\ UNCHANGED <<sess, starts, msgindex, lost>>

nc_write_fails ==
    /\ Runs /\ nc = "up" /\ ring # <<>> /\ eof
    /\ NcClosed
    /\ alive' \in BOOLEAN
    /\ UNCHANGED rx

\* light_link_read takes what rx_buff holds and looks at the first byte; at the end
\* of the stream that is what the buffer held before.  A full buffer is handed
\* on as it is, and nothing received.
FirstByte(b) ==
    \/ rx = "full" /\ (unread # <<>> \/ eof)
    \/ rx # "full" /\ unread # <<>> /\ b = Head(unread)
    \/ rx # "full" /\ unread = <<>> /\ eof /\ (b = 0 \/ rx # "clean")

NcRead(b) == Runs /\ nc = "up" /\ ring = <<>> /\ FirstByte(b)

\* mtk_service_connect: the handler succeeds, ...
NcServed ==
    /\ unread' = IF rx = "full" THEN unread ELSE SubSeq(unread, RxSize + 1, Len(unread))
    /\ rwait' = Served(rwait)
    /\ rx' = "clean"

\* ... or not, and what it has read stays in rx_buff.
RxKept ==
    rx' = IF rx = "full" \/ Len(unread) >= RxSize THEN "full"
          ELSE IF unread # <<>> THEN "part"
          ELSE IF rx = "clean" THEN "clean" ELSE "old"

\* recv fails: the peer has closed and thrown away a heartbeat.
nc_read_fails ==
    /\ Runs /\ nc = "up" /\ ring = <<>> /\ eof /\ rx # "full"
    /\ NcClosed
    /\ UNCHANGED <<rx, alive>>

\* Mutant of nc_notice_index: does not wrap.
IndexNoWrap == msgindex + 1

nc_notice_index == (msgindex % IndexMod) + 1

\* nc_notice_recv: a notice.  The session it creates is added to the queue, ...
\* (At the bound of sessions no notice is read.)
GetCommand ==
    /\ NcRead(0) /\ baseid < MaxSessions
    /\ baseid' = baseid + 1
    /\ kind' = [kind EXCEPT ![baseid + 1] = "getcmd"]
    /\ state' = [state EXCEPT ![baseid + 1] = "REQ"]
    /\ msgindex' = nc_notice_index
    /\ UNCHANGED <<index, parts, file, put>>

nc_notice ==
    /\ GetCommand /\ Fits(2)
    /\ keepalives' = keepalives + 1
    /\ starts' = [starts EXCEPT ![baseid + 1] = @ + 1]
    /\ NcServed
    /\ UNCHANGED <<dcConnects, ncConnects, data, nc, ncCtx, ring, asked, eof, lost, faults, alive>>

\* ... or the queue refuses it: the session is never started, and the connection
\* is closed.
nc_notice_full ==
    /\ GetCommand /\ ~Fits(2)
    /\ lost' = lost \cup {"start"}
    /\ NcReleased(Scheduled(keepalives, Fits(1)), Scheduled(Pending, Fits(1)))
    /\ RxKept
    /\ UNCHANGED <<starts, alive>>

\* Mutant of nc_ack: the next heartbeat is not scheduled.
AckEnds ==
    /\ NcRead(msgindex) /\ msgindex # 0
    /\ msgindex' = nc_notice_index
    /\ NcServed
    /\ UNCHANGED <<sess, works, data, nc, ncCtx, ring, asked, eof, lost, faults, alive>>

\* The answer to the latest heartbeat, ...
nc_ack ==
    /\ NcRead(msgindex) /\ msgindex # 0
    /\ keepalives' = Scheduled(keepalives, Fits(1))
    /\ msgindex' = nc_notice_index
    /\ NcServed
    /\ UNCHANGED <<sess, starts, dcConnects, ncConnects, data, nc, ncCtx, ring, asked, eof, lost, faults, alive>>

\* ... or another: the connection is closed.
nc_ack_error ==
    /\ \E b \in 1 .. IndexMod : b # msgindex /\ NcRead(b)
    /\ NcClosed
    /\ RxKept
    /\ UNCHANGED alive

\* mtk_service_adjust_timeout, MTK_CALLBACK_CONNECTION_RECEIVE_TIMEOUT
mtk_service_adjust_timeout ==
    /\ Runs /\ nc = "up" /\ rwait.runs
    /\ IF rwait.cnt + 1 >= MaxCnt THEN NcClosed
       ELSE /\ rwait' = [rwait EXCEPT !.cnt = @ + 1]
            /\ ring' = Heartbeat
            /\ UNCHANGED <<sess, works, data, nc, ncCtx, msgindex, asked, unread, eof, lost, faults>>
    /\ UNCHANGED <<rx, alive>>

-----------------------------------------------------------------------------
(* The server, external *)

dc_answer ==
    /\ dc = "asked" /\ ans = "none"
    /\ ans' \in Answers
    /\ UNCHANGED <<sess, works, cur, dc, req, dcCtx, notice, rx, lost, faults, alive>>

\* The server closes, possibly in the middle of its answer.
dc_close ==
    /\ dc # "down" /\ ans = "none"
    /\ Fault
    /\ ans' \in (IF dc = "asked" THEN {"eof", "part"} ELSE {"eof"})
    /\ UNCHANGED <<sess, works, cur, dc, req, dcCtx, notice, rx, lost, alive>>

NcSends(b) ==
    /\ nc = "up" /\ ~eof /\ Len(unread) < MaxUnread
    /\ unread' = Append(unread, b)
    /\ UNCHANGED <<sess, works, data, nc, ncCtx, msgindex, ring, eof, rwait, rx, lost, faults, alive>>

\* (Bound: as many notices as there are sessions left.)
nc_sends_notice == baseid + Len(unread) < MaxSessions /\ NcSends(0) /\ UNCHANGED asked

nc_answers == asked # <<>> /\ NcSends(Head(asked)) /\ asked' = Tail(asked)

nc_close ==
    /\ nc = "up" /\ ~eof
    /\ Fault
    /\ eof' = TRUE
    /\ UNCHANGED <<sess, works, data, nc, ncCtx, msgindex, ring, asked, unread, rwait, rx, lost, alive>>

-----------------------------------------------------------------------------

mtk_dc_connect == dc_established \/ dc_request_fails \/ dc_already_connected \/ dc_connect_fails

DcService == dc_write \/ dc_write_fails \/ dc_read_broken \/ dc_response_ignored \/ rsp_process

mtk_nc_connect == nc_already_connected \/ nc_connects \/ nc_established \/ nc_connect_fails

NcService ==
    nc_write \/ nc_write_fails \/ nc_read_fails \/ nc_notice \/ nc_notice_full \/ nc_ack \/ nc_ack_error

Server == dc_answer \/ dc_close \/ nc_sends_notice \/ nc_answers \/ nc_close

Next ==
    \/ \E s \in Sessions : mtk_session_start(s)
    \/ mtk_dc_connect \/ DcService
    \/ mtk_nc_connect \/ nc_keepalive \/ NcService
    \/ Server

Spec == Init /\ [][Next]_vars

\* Works are ordered by the time they are due, so each of them is run, and every
\* round of the loop runs one and serves both connections: between two attempts to
\* connect the notice channel, which put the thread to sleep, every work that is
\* due has its turn, and so has the data channel.  The server of the data channel
\* answers requests, in whole, or closes.
FairSpec ==
    /\ Spec
    /\ \A s \in Sessions : SF_vars(mtk_session_start(s))
    /\ SF_vars(mtk_dc_connect) /\ SF_vars(DcService)
    /\ WF_vars(dc_answer)

\* The same with the timeouts of the notice channel, and a client that keeps
\* serving it.
TimeoutSpec ==
    /\ Init /\ [][Next \/ mtk_service_adjust_timeout]_vars
    /\ WF_vars(mtk_service_adjust_timeout) /\ WF_vars(NcService)
    /\ WF_vars(nc_keepalive) /\ WF_vars(mtk_nc_connect)

-----------------------------------------------------------------------------
(* Properties *)

Live(s) == state[s] \in {"REQ", "RSP"}

\* How many things are under way that move session s on: a work that starts it,
\* a work that connects for it, a request that is out.
Moves(s) ==
    starts[s] + (IF cur = s THEN dcConnects + (IF state[s] = "RSP" /\ req.s = s THEN 1 ELSE 0) ELSE 0)

\* No work and no connection refers to a session that was freed, and none is
\* driven by two works at once, which would free it under the other.
NoDangling ==
    /\ \A s \in Sessions : Moves(s) <= 1 /\ (Moves(s) > 0 => Live(s))
    /\ cur # 0 => Live(cur)

\* An answer is handled by the session that asked for it, and for the chunk it
\* asked for.
AnswerToAsker ==
    dc \in {"queued", "asked"} => cur # 0 /\ state[cur] = "RSP" /\ req = [s |-> cur, index |-> index[cur]]

\* Until something happens that the client does not recover from, every session
\* that has not ended has a next step.
NeverForgotten == lost = {} /\ alive => \A s \in Sessions : Live(s) => Moves(s) = 1

\* The chunks of a file are sent, or asked for, in order and once.
ChunksInOrder == \A s \in Sessions : \A i \in DOMAIN put[s] : put[s][i] = i - 1

\* A file that was put together has every chunk in its place.
FileExact ==
    "misread" \notin lost =>
        \A s \in Sessions : file[s] # {} => file[s] = {<<i, i>> : i \in 0 .. NChunks - 1}

\* While the notice channel is down, an attempt to connect it is scheduled.  That
\* is so until it is closed with the work queue full and no heartbeat in it that
\* could make room; no other step leaves the channel down for good, failed
\* connects and logins included.
ReconnectPending ==
    [][alive' /\ nc' = "down" /\ ncConnects' = 0 =>
          \/ nc = "down" /\ ncConnects = 0
          \/ nc = "up" /\ keepalives = 0 /\ ~Fits(1)]_vars

\* A heartbeat is due, queued or sent, or its answer on the way, or the end of the
\* stream to be read.
Beats == keepalives > 0 \/ ring # <<>> \/ asked # <<>> \/ unread # <<>> \/ eof

\* While it is up, the exchange of heartbeats goes on.  It ends only when an answer
\* is read while the work queue is full and nothing else is under way.
HeartbeatGoesOn == [][nc' = "up" /\ ~Beats' => nc = "up" /\ (~Beats \/ ~Fits(1))]_vars

\* "is there pending things that needs service forcing?" (micro_talk.c:467) asks for
\* receive timeouts: a heartbeat that the server does not answer within
\* recv_timout_us is sent again, and after recv_timout_maxcnt times the connection
\* is closed.
HeartbeatWatched ==
    asked # <<>> ~> (asked = <<>> \/ ring # <<>> \/ nc = "down" \/ ~alive)

\* No server of the notice channel keeps a login waiting for ever.
LoginsReturn == []<>(nc # "connecting")

\* As long as logins return, every session comes to its end and is freed, whatever
\* the others do and whatever happens to the notice channel: however often it is
\* closed and connected again, and even when its answers are misread.
EverySessionEnds ==
    LoginsReturn => \A s \in Sessions : state[s] = "REQ" ~> (state[s] = "freed" \/ lost # {} \/ ~alive)

=============================================================================
