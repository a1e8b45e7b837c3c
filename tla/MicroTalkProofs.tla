-------------------------- MODULE MicroTalkProofs --------------------------
(***************************************************************************)
(* The safety properties of MicroTalk for any number of sessions, chunks,  *)
(* faults and any capacity of the work queue.  A session's state says what *)
(* moves it on, and the data channel belongs to one session at a time:     *)
(* Session and Channel state both, Sent and Received follow the chunks     *)
(* along.  The notice channel needs of this only that the work queue never *)
(* holds more than its capacity: QueueFits.                                *)
(***************************************************************************)
EXTENDS MicroTalk, FiniteSetTheorems, TLAPS

USE MtkAssumption

States == {"unborn", "REQ", "RSP", "freed"}
Kinds == {"send", "recv", "getcmd"}

DataTypes ==
    /\ baseid \in 0 .. MaxSessions
    /\ kind \in [Sessions -> Kinds]
    /\ state \in [Sessions -> States]
    /\ index \in [Sessions -> Nat]
    /\ parts \in [Sessions -> Seq(Nat \X Int)]
    /\ file \in [Sessions -> SUBSET (Nat \X Int)]
    /\ put \in [Sessions -> Seq(Nat)]
    /\ starts \in [Sessions -> Nat]
    /\ dcConnects \in Nat
    /\ cur \in Sessions \cup {0}
    /\ dc \in {"down", "idle", "queued", "asked"}
    /\ ans \in Answers \cup {"none", "eof", "part"}

\* The data channel works for its session only.
Channel ==
    /\ dcConnects \in {0, 1}
    /\ dcConnects = 1 => cur # 0
    /\ AnswerToAsker
    /\ dc \in {"down", "idle"} => req = NoReq

\* What moves a session on follows from its state.
Session(s) ==
    /\ state[s] = "unborn" <=> s > baseid
    /\ starts[s] \in {0, 1}
    /\ starts[s] = 1 => state[s] = "REQ"
    /\ cur = s => Live(s)
    /\ cur = s /\ dcConnects = 1 => state[s] = "REQ" /\ starts[s] = 0
    /\ state[s] \in {"unborn", "freed"} => index[s] = 0 /\ put[s] = <<>> /\ parts[s] = <<>>
    /\ lost = {} /\ state[s] = "REQ" => starts[s] = 1 \/ (cur = s /\ dcConnects = 1)
    /\ lost = {} /\ state[s] = "RSP" => cur = s /\ dc \in {"queued", "asked"}

\* How far a session is with its chunks.
Sent(s) ==
    /\ index[s] <= NChunks - 1
    /\ \A i \in DOMAIN put[s] : put[s][i] = i - 1
    /\ state[s] = "REQ" => Len(put[s]) = index[s]
    /\ cur = s /\ dc = "queued" => Len(put[s]) = index[s]
    /\ cur = s /\ dc = "asked" /\ ans # "eof" => Len(put[s]) = index[s] + 1

Whole == {<<i, i>> : i \in 0 .. NChunks - 1}

Received(s) ==
    /\ kind[s] = "getcmd" => index[s] = 0
    /\ kind[s] = "recv" /\ Live(s) => Len(parts[s]) = index[s]
    /\ kind[s] # "recv" => parts[s] = <<>>
    /\ "misread" \notin lost => \A i \in DOMAIN parts[s] : parts[s][i] = <<i - 1, i - 1>>
    /\ "misread" \notin lost => file[s] = {} \/ file[s] = Whole

DataInv ==
    /\ DataTypes
    /\ Channel
    /\ \A s \in Sessions : Session(s) /\ Sent(s) /\ Received(s)

LEMMA SessionsFacts == 0 \notin Sessions /\ Sessions \subseteq Nat /\ \A s \in Sessions : s <= MaxSessions
  BY DEF Sessions

LEMMA DataInit == Init => DataInv
  <1> SUFFICES ASSUME Init PROVE DataInv
    OBVIOUS
  <1>1. DataTypes
    BY DEF Init, DataTypes, States, Kinds
  <1>2. Channel
    BY DEF Init, Channel, AnswerToAsker
  <1>3. ASSUME NEW s \in Sessions PROVE Session(s)
    BY SessionsFacts DEF Init, Session, Live
  <1>4. ASSUME NEW s \in Sessions PROVE Sent(s)
    BY SessionsFacts DEF Init, Sent
  <1>5. ASSUME NEW s \in Sessions PROVE Received(s)
    BY SessionsFacts DEF Init, Received, Live
  <1> QED BY <1>1, <1>2, <1>3, <1>4, <1>5 DEF DataInv

\* The notice channel does not touch the sessions there are.
LEMMA DataKept ==
    ASSUME DataInv, UNCHANGED <<sess, starts, dcConnects, cur, dc, req, ans>>, lost \subseteq lost'
    PROVE  DataInv'
  <1>1. DataTypes'
    BY DEF DataInv, DataTypes, sess
  <1>2. Channel'
    BY DEF DataInv, Channel, AnswerToAsker, sess
  <1>3. ASSUME NEW s \in Sessions PROVE Session(s)'
    BY DEF DataInv, Session, Live, sess
  <1>4. ASSUME NEW s \in Sessions PROVE Sent(s)'
    BY DEF DataInv, Sent, sess
  <1>5. ASSUME NEW s \in Sessions PROVE Received(s)'
    BY DEF DataInv, Received, Live, sess
  <1> QED BY <1>1, <1>2, <1>3, <1>4, <1>5 DEF DataInv

LEMMA KeepsStart ==
    ASSUME DataInv, NEW t \in Sessions, mtk_session_start(t) PROVE DataInv'
  <1> USE DEF mtk_session_start, sess
  <1>0. starts[t] = 1 /\ state[t] = "REQ" /\ dcConnects = 0
    BY SessionsFacts DEF DataInv, DataTypes, Channel, Session
  <1>1. DataTypes'
    BY <1>0, SessionsFacts DEF DataInv, DataTypes
  <1>2. Channel'
    BY <1>0, SessionsFacts DEF DataInv, DataTypes, Channel, AnswerToAsker, Session
  <1>3. ASSUME NEW s \in Sessions PROVE Session(s)'
    BY <1>0, SessionsFacts DEF DataInv, DataTypes, Session, Live
  <1>4. ASSUME NEW s \in Sessions PROVE Sent(s)'
    BY <1>0, SessionsFacts DEF DataInv, DataTypes, Sent, Channel, AnswerToAsker
  <1>5. ASSUME NEW s \in Sessions PROVE Received(s)'
    BY DEF DataInv, Received, Live
  <1> QED BY <1>1, <1>2, <1>3, <1>4, <1>5 DEF DataInv

LEMMA KeepsEstablished == ASSUME DataInv, dc_established PROVE DataInv'
  <1> USE DEF dc_established, DcConnect, req_process
  <1>0. cur \in Sessions /\ cur # 0 /\ dcConnects = 1 /\ state[cur] = "REQ" /\ starts[cur] = 0
    BY SessionsFacts DEF DataInv, DataTypes, Channel, Session
  <1>b. state' = [state EXCEPT ![cur] = "RSP"] /\ dcConnects' = 0
    BY <1>0
  <1>a. state' \in [Sessions -> States]
    BY <1>0, <1>b DEF DataInv, DataTypes, States
  <1>1. DataTypes'
    BY <1>0, <1>a, <1>b DEF DataInv, DataTypes
  <1>2. Channel'
    BY <1>0 DEF DataInv, DataTypes, Channel, AnswerToAsker, NoReq
  <1>3. ASSUME NEW s \in Sessions PROVE Session(s)'
    BY <1>0 DEF DataInv, DataTypes, Session, Live
  <1>4. ASSUME NEW s \in Sessions PROVE Sent(s)'
    BY <1>0 DEF DataInv, DataTypes, Sent
  <1>5. ASSUME NEW s \in Sessions PROVE Received(s)'
    BY <1>0 DEF DataInv, DataTypes, Received, Live
  <1> QED BY <1>1, <1>2, <1>3, <1>4, <1>5 DEF DataInv

LEMMA KeepsRequestFails == ASSUME DataInv, dc_request_fails PROVE DataInv'
  <1> USE DEF dc_request_fails, DcConnect, Freed
  <1>0. cur \in Sessions /\ cur # 0 /\ dcConnects = 1 /\ starts[cur] = 0 /\ parts[cur] = <<>>
    BY SessionsFacts DEF DataInv, DataTypes, Channel, Session, Received
  <1>a. state' \in [Sessions -> States] /\ dcConnects' = 0
    BY <1>0 DEF DataInv, DataTypes, States
  <1>b. index' \in [Sessions -> Nat] /\ put' \in [Sessions -> Seq(Nat)]
    BY <1>0 DEF DataInv, DataTypes
  <1>1. DataTypes'
    BY <1>0, <1>a, <1>b DEF DataInv, DataTypes
  <1>2. Channel'
    BY <1>0, <1>a DEF DataInv, DataTypes, Channel, AnswerToAsker
  <1>3. ASSUME NEW s \in Sessions PROVE Session(s)'
    BY <1>0, <1>a, SessionsFacts DEF DataInv, DataTypes, Session, Live
  <1>4. ASSUME NEW s \in Sessions PROVE Sent(s)'
    BY <1>0, SessionsFacts DEF DataInv, DataTypes, Sent
  <1>5. ASSUME NEW s \in Sessions PROVE Received(s)'
    BY <1>0 DEF DataInv, DataTypes, Received, Live
  <1> QED BY <1>1, <1>2, <1>3, <1>4, <1>5 DEF DataInv

\* A connection that is not made for the session: it stays where it was, and that
\* is noted.
LEMMA KeepsNoConnect ==
    ASSUME DataInv, dc_already_connected \/ dc_connect_fails PROVE DataInv'
  <1> USE DEF dc_already_connected, dc_connect_fails, DcConnect, data
  <1>a. dcConnects = 1 /\ dcConnects' = 0
    BY DEF DataInv, DataTypes, Channel
  <1>b. \E x : lost' = lost \cup {x}
    OBVIOUS
  <1>0. dcConnects = 1 /\ dcConnects' = 0 /\ lost' # {} /\ lost \subseteq lost'
    BY <1>a, <1>b
  <1>1. DataTypes'
    BY <1>0 DEF DataInv, DataTypes
  <1>2. Channel'
    BY <1>0 DEF DataInv, DataTypes, Channel, AnswerToAsker
  <1>3. ASSUME NEW s \in Sessions PROVE Session(s)'
    BY <1>0 DEF DataInv, DataTypes, Session, Live
  <1>4. ASSUME NEW s \in Sessions PROVE Sent(s)'
    BY <1>0 DEF DataInv, DataTypes, Sent
  <1>5. ASSUME NEW s \in Sessions PROVE Received(s)'
    BY <1>0 DEF DataInv, DataTypes, Received, Live
  <1> QED BY <1>1, <1>2, <1>3, <1>4, <1>5 DEF DataInv

LEMMA KeepsWrite == ASSUME DataInv, dc_write PROVE DataInv'
  <1> USE DEF dc_write, works
  <1>0. cur \in Sessions /\ cur # 0 /\ state[cur] = "RSP" /\ req.s = cur /\ req.index = index[cur]
    BY DEF DataInv, DataTypes, Channel, AnswerToAsker
  <1>a. put[cur] \in Seq(Nat) /\ Len(put[cur]) = index[cur] /\ index[cur] \in Nat
    BY <1>0 DEF DataInv, DataTypes, Sent
  <1>b. put' \in [Sessions -> Seq(Nat)]
    BY <1>0, <1>a DEF DataInv, DataTypes
  <1>1. DataTypes'
    BY <1>b DEF DataInv, DataTypes
  <1>2. Channel'
    BY <1>0 DEF DataInv, DataTypes, Channel, AnswerToAsker
  <1>3. ASSUME NEW s \in Sessions PROVE Session(s)'
    BY <1>0 DEF DataInv, DataTypes, Session, Live
  <1>4. ASSUME NEW s \in Sessions PROVE Sent(s)'
    <2>1. CASE s = cur /\ ans # "eof"
      <3>1. put'[s] = Append(put[s], index[s]) /\ Len(put'[s]) = index[s] + 1
        BY <2>1, <1>0, <1>a DEF DataInv, DataTypes
      <3>2. \A i \in DOMAIN put'[s] : put'[s][i] = i - 1
        <4>1. \A i \in DOMAIN put[s] : put[s][i] = i - 1
          BY DEF DataInv, Sent
        <4> HIDE DEF dc_write
        <4> QED BY <2>1, <3>1, <1>a, <4>1
      <3> QED BY <2>1, <3>1, <3>2, <1>0 DEF DataInv, DataTypes, Sent
    <2>2. CASE ~(s = cur /\ ans # "eof")
      <3>1. put'[s] = put[s]
        BY <2>2, <1>0 DEF DataInv, DataTypes
      <3>2. Sent(s) /\ dc' = "asked" /\ UNCHANGED <<cur, ans, state, index>>
        BY DEF DataInv
      <3> HIDE DEF dc_write
      <3> QED BY <2>2, <3>1, <3>2 DEF Sent
    <2> QED BY <2>1, <2>2
  <1>5. ASSUME NEW s \in Sessions PROVE Received(s)'
    BY DEF DataInv, Received, Live
  <1> QED BY <1>1, <1>2, <1>3, <1>4, <1>5 DEF DataInv

\* The connection ends without an answer that moves the session.
LEMMA KeepsBroken ==
    ASSUME DataInv, dc_write_fails \/ dc_read_broken \/ dc_response_ignored PROVE DataInv'
  <1> USE DEF dc_write_fails, dc_read_broken, dc_response_ignored, Receives, DcReleased, sess, works
  <1>0. /\ UNCHANGED <<sess, starts, dcConnects, cur>> /\ lost \subseteq lost'
        /\ dc' = "down" /\ req' = NoReq /\ ans' = "none"
        /\ dc = "idle" \/ lost' # {}
    OBVIOUS
  <1> HIDE DEF dc_write_fails, dc_read_broken, dc_response_ignored, Receives, DcReleased
  <1>1. DataTypes'
    BY <1>0 DEF DataInv, DataTypes
  <1>2. Channel'
    BY <1>0 DEF DataInv, DataTypes, Channel, AnswerToAsker
  <1>3. ASSUME NEW s \in Sessions PROVE Session(s)'
    BY <1>0 DEF DataInv, DataTypes, Session, Live
  <1>4. ASSUME NEW s \in Sessions PROVE Sent(s)'
    BY <1>0 DEF DataInv, DataTypes, Sent
  <1>5. ASSUME NEW s \in Sessions PROVE Received(s)'
    BY <1>0 DEF DataInv, DataTypes, Received, Live
  <1> QED BY <1>1, <1>2, <1>3, <1>4, <1>5 DEF DataInv

-----------------------------------------------------------------------------
(* Answers *)

\* An answer finds the session that waits for it, with its chunk sent.
LEMMA Waiting ==
    ASSUME DataInv, NEW a, Receives(a)
    PROVE  /\ cur \in Sessions /\ cur # 0 /\ state[cur] = "RSP"
           /\ dcConnects = 0 /\ starts[cur] = 0
           /\ req.index = index[cur]
           /\ Len(put[cur]) = index[cur] + 1
           /\ dc' = "down" /\ req' = NoReq /\ ans' = "none" /\ dcConnects' = 0
  <1>1. cur \in Sessions /\ cur # 0 /\ state[cur] = "RSP" /\ req.index = index[cur]
    BY DEF DataInv, DataTypes, Channel, AnswerToAsker, Receives
  <1>2. dcConnects = 0 /\ starts[cur] = 0
    BY <1>1 DEF DataInv, DataTypes, Channel, Session
  <1>3. Len(put[cur]) = index[cur] + 1
    BY <1>1 DEF DataInv, Sent, Receives, Answers
  <1> QED BY <1>1, <1>2, <1>3 DEF Receives, DcReleased

\* What all of NextChunk keeps, whatever is done with the chunk itself.
LEMMA NextChunkKeeps ==
    ASSUME DataInv, NEW a, Receives(a), NextChunk, index[cur] < NChunks - 1,
           UNCHANGED <<baseid, kind>>,
           parts' \in [Sessions -> Seq(Nat \X Int)],
           file' \in [Sessions -> SUBSET (Nat \X Int)],
           \A s \in Sessions : s # cur => parts'[s] = parts[s]
    PROVE  DataTypes' /\ Channel' /\ \A s \in Sessions : Session(s)' /\ Sent(s)'
  <1> USE DEF NextChunk
  <1>0. /\ cur \in Sessions /\ cur # 0 /\ state[cur] = "RSP"
        /\ dcConnects = 0 /\ starts[cur] = 0
        /\ Len(put[cur]) = index[cur] + 1
        /\ dc' = "down" /\ req' = NoReq /\ ans' = "none" /\ dcConnects' = 0
    BY Waiting
  <1>a. state' \in [Sessions -> States] /\ index' \in [Sessions -> Nat] /\ starts' \in [Sessions -> Nat]
    <2>1. state' \in [Sessions -> States]
      BY <1>0 DEF DataInv, DataTypes, States
    <2>2. index' \in [Sessions -> Nat]
      BY <1>0 DEF DataInv, DataTypes
    <2>3. starts' \in [Sessions -> Nat]
      BY <1>0 DEF DataInv, DataTypes, Scheduled
    <2> QED BY <2>1, <2>2, <2>3
  <1>1. DataTypes'
    BY <1>0, <1>a DEF DataInv, DataTypes
  <1>2. Channel'
    BY <1>0 DEF Channel, AnswerToAsker
  <1>3. ASSUME NEW s \in Sessions PROVE Session(s)'
    <2>1. CASE s = cur
      <3>1. state'[s] = "REQ" /\ starts'[s] = Scheduled(0, Fits(1)) /\ state[s] # "unborn"
        BY <1>0, <2>1 DEF DataInv, DataTypes
      <3>2. lost' = {} => Fits(1)
        BY DEF Forgotten
      <3> QED BY <1>0, <2>1, <3>1, <3>2 DEF DataInv, Session, Live, Scheduled
    <2>2. CASE s # cur
      <3>1. state'[s] = state[s] /\ starts'[s] = starts[s] /\ index'[s] = index[s] /\ parts'[s] = parts[s]
        BY <1>0, <2>2 DEF DataInv, DataTypes
      <3>2. lost' = {} => lost = {}
        OBVIOUS
      <3> QED BY <1>0, <2>2, <3>1, <3>2 DEF DataInv, Session, Live
    <2> QED BY <2>1, <2>2
  <1>4. ASSUME NEW s \in Sessions PROVE Sent(s)'
    BY <1>0, SessionsFacts DEF DataInv, DataTypes, Sent
  <1> QED BY <1>1, <1>2, <1>3, <1>4

\* The same for the end of a session.
LEMMA FreedKeeps ==
    ASSUME DataInv, NEW a, Receives(a), Freed(cur), cur' = 0, lost \subseteq lost',
           UNCHANGED <<baseid, kind, starts>>,
           parts' = [parts EXCEPT ![cur] = <<>>],
           file' \in [Sessions -> SUBSET (Nat \X Int)]
    PROVE  DataTypes' /\ Channel' /\ \A s \in Sessions : Session(s)' /\ Sent(s)'
  <1> USE DEF Freed
  <1>0. /\ cur \in Sessions /\ cur # 0 /\ state[cur] = "RSP"
        /\ dcConnects = 0 /\ starts[cur] = 0
        /\ dc' = "down" /\ req' = NoReq /\ ans' = "none" /\ dcConnects' = 0
    BY Waiting
  <1>a. state' \in [Sessions -> States] /\ index' \in [Sessions -> Nat]
    BY <1>0 DEF DataInv, DataTypes, States
  <1>b. put' \in [Sessions -> Seq(Nat)] /\ parts' \in [Sessions -> Seq(Nat \X Int)]
    BY <1>0 DEF DataInv, DataTypes
  <1>1. DataTypes'
    BY <1>0, <1>a, <1>b DEF DataInv, DataTypes
  <1>2. Channel'
    BY <1>0 DEF Channel, AnswerToAsker
  <1>3. ASSUME NEW s \in Sessions PROVE Session(s)'
    BY <1>0, SessionsFacts DEF DataInv, DataTypes, Session, Live
  <1>4. ASSUME NEW s \in Sessions PROVE Sent(s)'
    BY <1>0, SessionsFacts DEF DataInv, DataTypes, Sent
  <1> QED BY <1>1, <1>2, <1>3, <1>4

LEMMA KeepsSend == ASSUME DataInv, NEW a, chunksend_response(a) PROVE DataInv'
  <1>0. /\ Receives(a) /\ cur \in Sessions /\ kind[cur] = "send" /\ parts[cur] = <<>>
        /\ index[cur] \in Nat /\ index[cur] <= NChunks - 1
        /\ UNCHANGED <<baseid, kind, parts, file>>
    BY Waiting DEF DataInv, DataTypes, Received, Sent, chunksend_response
  <1>1. CASE a = "ok" /\ index[cur] # NChunks - 1
    <2>1. NextChunk /\ index[cur] < NChunks - 1
      BY <1>0, <1>1 DEF chunksend_response
    <2>2. DataTypes' /\ Channel' /\ \A s \in Sessions : Session(s)' /\ Sent(s)'
      BY <1>0, <2>1, NextChunkKeeps DEF DataInv, DataTypes
    <2>3. ASSUME NEW s \in Sessions PROVE Received(s)'
      BY <1>0, <2>1 DEF DataInv, DataTypes, Received, Live, NextChunk
    <2> QED BY <2>2, <2>3 DEF DataInv
  <1>2. CASE ~(a = "ok" /\ index[cur] # NChunks - 1)
    <2>1. Finished
      BY <1>2 DEF chunksend_response
    <2>a. parts' = [parts EXCEPT ![cur] = <<>>]
      BY <1>0 DEF DataInv, DataTypes
    <2>2. DataTypes' /\ Channel' /\ \A s \in Sessions : Session(s)' /\ Sent(s)'
      BY <1>0, <2>1, <2>a, FreedKeeps DEF DataInv, DataTypes, Finished
    <2>3. ASSUME NEW s \in Sessions PROVE Received(s)'
      BY <1>0, <2>1 DEF DataInv, DataTypes, Received, Live, Finished, Freed
    <2> QED BY <2>2, <2>3 DEF DataInv
  <1> QED BY <1>1, <1>2

\* The chunk just received, at the end of those before it.
LEMMA NextPart ==
    ASSUME DataInv, NEW a, Receives(a), kind[cur] = "recv",
           NEW q, q = Append(parts[cur], <<index[cur], Chunk>>)
    PROVE  /\ q \in Seq(Nat \X Int)
           /\ Len(q) = index[cur] + 1
           /\ "misread" \notin lost /\ rx # "part" => \A i \in DOMAIN q : q[i] = <<i - 1, i - 1>>
  <1>0. cur \in Sessions /\ state[cur] = "RSP" /\ req.index = index[cur]
    BY Waiting
  <1>1. index[cur] \in Nat /\ Chunk \in Int /\ parts[cur] \in Seq(Nat \X Int) /\ Len(parts[cur]) = index[cur]
    BY <1>0 DEF DataInv, DataTypes, Received, Live, Chunk
  <1>2. q \in Seq(Nat \X Int) /\ Len(q) = index[cur] + 1
    BY <1>1
  <1>3. ASSUME "misread" \notin lost, rx # "part" PROVE \A i \in DOMAIN q : q[i] = <<i - 1, i - 1>>
    <2>1. \A i \in DOMAIN parts[cur] : parts[cur][i] = <<i - 1, i - 1>>
      BY <1>0, <1>3 DEF DataInv, Received
    <2>2. Chunk = index[cur]
      BY <1>0, <1>3 DEF Chunk
    <2>3. DOMAIN q = 1 .. index[cur] + 1 /\ DOMAIN parts[cur] = 1 .. index[cur]
      BY <1>1, <1>2
    <2>4. \A i \in 1 .. index[cur] : q[i] = parts[cur][i]
      BY <1>1
    <2>5. q[index[cur] + 1] = <<index[cur], index[cur]>>
      BY <1>1, <2>2
    <2>6. ASSUME NEW i \in DOMAIN q PROVE q[i] = <<i - 1, i - 1>>
      <3>1. CASE i = index[cur] + 1
        BY <1>1, <2>5, <3>1
      <3>2. CASE i # index[cur] + 1
        <4>1. i \in 1 .. index[cur]
          BY <1>1, <2>3, <2>6, <3>2
        <4>2. q[i] = parts[cur][i] /\ i \in DOMAIN parts[cur]
          BY <2>3, <2>4, <4>1
        <4> QED BY <2>1, <4>2
      <3> QED BY <3>1, <3>2
    <2> QED BY <2>6
  <1> QED BY <1>2, <1>3

LEMMA KeepsRecv == ASSUME DataInv, NEW a, chunkrecv_response(a) PROVE DataInv'
  <1> DEFINE q == Append(parts[cur], <<index[cur], Chunk>>)
  <1>0. /\ Receives(a) /\ cur \in Sessions /\ kind[cur] = "recv" /\ state[cur] = "RSP"
        /\ index[cur] \in Nat
        /\ UNCHANGED <<baseid, kind>>
    BY Waiting DEF DataInv, DataTypes, chunkrecv_response
  <1>1. /\ q \in Seq(Nat \X Int)
        /\ Len(q) = index[cur] + 1
        /\ "misread" \notin lost /\ rx # "part" => \A i \in DOMAIN q : q[i] = <<i - 1, i - 1>>
    BY <1>0, NextPart
  <1>2. CASE /\ a = "ok" /\ Len(q) < NChunks
             /\ parts' = [parts EXCEPT ![cur] = q]
             /\ NextChunk /\ UNCHANGED file
    <2>1. index[cur] < NChunks - 1
      BY <1>0, <1>1, <1>2
    <2>a. parts' \in [Sessions -> Seq(Nat \X Int)] /\ \A s \in Sessions : s # cur => parts'[s] = parts[s]
      BY <1>0, <1>1, <1>2 DEF DataInv, DataTypes
    <2>2. DataTypes' /\ Channel' /\ \A s \in Sessions : Session(s)' /\ Sent(s)'
      BY <1>0, <1>2, <2>1, <2>a, NextChunkKeeps DEF DataInv, DataTypes
    <2>3. ASSUME NEW s \in Sessions PROVE Received(s)'
      <3>1. "misread" \notin lost' => "misread" \notin lost /\ rx # "part"
        BY <1>2 DEF NextChunk, Misread
      <3>2. CASE s = cur
        <4>1. parts'[s] = q /\ index'[s] = index[s] + 1 /\ file'[s] = file[s] /\ kind'[s] = "recv"
          BY <1>0, <1>2, <3>2 DEF DataInv, DataTypes, NextChunk
        <4> HIDE DEF q
        <4> QED BY <1>1, <3>1, <3>2, <4>1 DEF DataInv, Received
      <3>3. CASE s # cur
        <4>1. parts'[s] = parts[s] /\ index'[s] = index[s] /\ file'[s] = file[s] /\ kind'[s] = kind[s] /\ state'[s] = state[s]
          BY <1>0, <1>2, <3>3, <2>a DEF DataInv, DataTypes, NextChunk
        <4> QED BY <3>1, <4>1 DEF DataInv, Received, Live
      <3> QED BY <3>2, <3>3
    <2> QED BY <2>2, <2>3 DEF DataInv
  <1>3. CASE /\ parts' = [parts EXCEPT ![cur] = <<>>]
             /\ Finished
             /\ \/ UNCHANGED file
                \/ Len(q) = NChunks /\ file' = [file EXCEPT ![cur] = mtk_chunkdata_merge(q)]
    <2>0. mtk_chunkdata_merge(q) \in SUBSET (Nat \X Int)
      BY <1>1 DEF mtk_chunkdata_merge
    <2>1. file' \in [Sessions -> SUBSET (Nat \X Int)]
      BY <1>0, <1>3, <2>0 DEF DataInv, DataTypes
    <2>2. DataTypes' /\ Channel' /\ \A s \in Sessions : Session(s)' /\ Sent(s)'
      BY <1>0, <1>3, <2>1, FreedKeeps DEF Finished
    <2>3. ASSUME NEW s \in Sessions PROVE Received(s)'
      <3>1. "misread" \notin lost' => "misread" \notin lost /\ rx # "part"
        BY <1>3 DEF Finished, Misread
      <3>2. CASE s = cur
        <4>1. parts'[s] = <<>> /\ index'[s] = 0 /\ kind'[s] = "recv" /\ state'[s] = "freed"
          BY <1>0, <1>3, <3>2 DEF DataInv, DataTypes, Finished, Freed
        <4>2. ASSUME "misread" \notin lost', Len(q) = NChunks PROVE mtk_chunkdata_merge(q) = Whole
          <5>1. DOMAIN q = 1 .. NChunks /\ \A i \in DOMAIN q : q[i] = <<i - 1, i - 1>>
            BY <1>1, <3>1, <4>2
          <5> HIDE DEF q
          <5>2. ASSUME NEW x \in mtk_chunkdata_merge(q) PROVE x \in Whole
            <6>1. PICK i \in DOMAIN q : x = q[i]
              BY <5>2 DEF mtk_chunkdata_merge
            <6>2. x = <<i - 1, i - 1>> /\ i - 1 \in 0 .. NChunks - 1
              BY <5>1, <6>1
            <6> QED BY <6>2 DEF Whole
          <5>3. ASSUME NEW x \in Whole PROVE x \in mtk_chunkdata_merge(q)
            <6>1. PICK j \in 0 .. NChunks - 1 : x = <<j, j>>
              BY DEF Whole
            <6>2. j + 1 \in DOMAIN q /\ q[j + 1] = <<j, j>>
              BY <5>1, <6>1
            <6> QED BY <6>1, <6>2 DEF mtk_chunkdata_merge
          <5> QED BY <5>2, <5>3
        <4>3. file'[s] = file[s] \/ (Len(q) = NChunks /\ file'[s] = mtk_chunkdata_merge(q))
          BY <1>0, <1>3, <3>2 DEF DataInv, DataTypes
        <4> HIDE DEF q
        <4>4. "misread" \notin lost' => file'[s] = {} \/ file'[s] = Whole
          BY <3>1, <4>2, <4>3 DEF DataInv, Received
        <4> QED BY <4>1, <4>4 DEF Received, Live
      <3>3. CASE s # cur
        <4>1. parts'[s] = parts[s] /\ index'[s] = index[s] /\ kind'[s] = kind[s] /\ state'[s] = state[s]
          BY <1>0, <1>3, <3>3 DEF DataInv, DataTypes, Finished, Freed
        <4>2. file'[s] = file[s]
          BY <1>0, <1>3, <3>3 DEF DataInv, DataTypes
        <4> QED BY <3>1, <4>1, <4>2 DEF DataInv, Received, Live
      <3> QED BY <3>2, <3>3
    <2> QED BY <2>2, <2>3 DEF DataInv
  <1> QED BY <1>2, <1>3 DEF chunkrecv_response

\* A new session starts from nothing.
LEMMA BirthKeeps ==
    ASSUME DataInv, baseid < MaxSessions,
           NEW k \in Kinds, NEW n \in {0, 1}, lost \subseteq lost', n = 1 \/ lost' # {},
           baseid' = baseid + 1,
           kind' = [kind EXCEPT ![baseid + 1] = k],
           state' = [state EXCEPT ![baseid + 1] = "REQ"],
           starts' = [starts EXCEPT ![baseid + 1] = n],
           UNCHANGED <<index, parts, file, put, dcConnects, cur, dc, req, ans>>
    PROVE  DataInv'
  <1> DEFINE b == baseid + 1
  <1>0. b \in Sessions /\ state[b] = "unborn" /\ cur # b /\ starts[b] = 0
    <2>1. baseid \in Nat /\ MaxSessions \in Nat /\ b > baseid
      BY DEF DataInv, DataTypes
    <2>2. b \in Sessions
      BY <2>1 DEF Sessions
    <2>3. Session(b)
      BY <2>2 DEF DataInv
    <2>4. state[b] = "unborn"
      BY <2>1, <2>3 DEF Session
    <2> HIDE DEF b
    <2> QED BY <2>2, <2>3, <2>4 DEF Session, Live
  <1>a. kind' \in [Sessions -> Kinds] /\ state' \in [Sessions -> States] /\ starts' \in [Sessions -> Nat]
    BY <1>0 DEF DataInv, DataTypes, States
  <1>1. DataTypes'
    BY <1>0, <1>a DEF DataInv, DataTypes
  <1>2. Channel'
    BY <1>0 DEF DataInv, DataTypes, Channel, AnswerToAsker
  <1>3. ASSUME NEW s \in Sessions PROVE Session(s)'
    BY <1>0, SessionsFacts DEF DataInv, DataTypes, Session, Live
  <1>4. ASSUME NEW s \in Sessions PROVE Sent(s)'
    BY <1>0, SessionsFacts DEF DataInv, DataTypes, Sent, Session
  <1>5. ASSUME NEW s \in Sessions PROVE Received(s)'
    BY <1>0, SessionsFacts DEF DataInv, DataTypes, Received, Session, Live
  <1> QED BY <1>1, <1>2, <1>3, <1>4, <1>5 DEF DataInv

\* A command is answered: its session ends, and another may be born.
LEMMA KeepsGetcmd == ASSUME DataInv, NEW a, getcmd_response(a) PROVE DataInv'
  <1>0. /\ Receives(a) /\ cur \in Sessions /\ cur # 0 /\ kind[cur] = "getcmd" /\ state[cur] = "RSP"
        /\ parts[cur] = <<>> /\ index[cur] = 0 /\ starts[cur] = 0
        /\ cur' = 0 /\ UNCHANGED <<parts, file>>
        /\ dcConnects = 0 /\ dc' = "down" /\ req' = NoReq /\ ans' = "none" /\ dcConnects' = 0
    BY Waiting DEF DataInv, Received, getcmd_response
  <1>1. CASE a = "done" /\ baseid < MaxSessions
    <2> DEFINE b == baseid + 1
    <2>0. /\ baseid' = b
          /\ kind' = [kind EXCEPT ![b] = "recv"]
          /\ state' = [state EXCEPT ![cur] = "freed", ![b] = "REQ"]
          /\ put' = [put EXCEPT ![cur] = <<>>]
          /\ starts' = [starts EXCEPT ![b] = Scheduled(@, Fits(1))]
          /\ lost' = lost \cup Misread \cup Forgotten(Fits(1))
          /\ UNCHANGED index
      BY <1>1 DEF getcmd_response
    <2>1. baseid \in Nat /\ MaxSessions \in Nat /\ b > baseid /\ b \in Sessions
      BY <1>1 DEF DataInv, DataTypes, Sessions
    <2>2. state[b] = "unborn" /\ starts[b] = 0 /\ cur # b
      <3>1. Session(b)
        BY <2>1 DEF DataInv
      <3>2. state[b] = "unborn"
        BY <2>1, <3>1 DEF Session
      <3> HIDE DEF b
      <3> QED BY <1>0, <3>1, <3>2 DEF Session
    <2>3. index[b] = 0 /\ put[b] = <<>> /\ parts[b] = <<>>
      <3> HIDE DEF b
      <3> QED BY <2>1, <2>2 DEF DataInv, Session
    <2>4. /\ starts'[b] \in {0, 1} /\ (lost' = {} => starts'[b] = 1)
          /\ \A s \in Sessions : s # b => starts'[s] = starts[s]
          /\ starts' \in [Sessions -> Nat]
      <3>1. starts'[b] = Scheduled(0, Fits(1))
        BY <2>0, <2>1, <2>2 DEF DataInv, DataTypes
      <3>2. starts'[b] \in {0, 1} /\ (lost' = {} => starts'[b] = 1)
        BY <2>0, <3>1 DEF Scheduled, Forgotten
      <3> HIDE DEF b
      <3>3. Scheduled(starts[b], Fits(1)) \in Nat
        BY <2>2 DEF Scheduled
      <3> QED BY <2>0, <2>1, <3>2, <3>3 DEF DataInv, DataTypes
    <2>5. /\ state' \in [Sessions -> States] /\ state'[b] = "REQ" /\ state'[cur] = "freed"
          /\ \A s \in Sessions : s # b /\ s # cur => state'[s] = state[s]
      <3> HIDE DEF b
      <3> QED BY <1>0, <2>0, <2>1, <2>2 DEF DataInv, DataTypes, States
    <2>6. /\ kind' \in [Sessions -> Kinds] /\ kind'[b] = "recv"
          /\ \A s \in Sessions : s # b => kind'[s] = kind[s]
      <3> HIDE DEF b
      <3> QED BY <2>0, <2>1 DEF DataInv, DataTypes, Kinds
    <2>7. /\ put' \in [Sessions -> Seq(Nat)] /\ put'[cur] = <<>>
          /\ \A s \in Sessions : s # cur => put'[s] = put[s]
      BY <1>0, <2>0 DEF DataInv, DataTypes
    <2>8. baseid' = b /\ UNCHANGED index /\ lost \subseteq lost'
      BY <2>0
    <2>a. DataTypes'
      <3>1. baseid' \in 0 .. MaxSessions
        BY <2>1, <2>8 DEF Sessions
      <3> QED BY <1>0, <2>4, <2>5, <2>6, <2>7, <2>8, <3>1 DEF DataInv, DataTypes
    <2>b. Channel'
      BY <1>0 DEF Channel, AnswerToAsker
    <2>c. ASSUME NEW s \in Sessions PROVE Session(s)'
      <3>1. CASE s = b
        BY <1>0, <2>1, <2>3, <2>4, <2>5, <2>8, <3>1, SessionsFacts DEF Session
      <3>2. CASE s = cur
        <4>1. s <= baseid
          BY <1>0, <3>2, <2>1, SessionsFacts DEF DataInv, Session
        <4> QED BY <1>0, <2>1, <2>2, <2>4, <2>5, <2>7, <2>8, <3>2, <4>1, SessionsFacts DEF Session
      <3>3. CASE s # b /\ s # cur
        <4>1. s > b <=> s > baseid
          BY <2>1, <3>3, SessionsFacts
        <4> HIDE DEF b
        <4> QED BY <1>0, <2>4, <2>5, <2>7, <2>8, <3>3, <4>1, SessionsFacts DEF DataInv, Session
      <3> QED BY <3>1, <3>2, <3>3
    <2>d. ASSUME NEW s \in Sessions PROVE Sent(s)'
      <3> HIDE DEF b
      <3>0. cur' # s /\ index'[s] = index[s] /\ index[s] <= NChunks - 1
        BY <1>0, <2>8, SessionsFacts DEF DataInv, Sent
      <3>1. CASE s = b
        <4>1. put'[s] = <<>> /\ index'[s] = 0
          BY <2>1, <2>2, <2>3, <2>7, <2>8, <3>1
        <4> QED BY <3>0, <4>1 DEF Sent
      <3>2. CASE s = cur
        <4>1. put'[s] = <<>> /\ state'[s] = "freed"
          BY <2>5, <2>7, <3>2
        <4> QED BY <3>0, <4>1 DEF Sent
      <3>3. CASE s # b /\ s # cur
        <4>1. put'[s] = put[s] /\ state'[s] = state[s]
          BY <2>5, <2>7, <3>3
        <4> QED BY <3>0, <4>1 DEF DataInv, Sent
      <3> QED BY <3>1, <3>2, <3>3
    <2>e. ASSUME NEW s \in Sessions PROVE Received(s)'
      <3> HIDE DEF b
      <3>1. CASE s = b
        BY <1>0, <2>1, <2>3, <2>6, <2>8, <3>1 DEF DataInv, Received
      <3>2. CASE s = cur
        BY <1>0, <2>2, <2>5, <2>6, <2>8, <3>2 DEF DataInv, Received, Live
      <3>3. CASE s # b /\ s # cur
        <4>1. kind'[s] = kind[s] /\ state'[s] = state[s] /\ parts'[s] = parts[s] /\ file'[s] = file[s] /\ index'[s] = index[s]
          BY <1>0, <2>5, <2>6, <2>8, <3>3
        <4> QED BY <2>8, <4>1 DEF DataInv, Received, Live
      <3> QED BY <3>1, <3>2, <3>3
    <2> QED BY <2>a, <2>b, <2>c, <2>d, <2>e DEF DataInv
  <1>2. CASE ~(a = "done" /\ baseid < MaxSessions)
    <2>1. Freed(cur) /\ lost \subseteq lost' /\ UNCHANGED <<baseid, kind, starts>>
      BY <1>2 DEF getcmd_response
    <2>2. parts' = [parts EXCEPT ![cur] = <<>>] /\ file' \in [Sessions -> SUBSET (Nat \X Int)]
      BY <1>0 DEF DataInv, DataTypes
    <2>3. DataTypes' /\ Channel' /\ \A s \in Sessions : Session(s)' /\ Sent(s)'
      BY <1>0, <2>1, <2>2, FreedKeeps
    <2>4. ASSUME NEW s \in Sessions PROVE Received(s)'
      BY <1>0, <2>1 DEF DataInv, DataTypes, Received, Live, Freed
    <2> QED BY <2>3, <2>4 DEF DataInv
  <1> QED BY <1>1, <1>2

\* A notice: the session it creates is started, or is not and that is noted.
LEMMA KeepsNotice == ASSUME DataInv, nc_notice \/ nc_notice_full PROVE DataInv'
  <1>0. /\ baseid < MaxSessions
        /\ baseid' = baseid + 1
        /\ kind' = [kind EXCEPT ![baseid + 1] = "getcmd"]
        /\ state' = [state EXCEPT ![baseid + 1] = "REQ"]
        /\ UNCHANGED <<index, parts, file, put, dcConnects, cur, dc, req, ans>>
    BY DEF nc_notice, nc_notice_full, GetCommand, NcReleased, data
  <1>1. baseid + 1 \in Sessions /\ starts[baseid + 1] = 0
    <2>1. baseid \in Nat /\ baseid + 1 \in Sessions
      BY <1>0 DEF DataInv, DataTypes, Sessions
    <2>2. Session(baseid + 1) /\ baseid + 1 > baseid
      BY <2>1 DEF DataInv
    <2> QED BY <2>1, <2>2 DEF Session
  <1>2. "getcmd" \in Kinds
    BY DEF Kinds
  <1>3. CASE nc_notice
    <2>1. starts' = [starts EXCEPT ![baseid + 1] = 1] /\ lost' = lost
      BY <1>1, <1>3 DEF nc_notice
    <2> QED BY <1>0, <1>2, <2>1, BirthKeeps
  <1>4. CASE nc_notice_full
    <2>1. starts' = [starts EXCEPT ![baseid + 1] = 0]
      BY <1>1, <1>4 DEF nc_notice_full, DataInv, DataTypes
    <2>2. lost \subseteq lost' /\ lost' # {}
      BY <1>4 DEF nc_notice_full
    <2> QED BY <1>0, <1>2, <2>1, <2>2, BirthKeeps
  <1> QED BY <1>3, <1>4

\* The server answers or closes.
LEMMA KeepsServer == ASSUME DataInv, dc_answer \/ dc_close PROVE DataInv'
  <1>0. /\ UNCHANGED <<sess, starts, dcConnects, cur, dc, req, lost>>
        /\ ans = "none" /\ ans' \in Answers \cup {"none", "eof", "part"}
    BY DEF dc_answer, dc_close, works
  <1>1. DataTypes'
    BY <1>0 DEF DataInv, DataTypes, sess
  <1>2. Channel'
    BY <1>0 DEF DataInv, Channel, AnswerToAsker, sess
  <1>3. ASSUME NEW s \in Sessions PROVE Session(s)'
    BY <1>0 DEF DataInv, Session, Live, sess
  <1>4. ASSUME NEW s \in Sessions PROVE Sent(s)'
    BY <1>0 DEF DataInv, Sent, sess
  <1>5. ASSUME NEW s \in Sessions PROVE Received(s)'
    BY <1>0 DEF DataInv, Received, Live, sess
  <1> QED BY <1>1, <1>2, <1>3, <1>4, <1>5 DEF DataInv

LEMMA DataNext == DataInv /\ [Next]_vars => DataInv'
  <1> SUFFICES ASSUME DataInv, [Next]_vars PROVE DataInv'
    OBVIOUS
  <1>1. ASSUME NEW s \in Sessions, mtk_session_start(s) PROVE DataInv'
    BY <1>1, KeepsStart
  <1>2. CASE mtk_dc_connect
    BY <1>2, KeepsEstablished, KeepsRequestFails, KeepsNoConnect DEF mtk_dc_connect
  <1>3. CASE DcService
    <2>1. CASE rsp_process
      BY <2>1, KeepsSend, KeepsRecv, KeepsGetcmd DEF rsp_process
    <2> QED BY <1>3, <2>1, KeepsWrite, KeepsBroken DEF DcService
  <1>4. CASE nc_notice \/ nc_notice_full
    BY <1>4, KeepsNotice
  <1>5. CASE dc_answer \/ dc_close
    BY <1>5, KeepsServer
  <1>6. CASE mtk_nc_connect \/ nc_keepalive
    <2>1. UNCHANGED <<sess, starts, dcConnects, cur, dc, req, ans>> /\ lost \subseteq lost'
      BY <1>6 DEF mtk_nc_connect, nc_already_connected, nc_connects, nc_established, nc_connect_fails, nc_keepalive, data
    <2> QED BY <2>1, DataKept
  <1>7. CASE nc_write \/ nc_write_fails \/ nc_read_fails \/ nc_ack \/ nc_ack_error
    <2>1. UNCHANGED <<sess, starts, dcConnects, cur, dc, req, ans>> /\ lost \subseteq lost'
      BY <1>7 DEF nc_write, nc_write_fails, nc_read_fails, nc_ack, nc_ack_error, NcClosed, NcReleased, data, works
    <2> QED BY <2>1, DataKept
  <1>8. CASE nc_sends_notice \/ nc_answers \/ nc_close
    <2>1. UNCHANGED <<sess, starts, dcConnects, cur, dc, req, ans>> /\ lost \subseteq lost'
      BY <1>8 DEF nc_sends_notice, nc_answers, nc_close, NcSends, data, works
    <2> QED BY <2>1, DataKept
  <1>9. CASE UNCHANGED vars
    <2>1. UNCHANGED <<sess, starts, dcConnects, cur, dc, req, ans>> /\ lost \subseteq lost'
      BY <1>9 DEF vars, data, works
    <2> QED BY <2>1, DataKept
  <1> QED BY <1>1, <1>2, <1>3, <1>4, <1>5, <1>6, <1>7, <1>8, <1>9 DEF Next, NcService, Server

-----------------------------------------------------------------------------
(* The notice channel *)

Bytes == 0 .. IndexMod

NoticeTypes ==
    /\ ncConnects \in Nat /\ keepalives \in Nat
    /\ msgindex \in Bytes
    /\ ring \in Seq(Bytes) /\ asked \in Seq(Bytes) /\ unread \in Seq(Bytes)

LEMMA Appended == ASSUME NEW S, NEW q \in Seq(S), NEW e \in S PROVE Append(q, e) \in Seq(S) /\ Append(q, e) # <<>>
  <1>1. Append(q, e) \in Seq(S) /\ Len(Append(q, e)) = Len(q) + 1 /\ Len(q) \in Nat
    OBVIOUS
  <1> QED BY <1>1

LEMMA Removed == ASSUME NEW S, NEW q \in Seq(S), q # <<>> PROVE Head(q) \in S /\ Tail(q) \in Seq(S)
  OBVIOUS

LEMMA NoticeInit == Init => NoticeTypes
  BY DEF Init, NoticeTypes, Bytes

LEMMA IndexType == NoticeTypes => nc_notice_index \in Bytes
  BY DEF NoticeTypes, nc_notice_index, Bytes

\* A heartbeat is in the ring once it was built.
LEMMA HeartbeatQueued == NoticeTypes => Heartbeat \in Seq(Bytes) /\ Heartbeat # <<>>
  <1> SUFFICES ASSUME NoticeTypes PROVE Heartbeat \in Seq(Bytes) /\ Heartbeat # <<>>
    OBVIOUS
  <1>1. CASE Len(ring) < RingSize
    BY <1>1 DEF NoticeTypes, Heartbeat
  <1>2. CASE ~(Len(ring) < RingSize)
    <2>1. Len(ring) \in Nat /\ RingSize \in Nat \ {0}
      BY DEF NoticeTypes
    <2>2. ring # <<>>
      BY <1>2, <2>1
    <2>3. Tail(ring) \in Seq(Bytes) /\ Heartbeat = Append(Tail(ring), msgindex)
      BY <1>2, <2>2 DEF NoticeTypes, Heartbeat
    <2>4. Heartbeat \in Seq(Bytes) /\ Len(Heartbeat) = Len(Tail(ring)) + 1
      BY <2>3 DEF NoticeTypes
    <2>5. Len(Tail(ring)) \in Nat
      BY <2>3
    <2> QED BY <2>4, <2>5
  <1> QED BY <1>1, <1>2

LEMMA ServedTypes == NoticeTypes /\ NcServed => unread' \in Seq(Bytes)
  <1> SUFFICES ASSUME NoticeTypes, NcServed PROVE unread' \in Seq(Bytes)
    OBVIOUS
  <1>1. unread \in Seq(Bytes) /\ Len(unread) \in Nat
    BY DEF NoticeTypes
  <1>2. SubSeq(unread, RxSize + 1, Len(unread)) \in Seq(Bytes)
    BY <1>1
  <1> QED BY <1>1, <1>2 DEF NcServed

LEMMA ReleasedTypes ==
    ASSUME NoticeTypes, NEW k \in Nat, NEW n, NcReleased(k, n), msgindex' \in Bytes PROVE NoticeTypes'
  <1>1. ncConnects' \in Nat /\ keepalives' \in Nat
    BY DEF NoticeTypes, NcReleased, Scheduled, Deleted
  <1> QED BY <1>1 DEF NoticeTypes, NcReleased

\* The works and the events of the sessions leave the notice channel alone.
LEMMA SessionsApart ==
    ASSUME (\E s \in Sessions : mtk_session_start(s)) \/ mtk_dc_connect \/ DcService
    PROVE  UNCHANGED <<ncConnects, keepalives, notice>> /\ (alive' => alive)
  <1>1. CASE \E s \in Sessions : mtk_session_start(s)
    BY <1>1 DEF mtk_session_start
  <1>2. CASE mtk_dc_connect
    BY <1>2 DEF mtk_dc_connect, dc_established, dc_request_fails, dc_already_connected, dc_connect_fails, DcConnect, Runs
  <1>3. CASE dc_write \/ dc_write_fails \/ dc_read_broken \/ dc_response_ignored
    BY <1>3 DEF dc_write, dc_write_fails, dc_read_broken, dc_response_ignored, Receives, works, Runs
  <1>4. CASE rsp_process
    BY <1>4 DEF rsp_process, chunksend_response, chunkrecv_response, getcmd_response, Receives
  <1> QED BY <1>1, <1>2, <1>3, <1>4 DEF DcService

LEMMA NoticeNext == NoticeTypes /\ [Next]_vars => NoticeTypes'
  <1> SUFFICES ASSUME NoticeTypes, [Next]_vars PROVE NoticeTypes'
    OBVIOUS
  <1>1. CASE (\E s \in Sessions : mtk_session_start(s)) \/ mtk_dc_connect \/ DcService
    BY <1>1, SessionsApart DEF NoticeTypes, notice
  <1>2. CASE nc_already_connected \/ nc_connects \/ nc_established
    BY <1>2 DEF nc_already_connected, nc_connects, nc_established, NoticeTypes, notice
  <1>3. CASE nc_connect_fails
    BY <1>3 DEF nc_connect_fails, Scheduled, Deleted, NoticeTypes
  <1>4. CASE nc_keepalive
    BY <1>4, HeartbeatQueued DEF nc_keepalive, NoticeTypes
  <1>5. CASE nc_write
    <2>1. ring \in Seq(Bytes) /\ asked \in Seq(Bytes) /\ ring # <<>>
      BY <1>5 DEF nc_write, NoticeTypes
    <2>2. Head(ring) \in Bytes /\ Tail(ring) \in Seq(Bytes)
      BY <2>1, Removed
    <2>3. Append(asked, Head(ring)) \in Seq(Bytes)
      BY <2>1, <2>2, Appended
    <2> QED BY <1>5, <2>1, <2>2, <2>3 DEF nc_write, works, NoticeTypes
  <1>6. CASE nc_write_fails \/ nc_read_fails \/ nc_ack_error
    <2>1. keepalives \in Nat /\ NcReleased(keepalives, Pending) /\ msgindex' \in Bytes
      BY <1>6 DEF nc_write_fails, nc_read_fails, nc_ack_error, NcClosed, NoticeTypes
    <2> QED BY <2>1, ReleasedTypes
  <1>7. CASE nc_notice \/ nc_ack
    <2>1. keepalives' \in Nat /\ unread' \in Seq(Bytes) /\ msgindex' \in Bytes
      BY <1>7, ServedTypes, IndexType DEF nc_notice, nc_ack, GetCommand, Scheduled, NoticeTypes
    <2> QED BY <1>7, <2>1 DEF nc_notice, nc_ack, NoticeTypes
  <1>8. CASE nc_notice_full
    <2>1. Scheduled(keepalives, Fits(1)) \in Nat /\ msgindex' \in Bytes
      BY <1>8, IndexType DEF nc_notice_full, GetCommand, Scheduled, NoticeTypes
    <2>2. NcReleased(Scheduled(keepalives, Fits(1)), Scheduled(Pending, Fits(1)))
      BY <1>8 DEF nc_notice_full
    <2> QED BY <2>1, <2>2, ReleasedTypes
  <1>9. CASE nc_sends_notice \/ nc_answers
    <2>0. unread \in Seq(Bytes) /\ asked \in Seq(Bytes) /\ 0 \in Bytes
      BY DEF NoticeTypes, Bytes
    <2>1. unread' \in Seq(Bytes) /\ asked' \in Seq(Bytes)
      <3>1. CASE nc_sends_notice
        BY <2>0, <3>1, Appended DEF nc_sends_notice, NcSends
      <3>2. CASE nc_answers
        <4>1. Head(asked) \in Bytes /\ Tail(asked) \in Seq(Bytes)
          BY <2>0, <3>2, Removed DEF nc_answers
        <4> QED BY <2>0, <3>2, <4>1, Appended DEF nc_answers, NcSends
      <3> QED BY <1>9, <3>1, <3>2
    <2> QED BY <1>9, <2>1 DEF nc_sends_notice, nc_answers, NcSends, works, NoticeTypes
  <1>a. CASE nc_close \/ dc_answer \/ dc_close \/ UNCHANGED vars
    BY <1>a DEF nc_close, dc_answer, dc_close, vars, works, notice, NoticeTypes
  <1> QED BY <1>1, <1>2, <1>3, <1>4, <1>5, <1>6, <1>7, <1>8, <1>9, <1>a
          DEF Next, mtk_nc_connect, NcService, Server

-----------------------------------------------------------------------------
(* The work queue *)

\* The work being run by a thread that connects the notice channel was taken out of
\* the queue, and has a place in it to come back to.
QueueFits == Pending + (IF nc = "connecting" THEN 1 ELSE 0) <= WorksCap

LEMMA StartingFacts == IsFiniteSet(Starting) /\ Cardinality(Starting) \in Nat
  <1>1. IsFiniteSet(1 .. MaxSessions)
    BY FS_Interval
  <1>2. Starting \subseteq 1 .. MaxSessions
    BY DEF Starting, Sessions
  <1>3. IsFiniteSet(Starting)
    BY <1>1, <1>2, FS_Subset
  <1> QED BY <1>3, FS_CardinalityType

\* A session is put into the queue or taken out of it.
LEMMA Restarted ==
    ASSUME DataInv, NEW s \in Sessions, NEW n \in {0, 1}, starts' = [starts EXCEPT ![s] = n]
    PROVE  Cardinality(Starting') = Cardinality(Starting) - starts[s] + n
  <1>0. starts[s] \in {0, 1} /\ starts \in [Sessions -> Nat]
    BY DEF DataInv, DataTypes, Session
  <1>1. CASE n = 1
    <2>1. Starting' = Starting \cup {s} /\ (s \in Starting <=> starts[s] = 1)
      BY <1>0, <1>1 DEF Starting
    <2>2. Cardinality(Starting') = IF s \in Starting THEN Cardinality(Starting) ELSE Cardinality(Starting) + 1
      BY <2>1, StartingFacts, FS_AddElement
    <2> QED BY <1>0, <1>1, <2>1, <2>2, StartingFacts
  <1>2. CASE n = 0
    <2>1. Starting' = Starting \ {s} /\ (s \in Starting <=> starts[s] = 1)
      BY <1>0, <1>2 DEF Starting
    <2>2. Cardinality(Starting') = IF s \in Starting THEN Cardinality(Starting) - 1 ELSE Cardinality(Starting)
      BY <2>1, StartingFacts, FS_RemoveElement
    <2> QED BY <1>0, <1>2, <2>1, <2>2, StartingFacts
  <1> QED BY <1>1, <1>2

\* The same for one that is put into it if there is room.
LEMMA QueueStart ==
    ASSUME DataInv, NoticeTypes, QueueFits, nc # "connecting", NEW s \in Sessions, starts[s] = 0,
           starts' = [starts EXCEPT ![s] = Scheduled(@, Fits(1))],
           UNCHANGED <<dcConnects, ncConnects, keepalives, nc>>
    PROVE  QueueFits'
  <1>0. dcConnects \in Nat /\ ncConnects \in Nat /\ keepalives \in Nat /\ starts \in [Sessions -> Nat]
    BY DEF DataInv, DataTypes, NoticeTypes
  <1>1. CASE Fits(1)
    <2>1. starts' = [starts EXCEPT ![s] = 1]
      BY <1>0, <1>1 DEF Scheduled
    <2>a. Cardinality(Starting') = Cardinality(Starting) - starts[s] + 1
      BY <2>1, Restarted
    <2>2. Cardinality(Starting') = Cardinality(Starting) + 1
      BY <2>a, StartingFacts
    <2> QED BY <1>0, <1>1, <2>2, StartingFacts DEF QueueFits, Pending, Fits
  <1>2. CASE ~Fits(1)
    <2>1. starts' = starts
      BY <1>0, <1>2 DEF Scheduled
    <2>2. Starting' = Starting
      BY <2>1 DEF Starting
    <2> QED BY <2>2 DEF QueueFits, Pending
  <1> QED BY <1>1, <1>2

\* A queue of n works: c and d of the sessions, k keepalives.
InQueue(c, d, k, n) == n = c + d + ncConnects + k /\ n <= WorksCap

\* A release takes one keepalive out, if there is one, before it puts the retry in.
LEMMA ReleaseFits ==
    ASSUME NoticeTypes, NEW c \in Nat, NEW d \in Nat, NEW k \in Nat, NEW n \in Nat,
           InQueue(c, d, k, n), NcReleased(k, n)
    PROVE  /\ c + d + ncConnects' + keepalives' <= WorksCap
           /\ ncConnects' = 0 => k = 0 /\ n = WorksCap
  <1> USE DEF InQueue
  <1>0. ncConnects \in Nat
    BY DEF NoticeTypes
  <1>1. CASE k = 0
    <2>1. keepalives' = 0 /\ ncConnects' = IF n < WorksCap THEN ncConnects + 1 ELSE ncConnects
      BY <1>1 DEF NcReleased, Deleted, Scheduled
    <2> QED BY <1>0, <1>1, <2>1
  <1>2. CASE k > 0
    <2>1. keepalives' = k - 1 /\ ncConnects' = ncConnects + 1
      BY <1>2 DEF NcReleased, Deleted, Scheduled
    <2> QED BY <1>0, <1>2, <2>1
  <1> QED BY <1>1, <1>2

LEMMA ClosedFits ==
    ASSUME DataInv, NoticeTypes, QueueFits, NcClosed, nc = "up"
    PROVE  QueueFits' /\ (ncConnects' = 0 => keepalives = 0 /\ ~Fits(1))
  <1>0. /\ dcConnects \in Nat /\ keepalives \in Nat /\ ncConnects \in Nat /\ Cardinality(Starting) \in Nat
        /\ nc' = "down" /\ dcConnects' = dcConnects /\ starts' = starts
    BY StartingFacts DEF DataInv, DataTypes, NoticeTypes, NcClosed, NcReleased
  <1>1. PICK n \in Nat : n = Pending
    BY <1>0 DEF Pending
  <1>2. n = Cardinality(Starting) + dcConnects + ncConnects + keepalives /\ n <= WorksCap /\ NcReleased(keepalives, n)
    BY <1>1 DEF Pending, QueueFits, NcClosed
  <1>a. PICK c \in Nat : c = Cardinality(Starting)
    BY <1>0
  <1>b. InQueue(c, dcConnects, keepalives, n) /\ NcReleased(keepalives, n)
    BY <1>2, <1>a DEF InQueue
  <1>3. /\ c + dcConnects + ncConnects' + keepalives' <= WorksCap
        /\ ncConnects' = 0 => keepalives = 0 /\ n = WorksCap
    BY <1>0, <1>b, ReleaseFits
  <1>4. Cardinality(Starting') = c
    BY <1>0, <1>a DEF Starting
  <1>5. QueueFits'
    <2>1. Pending' = c + dcConnects + ncConnects' + keepalives' /\ nc' # "connecting"
      BY <1>0, <1>4 DEF Pending
    <2>2. Pending' + 0 <= WorksCap
      BY <1>0, <1>3, <2>1 DEF NoticeTypes, NcClosed, NcReleased, Scheduled, Deleted
    <2> QED BY <2>1, <2>2 DEF QueueFits
  <1> QED BY <1>1, <1>3, <1>5 DEF Fits

LEMMA FullFits ==
    ASSUME DataInv, NoticeTypes, QueueFits, nc_notice_full
    PROVE  QueueFits' /\ (ncConnects' = 0 => keepalives = 0 /\ ~Fits(1))
  <1>0. /\ dcConnects \in Nat /\ keepalives \in Nat /\ ncConnects \in Nat /\ Cardinality(Starting) \in Nat
        /\ nc = "up" /\ nc' = "down" /\ dcConnects' = dcConnects /\ starts' = starts
    BY StartingFacts DEF DataInv, DataTypes, NoticeTypes, nc_notice_full, NcReleased, GetCommand, NcRead
  <1>1. PICK p \in Nat : p = Pending
    BY <1>0 DEF Pending
  <1>2. p = Cardinality(Starting) + dcConnects + ncConnects + keepalives /\ p <= WorksCap
    BY <1>0, <1>1 DEF Pending, QueueFits
  <1>3. PICK k \in Nat, n \in Nat : k = Scheduled(keepalives, Fits(1)) /\ n = Scheduled(p, Fits(1))
    BY <1>0 DEF Scheduled
  <1>4. NcReleased(k, n)
    BY <1>1, <1>3 DEF nc_notice_full
  <1>5. /\ n = Cardinality(Starting) + dcConnects + ncConnects + k /\ n <= WorksCap
        /\ Fits(1) => k > 0
        /\ k = 0 => keepalives = 0
    <2>1. CASE Fits(1)
      <3>1. p + 1 <= WorksCap /\ k = keepalives + 1 /\ n = p + 1
        BY <1>1, <1>3, <2>1 DEF Scheduled, Fits
      <3> QED BY <1>0, <1>2, <3>1
    <2>2. CASE ~Fits(1)
      <3>1. k = keepalives /\ n = p
        BY <1>3, <2>2 DEF Scheduled
      <3> QED BY <1>2, <2>2, <3>1
    <2> QED BY <2>1, <2>2
  <1>a. PICK c \in Nat : c = Cardinality(Starting)
    BY <1>0
  <1>b. InQueue(c, dcConnects, k, n)
    BY <1>5, <1>a DEF InQueue
  <1>6. /\ c + dcConnects + ncConnects' + keepalives' <= WorksCap
        /\ ncConnects' = 0 => k = 0 /\ n = WorksCap
    BY <1>0, <1>4, <1>b, ReleaseFits
  <1>7. Cardinality(Starting') = c
    BY <1>0, <1>a DEF Starting
  <1>8. QueueFits'
    <2>1. Pending' = c + dcConnects + ncConnects' + keepalives' /\ nc' # "connecting"
      BY <1>0, <1>7 DEF Pending
    <2>2. Pending' + 0 <= WorksCap
      BY <1>0, <1>3, <1>4, <1>6, <2>1 DEF NoticeTypes, NcReleased, Scheduled, Deleted
    <2> QED BY <2>1, <2>2 DEF QueueFits
  <1> QED BY <1>5, <1>6, <1>8

LEMMA ConnectFailsFits ==
    ASSUME DataInv, NoticeTypes, QueueFits, nc_connect_fails
    PROVE  QueueFits' /\ (alive' => ncConnects' > 0)
  <1>0. /\ dcConnects \in Nat /\ keepalives \in Nat /\ ncConnects \in Nat /\ Cardinality(Starting) \in Nat
        /\ nc = "connecting" /\ nc' = "down" /\ dcConnects' = dcConnects /\ starts' = starts
    BY StartingFacts DEF DataInv, DataTypes, NoticeTypes, nc_connect_fails
  <1>1. Starting' = Starting
    BY <1>0 DEF Starting
  <1>2. CASE ncCtx
    <2>1. /\ keepalives' = keepalives - Deleted(keepalives)
          /\ ncConnects' = Scheduled(ncConnects + 1, Fits(2 - Deleted(keepalives)))
      BY <1>2 DEF nc_connect_fails
    <2>2. CASE keepalives = 0
      <3>1. keepalives' = 0 /\ ncConnects' = IF Fits(2) THEN ncConnects + 2 ELSE ncConnects + 1
        BY <1>0, <2>1, <2>2 DEF Deleted, Scheduled
      <3> QED BY <1>0, <1>1, <2>2, <3>1 DEF QueueFits, Pending, Fits
    <2>3. CASE keepalives > 0
      <3>1. keepalives' = keepalives - 1 /\ ncConnects' = IF Fits(1) THEN ncConnects + 2 ELSE ncConnects + 1
        BY <1>0, <2>1, <2>3 DEF Deleted, Scheduled
      <3> QED BY <1>0, <1>1, <2>3, <3>1 DEF QueueFits, Pending, Fits
    <2> QED BY <1>0, <2>2, <2>3
  <1>3. CASE ~ncCtx
    <2>1. keepalives' = keepalives /\ ncConnects' = ncConnects /\ ~alive'
      BY <1>3 DEF nc_connect_fails
    <2> QED BY <1>0, <1>1, <2>1 DEF QueueFits, Pending
  <1> QED BY <1>2, <1>3

\* What a session that is answered does with the queue.
LEMMA AnswerFits ==
    ASSUME DataInv, NoticeTypes, QueueFits, rsp_process PROVE QueueFits'
  <1>0. PICK a \in {"ok", "done", "error"} : chunksend_response(a) \/ chunkrecv_response(a) \/ getcmd_response(a)
    BY DEF rsp_process
  <1>1. Receives(a)
    BY <1>0 DEF chunksend_response, chunkrecv_response, getcmd_response
  <1>2. UNCHANGED <<dcConnects, ncConnects, keepalives, nc>> /\ nc # "connecting"
    BY <1>1 DEF Receives, Runs, notice
  <1>3. cur \in Sessions /\ starts[cur] = 0
    BY <1>1, Waiting
  <1>4. CASE starts' = starts
    BY <1>2, <1>4 DEF QueueFits, Pending, Starting
  <1>5. CASE NextChunk
    <2>1. starts' = [starts EXCEPT ![cur] = Scheduled(@, Fits(1))]
      BY <1>5 DEF NextChunk
    <2> QED BY <1>2, <1>3, <2>1, QueueStart
  <1>6. CASE baseid < MaxSessions /\ starts' = [starts EXCEPT ![baseid + 1] = Scheduled(@, Fits(1))]
    <2>1. baseid \in Nat /\ baseid + 1 \in Sessions
      BY <1>6 DEF DataInv, DataTypes, Sessions
    <2>2. Session(baseid + 1) /\ baseid + 1 > baseid
      BY <2>1 DEF DataInv
    <2>3. starts[baseid + 1] = 0
      BY <2>1, <2>2 DEF Session
    <2> QED BY <1>2, <1>6, <2>1, <2>3, QueueStart
  <1>7. starts' = starts \/ NextChunk \/ (baseid < MaxSessions /\ starts' = [starts EXCEPT ![baseid + 1] = Scheduled(@, Fits(1))])
    BY <1>0 DEF chunksend_response, chunkrecv_response, getcmd_response, Finished
  <1> QED BY <1>4, <1>5, <1>6, <1>7

LEMMA QueueNext == DataInv /\ NoticeTypes /\ QueueFits /\ [Next]_vars => QueueFits'
  <1> SUFFICES ASSUME DataInv, NoticeTypes, QueueFits, [Next]_vars PROVE QueueFits'
    OBVIOUS
  <1>0. /\ dcConnects \in Nat /\ keepalives \in Nat /\ ncConnects \in Nat /\ Cardinality(Starting) \in Nat
        /\ starts \in [Sessions -> Nat]
    BY StartingFacts DEF DataInv, DataTypes, NoticeTypes
  <1>a. starts' = starts => Starting' = Starting
    BY DEF Starting
  <1>1. ASSUME NEW s \in Sessions, mtk_session_start(s) PROVE QueueFits'
    <2>1. starts[s] = 1
      BY <1>1 DEF mtk_session_start, DataInv, Session
    <2>2. starts' = [starts EXCEPT ![s] = 0]
      BY <1>1, <2>1 DEF mtk_session_start
    <2>a. Cardinality(Starting') = Cardinality(Starting) - starts[s] + 0
      BY <2>2, Restarted
    <2>3. Cardinality(Starting') = Cardinality(Starting) - 1
      BY <1>0, <2>1, <2>a
    <2> QED BY <1>0, <1>1, <2>3 DEF mtk_session_start, notice, QueueFits, Pending
  <1>2. CASE mtk_dc_connect
    <2>1. starts' = starts /\ dcConnects' = dcConnects - 1 /\ UNCHANGED <<ncConnects, keepalives, nc>>
      BY <1>2 DEF mtk_dc_connect, dc_established, dc_request_fails, dc_already_connected, dc_connect_fails, DcConnect, notice
    <2> QED BY <1>0, <1>a, <2>1 DEF QueueFits, Pending
  <1>3. CASE dc_write \/ dc_write_fails \/ dc_read_broken \/ dc_response_ignored
    <2>1. UNCHANGED <<starts, dcConnects, ncConnects, keepalives, nc>>
      BY <1>3 DEF dc_write, dc_write_fails, dc_read_broken, dc_response_ignored, Receives, works, notice
    <2> QED BY <1>a, <2>1 DEF QueueFits, Pending
  <1>4. CASE rsp_process
    BY <1>4, AnswerFits
  <1>5. CASE nc_already_connected \/ nc_connects \/ nc_established \/ nc_keepalive
    <2>1. starts' = starts /\ dcConnects' = dcConnects
      BY <1>5 DEF nc_already_connected, nc_connects, nc_established, nc_keepalive
    <2>2. CASE nc_already_connected
      BY <1>0, <1>a, <2>1, <2>2 DEF nc_already_connected, notice, QueueFits, Pending
    <2>3. CASE nc_connects
      BY <1>0, <1>a, <2>1, <2>3 DEF nc_connects, QueueFits, Pending
    <2>4. CASE nc_established
      BY <1>0, <1>a, <2>1, <2>4 DEF nc_established, QueueFits, Pending
    <2>5. CASE nc_keepalive
      BY <1>0, <1>a, <2>1, <2>5 DEF nc_keepalive, QueueFits, Pending
    <2> QED BY <1>5, <2>2, <2>3, <2>4, <2>5
  <1>6. CASE nc_connect_fails
    BY <1>6, ConnectFailsFits
  <1>7. CASE nc_write_fails \/ nc_read_fails \/ nc_ack_error
    BY <1>7, ClosedFits DEF nc_write_fails, nc_read_fails, nc_ack_error, NcRead
  <1>8. CASE nc_notice
    <2>0. baseid \in Nat /\ baseid + 1 \in Sessions
      BY <1>8 DEF nc_notice, GetCommand, DataInv, DataTypes, Sessions
    <2>1. Session(baseid + 1) /\ baseid + 1 > baseid
      BY <2>0 DEF DataInv
    <2>2. starts[baseid + 1] = 0
      BY <2>0, <2>1 DEF Session
    <2>3. starts' = [starts EXCEPT ![baseid + 1] = 1]
      BY <1>8, <2>0, <2>2 DEF nc_notice
    <2>4. PICK b \in Sessions : b = baseid + 1
      BY <2>0
    <2>a. starts' = [starts EXCEPT ![b] = 1] /\ starts[b] = 0
      BY <2>2, <2>3, <2>4
    <2>b. Cardinality(Starting') = Cardinality(Starting) - starts[b] + 1
      BY <2>a, Restarted
    <2>5. Cardinality(Starting') = Cardinality(Starting) + 1
      BY <1>0, <2>a, <2>b
    <2> QED BY <1>0, <1>8, <2>5 DEF nc_notice, GetCommand, NcRead, QueueFits, Pending, Fits
  <1>9. CASE nc_notice_full
    BY <1>9, FullFits
  <1>b. CASE nc_ack
    <2>1. starts' = starts /\ UNCHANGED <<dcConnects, ncConnects, nc>> /\ nc = "up"
      BY <1>b DEF nc_ack, NcRead
    <2>2. keepalives' = IF Fits(1) THEN keepalives + 1 ELSE keepalives
      BY <1>b DEF nc_ack, Scheduled
    <2> QED BY <1>0, <1>a, <2>1, <2>2 DEF QueueFits, Pending, Fits
  <1>c. CASE nc_write \/ Server \/ UNCHANGED vars
    <2>1. UNCHANGED <<starts, dcConnects, ncConnects, keepalives, nc>>
      BY <1>c DEF nc_write, Server, dc_answer, dc_close, nc_sends_notice, nc_answers, nc_close, NcSends, vars, works, notice
    <2> QED BY <1>a, <2>1 DEF QueueFits, Pending
  <1> QED BY <1>1, <1>2, <1>3, <1>4, <1>5, <1>6, <1>7, <1>8, <1>9, <1>b, <1>c
          DEF Next, DcService, mtk_nc_connect, NcService

LEMMA QueueInit == Init => QueueFits
  <1> SUFFICES ASSUME Init PROVE QueueFits
    OBVIOUS
  <1>0. baseid \in Nat /\ baseid <= MaxSessions /\ baseid < WorksCap
    BY DEF Init
  <1>1. Starting = 1 .. baseid
    BY <1>0 DEF Init, Starting, Sessions
  <1>2. Cardinality(Starting) = baseid
    BY <1>0, <1>1, FS_Interval
  <1> QED BY <1>0, <1>2 DEF Init, QueueFits, Pending

-----------------------------------------------------------------------------
(* What the notice channel promises *)

\* A step that leaves the notice channel down finds or leaves an attempt to connect,
\* unless it closes it with the queue full.
LEMMA ReconnectStep ==
    ASSUME DataInv, NoticeTypes, QueueFits, [Next]_vars,
           alive', nc' = "down", ncConnects' = 0
    PROVE  (nc = "down" /\ ncConnects = 0) \/ (nc = "up" /\ keepalives = 0 /\ ~Fits(1))
  <1>1. CASE (\E s \in Sessions : mtk_session_start(s)) \/ mtk_dc_connect \/ DcService
    BY <1>1, SessionsApart DEF notice
  <1>2. CASE nc_already_connected \/ nc_connects \/ nc_established \/ nc_keepalive
    BY <1>2 DEF nc_already_connected, nc_connects, nc_established, nc_keepalive, notice
  <1>3. CASE nc_connect_fails
    BY <1>3, ConnectFailsFits DEF NoticeTypes
  <1>4. CASE nc_write_fails \/ nc_read_fails \/ nc_ack_error
    BY <1>4, ClosedFits DEF nc_write_fails, nc_read_fails, nc_ack_error, NcRead
  <1>5. CASE nc_notice_full
    BY <1>5, FullFits DEF nc_notice_full, GetCommand, NcRead
  <1>6. CASE nc_write \/ nc_notice \/ nc_ack
    BY <1>6 DEF nc_write, nc_notice, nc_ack, GetCommand, NcRead
  <1>7. CASE Server \/ UNCHANGED vars
    BY <1>7 DEF Server, dc_answer, dc_close, nc_sends_notice, nc_answers, nc_close, NcSends, vars, works, notice
  <1> QED BY <1>1, <1>2, <1>3, <1>4, <1>5, <1>6, <1>7 DEF Next, mtk_nc_connect, NcService

\* A heartbeat is handed on by every step, unless its answer finds the queue full.
LEMMA HeartbeatStep ==
    ASSUME NoticeTypes, [Next]_vars, nc' = "up", ~Beats'
    PROVE  nc = "up" /\ (~Beats \/ ~Fits(1))
  <1>1. CASE (\E s \in Sessions : mtk_session_start(s)) \/ mtk_dc_connect \/ DcService
    BY <1>1, SessionsApart DEF notice, Beats
  <1>2. CASE nc_already_connected \/ nc_connects \/ nc_established
    BY <1>2 DEF nc_already_connected, nc_connects, nc_established, notice, Beats, NoticeTypes
  <1>3. CASE nc_connect_fails
    BY <1>3 DEF nc_connect_fails
  <1>4. CASE nc_keepalive
    BY <1>4, HeartbeatQueued DEF nc_keepalive, Beats
  <1>5. CASE nc_write
    <2>1. ring \in Seq(Bytes) /\ asked \in Seq(Bytes) /\ ring # <<>>
      BY <1>5 DEF nc_write, NoticeTypes
    <2>2. Append(asked, Head(ring)) # <<>>
      BY <2>1, Removed, Appended
    <2> QED BY <1>5, <2>2 DEF nc_write, Beats
  <1>6. CASE nc_write_fails \/ nc_read_fails \/ nc_ack_error \/ nc_notice_full
    BY <1>6 DEF nc_write_fails, nc_read_fails, nc_ack_error, nc_notice_full, NcClosed, NcReleased
  <1>7. CASE nc_notice
    BY <1>7 DEF nc_notice, Beats, NoticeTypes
  <1>8. CASE nc_ack
    BY <1>8 DEF nc_ack, NcRead, Scheduled, Beats, NoticeTypes
  <1>9. CASE nc_sends_notice \/ nc_answers
    <2>0. unread \in Seq(Bytes) /\ asked \in Seq(Bytes) /\ 0 \in Bytes
      BY DEF NoticeTypes, Bytes
    <2>1. unread' # <<>>
      <3>1. CASE nc_sends_notice
        BY <2>0, <3>1, Appended DEF nc_sends_notice, NcSends
      <3>2. CASE nc_answers
        BY <2>0, <3>2, Removed, Appended DEF nc_answers, NcSends
      <3> QED BY <1>9, <3>1, <3>2
    <2> QED BY <2>1 DEF Beats
  <1>a. CASE nc_close
    BY <1>a DEF nc_close, Beats
  <1>b. CASE dc_answer \/ dc_close \/ UNCHANGED vars
    BY <1>b DEF dc_answer, dc_close, vars, works, notice, Beats
  <1> QED BY <1>1, <1>2, <1>3, <1>4, <1>5, <1>6, <1>7, <1>8, <1>9, <1>a, <1>b
          DEF Next, mtk_nc_connect, NcService, Server

-----------------------------------------------------------------------------
(* The other variables *)

Losses == {"connect", "connected", "answer", "stream", "misread", "start"}

Flags ==
    /\ nc \in {"down", "connecting", "up"}
    /\ rx \in {"clean", "old", "part", "full"}
    /\ dcCtx \in BOOLEAN /\ ncCtx \in BOOLEAN
    /\ eof \in BOOLEAN /\ alive \in BOOLEAN

Limits ==
    /\ Len(ring) <= RingSize
    /\ rwait \in [runs : BOOLEAN, cnt : 0 .. MaxCnt]
    /\ lost \subseteq Losses
    /\ faults \in 0 .. MaxFaults

\* The ring of the notice channel overwrites its oldest heartbeat when it is full.
LEMMA HeartbeatFits == NoticeTypes /\ Len(ring) <= RingSize => Len(Heartbeat) <= RingSize
  <1> SUFFICES ASSUME NoticeTypes, Len(ring) <= RingSize PROVE Len(Heartbeat) <= RingSize
    OBVIOUS
  <1>0. ring \in Seq(Bytes) /\ Len(ring) \in Nat /\ msgindex \in Bytes
    BY DEF NoticeTypes
  <1>1. CASE Len(ring) < RingSize
    BY <1>0, <1>1 DEF Heartbeat
  <1>2. CASE ~(Len(ring) < RingSize)
    <2>1. ring # <<>>
      BY <1>0, <1>2
    <2>2. Tail(ring) \in Seq(Bytes) /\ Len(Tail(ring)) = Len(ring) - 1 /\ Heartbeat = Append(Tail(ring), msgindex)
      BY <1>0, <1>2, <2>1 DEF Heartbeat
    <2>3. Len(Heartbeat) = Len(Tail(ring)) + 1
      BY <1>0, <2>2
    <2> QED BY <1>0, <2>2, <2>3
  <1> QED BY <1>1, <1>2

LEMMA FlagsNext == Flags /\ [Next]_vars => Flags'
  <1> SUFFICES ASSUME Flags, [Next]_vars PROVE Flags'
    OBVIOUS
  <1>0. alive \in BOOLEAN
    BY DEF Flags
  <1>1. ASSUME NEW s \in Sessions, mtk_session_start(s) PROVE Flags'
    BY <1>1, Zenon DEF mtk_session_start, data, notice, Flags
  <1>2. CASE mtk_dc_connect
    BY <1>2, Zenon DEF mtk_dc_connect, dc_established, dc_request_fails, dc_already_connected, dc_connect_fails,
                       DcConnect, data, notice, Flags
  <1>3. CASE dc_write \/ dc_write_fails \/ dc_read_broken
    BY <1>3, Zenon DEF dc_write, dc_write_fails, dc_read_broken, DcReleased, notice, Flags
  <1>4. ASSUME NEW a, Receives(a) PROVE Flags'
    BY <1>4, Zenon DEF Receives, DcReleased, notice, Flags
  <1>5. CASE dc_response_ignored \/ rsp_process
    BY <1>4, <1>5, Zenon DEF dc_response_ignored, rsp_process, chunksend_response, chunkrecv_response, getcmd_response
  <1>6. CASE mtk_nc_connect
    BY <1>6, Zenon DEF mtk_nc_connect, nc_already_connected, nc_connects, nc_established, nc_connect_fails, notice, data, Flags
  <1>7. CASE nc_keepalive \/ nc_write
    BY <1>7, Zenon DEF nc_keepalive, nc_write, data, Flags
  <1>8. CASE nc_write_fails \/ nc_read_fails \/ nc_ack_error \/ nc_notice_full
    <2>1. RxKept => rx' \in {"clean", "old", "part", "full"}
      BY DEF RxKept
    <2> QED BY <1>8, <2>1, Zenon DEF nc_write_fails, nc_read_fails, nc_ack_error, nc_notice_full, NcClosed, NcReleased, data, Flags
  <1>9. CASE nc_notice \/ nc_ack
    BY <1>9, Zenon DEF nc_notice, nc_ack, NcServed, data, Flags
  <1>a. CASE Server
    BY <1>a, Zenon DEF Server, dc_answer, dc_close, nc_sends_notice, nc_answers, nc_close, NcSends, data, notice, Flags
  <1>b. CASE UNCHANGED vars
    BY <1>b, Zenon DEF vars, data, notice, Flags
  <1> QED BY <1>1, <1>2, <1>3, <1>5, <1>6, <1>7, <1>8, <1>9, <1>a, <1>b DEF Next, DcService, NcService

LEMMA LimitsNext == NoticeTypes /\ Limits /\ [Next]_vars => Limits'
  <1> SUFFICES ASSUME NoticeTypes, Limits, [Next]_vars PROVE Limits'
    OBVIOUS
  <1>0. NoticeTypes /\ ring \in Seq(Bytes)
    BY DEF NoticeTypes
  <1>l. lost' \subseteq Losses
    <2>1. ASSUME NEW fits PROVE Forgotten(fits) \subseteq Losses
      BY DEF Forgotten, Losses
    <2>2. Misread \subseteq Losses
      BY DEF Misread, Losses
    <2>3. lost \subseteq Losses
      BY DEF Limits
    <2>4. CASE (\E s \in Sessions : mtk_session_start(s)) \/ mtk_dc_connect
      BY <2>3, <2>4 DEF mtk_session_start, mtk_dc_connect, dc_established, dc_request_fails, dc_already_connected,
                        dc_connect_fails, Losses
    <2>5. CASE dc_write \/ dc_write_fails \/ dc_read_broken \/ dc_response_ignored
      BY <2>3, <2>5 DEF dc_write, dc_write_fails, dc_read_broken, dc_response_ignored, Losses
    <2>6. CASE rsp_process
      BY <2>1, <2>2, <2>3, <2>6 DEF rsp_process, chunksend_response, chunkrecv_response, getcmd_response, NextChunk, Finished
    <2>7. CASE mtk_nc_connect \/ nc_keepalive
      BY <2>1, <2>3, <2>7 DEF mtk_nc_connect, nc_already_connected, nc_connects, nc_established, nc_connect_fails, nc_keepalive
    <2>8. CASE NcService
      BY <2>3, <2>8 DEF NcService, nc_write, nc_write_fails, nc_read_fails, nc_notice, nc_notice_full, nc_ack, nc_ack_error,
                        NcClosed, Losses
    <2>9. CASE Server \/ UNCHANGED vars
      BY <2>3, <2>9 DEF Server, dc_answer, dc_close, nc_sends_notice, nc_answers, nc_close, NcSends, vars
    <2> QED BY <2>4, <2>5, <2>6, <2>7, <2>8, <2>9 DEF Next, DcService
  <1>f. faults' \in 0 .. MaxFaults
    <2>0. faults \in 0 .. MaxFaults
      BY DEF Limits
    <2>1. Fault => faults' \in 0 .. MaxFaults
      BY <2>0 DEF Fault
    <2>2. CASE faults' = faults
      BY <2>0, <2>2
    <2>3. Fault \/ faults' = faults
      <3>1. CASE (\E s \in Sessions : mtk_session_start(s)) \/ mtk_dc_connect
        BY <3>1 DEF mtk_session_start, mtk_dc_connect, dc_established, dc_request_fails, dc_already_connected, dc_connect_fails
      <3>2. CASE DcService
        BY <3>2 DEF DcService, dc_write, dc_write_fails, dc_read_broken, dc_response_ignored, rsp_process,
                    chunksend_response, chunkrecv_response, getcmd_response, Receives
      <3>3. CASE mtk_nc_connect \/ nc_keepalive \/ NcService
        BY <3>3 DEF mtk_nc_connect, nc_already_connected, nc_connects, nc_established, nc_connect_fails, nc_keepalive,
                    NcService, nc_write, nc_write_fails, nc_read_fails, nc_notice, nc_notice_full, nc_ack, nc_ack_error, NcServed, NcClosed, NcReleased
      <3>4. CASE Server \/ UNCHANGED vars
        BY <3>4 DEF Server, dc_answer, dc_close, nc_sends_notice, nc_answers, nc_close, NcSends, vars
      <3> QED BY <3>1, <3>2, <3>3, <3>4 DEF Next
    <2> QED BY <2>1, <2>2, <2>3
  <1>r. \/ UNCHANGED <<ring, rwait>>
        \/ nc_keepalive \/ nc_write
        \/ rwait' = [runs |-> FALSE, cnt |-> 0] /\ (ring' = <<>> \/ ring' = ring)
    <2>1. CASE (\E s \in Sessions : mtk_session_start(s)) \/ mtk_dc_connect
      BY <2>1 DEF mtk_session_start, mtk_dc_connect, dc_established, dc_request_fails, dc_already_connected, dc_connect_fails,
                  DcConnect, notice
    <2>2. CASE DcService
      BY <2>2 DEF DcService, dc_write, dc_write_fails, dc_read_broken, dc_response_ignored, rsp_process,
                  chunksend_response, chunkrecv_response, getcmd_response, Receives, notice
    <2>3. CASE mtk_nc_connect
      BY <2>3 DEF mtk_nc_connect, nc_already_connected, nc_connects, nc_established, nc_connect_fails, notice
    <2>4. CASE NcService
      BY <2>4 DEF NcService, nc_write_fails, nc_read_fails, nc_notice, nc_notice_full, nc_ack, nc_ack_error, NcServed, NcClosed, NcReleased, Served
    <2>5. CASE Server \/ UNCHANGED vars
      BY <2>5 DEF Server, dc_answer, dc_close, nc_sends_notice, nc_answers, nc_close, NcSends, vars, notice
    <2> QED BY <2>1, <2>2, <2>3, <2>4, <2>5 DEF Next
  <1>1. CASE nc_keepalive
    BY <1>0, <1>1, <1>l, <1>f, HeartbeatFits DEF nc_keepalive, Limits
  <1>2. CASE nc_write
    <2>1. Len(ring') <= RingSize
      BY <1>0, <1>2 DEF nc_write, Limits
    <2>2. rwait' = [runs |-> FALSE, cnt |-> 0]
      BY <1>2 DEF nc_write, Served
    <2> QED BY <1>l, <1>f, <2>1, <2>2 DEF Limits
  <1>3. CASE ~nc_keepalive /\ ~nc_write
    <2>1. Len(<<>>) <= RingSize /\ [runs |-> FALSE, cnt |-> 0] \in [runs : BOOLEAN, cnt : 0 .. MaxCnt]
      OBVIOUS
    <2>2. Len(ring') <= RingSize
      BY <1>r, <1>3, <2>1 DEF Limits
    <2>3. rwait' \in [runs : BOOLEAN, cnt : 0 .. MaxCnt]
      BY <1>r, <1>3, <2>1 DEF Limits
    <2> QED BY <1>l, <1>f, <2>2, <2>3 DEF Limits
  <1> QED BY <1>1, <1>2, <1>3

-----------------------------------------------------------------------------
(* The theorems *)

\* The sessions with their data channel, and the notice channel, keep the
\* invariants that every work and every served event relies on.
THEOREM Invariants == Spec => [](DataInv /\ NoticeTypes /\ QueueFits)
  BY DataInit, NoticeInit, QueueInit, DataNext, NoticeNext, QueueNext, PTL DEF Spec

\* Type correctness: in particular no session goes beyond the last chunk of its
\* file, the ring of heartbeats never holds more than its capacity, and the index
\* of the notice channel stays in its byte.
THEOREM TypeCorrect == Spec => []TypeOK
  <1>1. Init => Flags /\ Limits
    <2>1. Init => Flags
      BY Zenon DEF Init, Flags
    <2>2. Init => Limits
      BY DEF Init, Limits
    <2> QED BY <2>1, <2>2
  <1>2. ASSUME DataInv, NoticeTypes, Flags, Limits PROVE TypeOK
    <2>1. index \in [Sessions -> 0 .. NChunks - 1]
      <3>1. \A s \in Sessions : index[s] \in 0 .. NChunks - 1
        BY <1>2 DEF DataInv, DataTypes, Sent
      <3> QED BY <1>2, <3>1 DEF DataInv, DataTypes
    <2>2. req \in [s : Sessions \cup {0}, index : 0 .. NChunks - 1]
      <3>1. CASE dc \in {"queued", "asked"}
        <4>1. cur \in Sessions /\ req = [s |-> cur, index |-> index[cur]]
          BY <1>2, <3>1 DEF DataInv, DataTypes, Channel, AnswerToAsker
        <4> QED BY <2>1, <4>1
      <3>2. CASE dc \in {"down", "idle"}
        BY <1>2, <3>2 DEF DataInv, Channel, NoReq
      <3> QED BY <1>2, <3>1, <3>2 DEF DataInv, DataTypes
    <2>3. lost \in SUBSET {"connect", "connected", "answer", "stream", "misread", "start"}
      BY <1>2 DEF Limits, Losses
    <2> QED BY <1>2, <2>1, <2>2, <2>3
            DEF TypeOK, DataInv, DataTypes, Kinds, States, NoticeTypes, Bytes, Flags, Limits
  <1> QED BY <1>1, <1>2, Invariants, FlagsNext, LimitsNext, PTL DEF Spec

\* mtk_session_start, mtk_dc_connect, the callbacks and mtk_session_free together
\* never leave a work or the data channel with a session that was freed, and never
\* let two works drive one session.
THEOREM SessionsSafe == Spec => []NoDangling
  <1>1. DataInv => NoDangling
    <2> SUFFICES ASSUME DataInv PROVE NoDangling
      OBVIOUS
    <2>1. cur # 0 => Live(cur)
      BY DEF DataInv, DataTypes, Session
    <2>2. ASSUME NEW s \in Sessions PROVE Moves(s) <= 1 /\ (Moves(s) > 0 => Live(s))
      <3>1. CASE cur = s
        <4>1. /\ starts[s] \in {0, 1} /\ dcConnects \in {0, 1} /\ state[s] \in {"REQ", "RSP"}
              /\ starts[s] = 1 => state[s] = "REQ"
              /\ dcConnects = 1 => state[s] = "REQ" /\ starts[s] = 0
          BY <2>2, <3>1 DEF DataInv, Channel, Session, Live
        <4>2. CASE state[s] = "REQ"
          BY <3>1, <4>1, <4>2 DEF Moves, Live
        <4>3. CASE state[s] = "RSP"
          BY <3>1, <4>1, <4>3 DEF Moves, Live
        <4> QED BY <4>1, <4>2, <4>3
      <3>2. CASE cur # s
        BY <2>2, <3>2 DEF DataInv, DataTypes, Session, Moves, Live
      <3> QED BY <3>1, <3>2
    <2> QED BY <2>1, <2>2 DEF NoDangling
  <1> QED BY <1>1, Invariants, PTL

\* The answer that short_link_read hands to dc_response_recv belongs to the session,
\* and to the chunk, of the data channel.
THEOREM AnswersSafe == Spec => []AnswerToAsker
  <1>1. DataInv => AnswerToAsker
    BY DEF DataInv, Channel
  <1> QED BY <1>1, Invariants, PTL

\* A session that has not ended is moved on by exactly one thing, until one of the
\* events happens that the client has no recovery for.
THEOREM SessionsKept == Spec => []NeverForgotten
  <1>1. DataInv => NeverForgotten
    <2> SUFFICES ASSUME DataInv, lost = {}, NEW s \in Sessions, Live(s) PROVE Moves(s) = 1
      BY DEF NeverForgotten
    <2>1. CASE state[s] = "REQ"
      BY <2>1 DEF DataInv, DataTypes, Channel, Session, Moves
    <2>2. CASE state[s] = "RSP"
      <3>1. cur = s /\ dc \in {"queued", "asked"} /\ starts[s] = 0 /\ dcConnects = 0
        BY <2>2 DEF DataInv, Channel, Session
      <3>2. req.s = s
        BY <3>1 DEF DataInv, Channel, AnswerToAsker
      <3> QED BY <2>2, <3>1, <3>2 DEF Moves
    <2> QED BY <2>1, <2>2 DEF Live
  <1> QED BY <1>1, Invariants, PTL

\* The chunks of a file are sent, or asked for, in order and once, however often the
\* connection breaks between them.
THEOREM ChunksSafe == Spec => []ChunksInOrder
  <1>1. DataInv => ChunksInOrder
    BY DEF DataInv, Sent, ChunksInOrder
  <1> QED BY <1>1, Invariants, PTL

\* mtk_chunkdata_merge writes whole files only, unless an answer was misread behind
\* the stale bytes of another.
THEOREM FilesSafe == Spec => []FileExact
  <1>1. DataInv => FileExact
    BY DEF DataInv, Received, FileExact, Whole
  <1> QED BY <1>1, Invariants, PTL

\* mtk_connect_release and mtk_nc_connect leave an attempt to connect scheduled
\* whenever they leave the notice channel down; only a release with the work queue
\* full and no keepalive to take out of it does not.
THEOREM ReconnectSafe == Spec => ReconnectPending
  <1>1. ASSUME DataInv, NoticeTypes, QueueFits, [Next]_vars
        PROVE  [alive' /\ nc' = "down" /\ ncConnects' = 0 =>
                  \/ nc = "down" /\ ncConnects = 0
                  \/ nc = "up" /\ keepalives = 0 /\ ~Fits(1)]_vars
    BY <1>1, ReconnectStep
  <1> QED BY <1>1, Invariants, PTL DEF Spec, ReconnectPending

\* nc_keepalive, the write, the server's answer and nc_notice_recv hand the heartbeat
\* on to each other; only an answer that is read with the work queue full ends them.
THEOREM HeartbeatSafe == Spec => HeartbeatGoesOn
  <1>1. ASSUME NoticeTypes, [Next]_vars
        PROVE  [nc' = "up" /\ ~Beats' => nc = "up" /\ (~Beats \/ ~Fits(1))]_vars
    BY <1>1, HeartbeatStep
  <1> QED BY <1>1, Invariants, PTL DEF Spec, HeartbeatGoesOn

=============================================================================
