-------------------------- MODULE ClientServer_proofs --------------------------
(***************************************************************************)
(* The client and its session, for files and chunks of any size, buffers   *)
(* with any room, any number of uploads and connections, cancels and       *)
(* deadlines at any moment, and writes that fail.                          *)
(*                                                                         *)
(* The argument: the client asks for an upload once, and says nothing more *)
(* until it is acknowledged.  So the session is at the start of a frame    *)
(* when the upload begins, and makes out every chunk of it; and the        *)
(* acknowledgement comes behind every result of an earlier upload, which   *)
(* the client has therefore read, and dropped, by then.                    *)
(***************************************************************************)
EXTENDS ClientServer, SequenceTheorems, TLAPS

-----------------------------------------------------------------------------
(* What is under way, in either direction.                                 *)

\* What the client sends; a file, and the content of an upload.
Toks == [type : {"HELLO", "UPLOAD_BEGIN", "UPLOAD_CHUNK", "DATA", "UPLOAD_END",
                 "CANCEL", "BYE"}, arg : Int]
Files == Seq(Toks)

\* Tokens the client has sent and the session has not looked at, and with them
\* those the client is about to send of a chunk.
Asked  == readBuf \o toServer
Stream == Asked \o (IF pc = "chunk" THEN out ELSE << >>)

\* The kinds of the frames the client has not read: those that have arrived,
\* and those the session has still to transmit.
Kinds(s) == [i \in 1 .. Len(s) |-> s[i].type]
FramesOf(arrived, unsent, at) ==
  Kinds(arrived) \o (IF at = "cut" THEN << >> ELSE Kinds(unsent))

Unsent == DropFirst(flushed, writes)
Frames == FramesOf(toClient, Unsent, link)

Has(s, kind)     == \E i \in 1 .. Len(s) : s[i] = kind
Carries(s, kind) == \E i \in 1 .. Len(s) : s[i].type = kind

Acked == Has(Frames, "UPLOAD_BEGIN_ACK")

\* What comes behind an acknowledgement is no other and no result.
AckLast(s) ==
  \A i, j \in 1 .. Len(s) :
    s[i] = "UPLOAD_BEGIN_ACK" /\ i < j =>
      s[j] # "UPLOAD_BEGIN_ACK" /\ s[j] # "RESULT_CHUNK"

\* An UPLOAD_BEGIN of the given size, and nothing behind it.
BeginLast(s, size) ==
  \A i \in 1 .. Len(s) :
    s[i].type = "UPLOAD_BEGIN" => i = Len(s) /\ s[i].arg = size

\* What is left of the chunk the decoder is in.
LeftOf(d) == IF d.phase = "Payload" THEN d.left ELSE 0

\* The first n tokens are data, every header of a chunk is followed by the data
\* it announces, and there is no other data.
Framed(s, n) ==
  /\ n <= Len(s)
  /\ \A j \in 1 .. n : s[j].type = "DATA"
  /\ \A i \in 1 .. Len(s) : s[i].type = "UPLOAD_CHUNK" =>
       /\ s[i].arg >= 0 /\ i + s[i].arg <= Len(s)
       /\ \A j \in i + 1 .. i + s[i].arg : s[j].type = "DATA"
  /\ \A j \in n + 1 .. Len(s) : s[j].type = "DATA" =>
       \E i \in 1 .. j - 1 : s[i].type = "UPLOAD_CHUNK" /\ j <= i + s[i].arg

\* All data is the token given.
DataIs(s, token) == \A i \in 1 .. Len(s) : s[i].type = "DATA" => s[i] = token
AllAre(s, x)     == \A i \in 1 .. Len(s) : s[i] = x

\* Every result among the replies is the one given.
ResultsAre(s, result) ==
  \A i \in 1 .. Len(s) : s[i].type = "RESULT_CHUNK" => s[i].body = <<result>>

\* One result at most is still to be transmitted, and computed has it.
OneResult(computed, kinds) ==
  /\ computed \in Seq(Files) /\ Len(computed) <= 1
  /\ computed = << >> <=> ~Has(kinds, "RESULT_CHUNK")
  /\ \A i, j \in 1 .. Len(kinds) :
       kinds[i] = "RESULT_CHUNK" /\ kinds[j] = "RESULT_CHUNK" => i = j

-----------------------------------------------------------------------------
(* The inductive invariant.                                                *)

\* The client is in a session that is not ending; until its handshake; in an
\* upload that has been acknowledged; and between uploads, or over.
Over  == {"close", "closed", "last", "leave", "ended"}
Live  == pc \notin Over
Early == {"none", "start", "connect", "hello", "helloAck"}
Open  == {"open", "loop", "chunk", "drain", "end", "await", "awaitRead", "result",
          "body", "kept"}
Rests == {"idle", "idleRead", "bye", "close", "closed"}

\* The upload is acknowledged, or is as soon as the client reads it.
Current == pc \in Open \/ Acked

Meets == Live /\ link # "cut"

\* The upload has been cancelled, and CANCEL sent.
Cancelled ==
  pc = "cancelAck" \/ (pc \in {"idle", "idleRead"} /\ snap.phase = "Cancelled")

\* A token of the file of the upload.
Own == Token("DATA", job.id)

\* The frames the client reads.
FrameNames == {"HELLO_ACK", "UPLOAD_BEGIN_ACK", "UPLOAD_ACK", "ANALYZE_DONE",
               "RESULT_BEGIN", "RESULT_CHUNK", "RESULT_END", "ERROR", "GARBAGE"}
Arrivals == [type : FrameNames, arg : Int, body : Seq(Files)]
Decoders == [phase : {"Header", "Payload", "Complete", "Failed"}, type : FrameTypes,
             arg : Int, left : Nat, streamed : BOOLEAN]

Phases == C!TransferPhases \cup
            {"Idle", "Connecting", "Handshaking", "Connected", "Done", "Cancelled",
             "Failed"}

Jobs  == [id : Int, size : Nat, sent : Int, want : Int, body : Seq(Files),
          after : {"Cancelled", "Connected"}]
Snaps == [phase : Phases, connected : BOOLEAN, result : BOOLEAN, csv : Seq(Files)]

ClientTypes ==
  /\ job \in Jobs
  /\ snap \in Snaps
  /\ out \in Seq(Toks)
  /\ toServer \in Seq(Toks)

\* The reply to a well formed frame is well formed.
RepliesTrue ==
  Live =>
    /\ toClient \in Seq(Arrivals)
    /\ \A i \in 1 .. Len(toClient) :
         toClient[i].type \in {"RESULT_BEGIN", "ANALYZE_DONE"} => toClient[i].arg = 1

\* What is left to send: one frame, or the rest of a chunk.
OutFits ==
  /\ pc \notin C!Senders => out = << >>
  /\ pc = "hello" => out = <<Token("HELLO", 0)>>
  /\ pc = "begin" => out = <<Token("UPLOAD_BEGIN", job.size)>>
  /\ pc = "end" => \E n \in Int : out = <<Token("UPLOAD_END", n)>>
  /\ pc = "cancel" => out = <<Token("CANCEL", 0)>>
  /\ pc = "bye" => out = <<Token("BYE", 0)>>
  /\ pc = "chunk" =>
       /\ out # << >>
       /\ \A i \in 2 .. Len(out) : out[i] = Own
       /\ out[1] = Own \/ out[1] = Token("UPLOAD_CHUNK", Len(out) - 1)

\* Where the worker is when it shows an upload as over; what it has of a result.
PhaseFits ==
  /\ snap.phase \in {"Done", "Cancelled"} => pc \in Rests
  /\ pc \in {"none", "start", "connect"} => link = "none"
  /\ pc \in (Open \cup {"begin", "beginAck"}) \ {"body", "kept"} => job.body = << >>
  /\ pc = "body" => job.want = 1 /\ AllAre(job.body, OwnFile)
  /\ pc = "kept" \/ snap.phase = "Done" => snap.csv = <<OwnFile>>

SessionTypes ==
  /\ state \in {"AwaitHello", "Ready", "Uploading", "Closing"}
  /\ readBuf \in Seq(Toks)
  /\ decoder \in Decoders
  /\ writes \in Seq(Replies) /\ flushed \in 0 .. Len(writes)
  /\ declared \in Int /\ received \in Nat /\ fed \in Nat
  /\ content \in Files

\* Between two reads nothing is half done, and the counts are of the content.
SessionFits ==
  /\ decoder.phase \in {"Header", "Failed"} => decoder.type = "NONE"
  /\ decoder.phase = "Payload" => decoder.type = "UPLOAD_CHUNK" /\ decoder.left > 0
  /\ ~inRead => readBuf = << >> /\ decoder.phase # "Complete"
  /\ state = "Closing" => tcp # "open"
  /\ state = "Uploading" => received = fed
  /\ Len(content) = fed

\* The client is acknowledged once, and has read everything older by then: what
\* comes behind the acknowledgement is no result of an earlier upload.
AckFits ==
  Live => /\ pc # "beginAck" => ~Acked
          /\ AckLast(Frames)

\* It has asked once, and asks nothing more until it is acknowledged.
BeginFits ==
  Meets =>
    /\ pc # "beginAck" => ~Carries(Asked, "UPLOAD_BEGIN") /\ decoder.type # "UPLOAD_BEGIN"
    /\ BeginLast(Asked, job.size)
    /\ Carries(Asked, "UPLOAD_BEGIN") => decoder.type # "UPLOAD_BEGIN" /\ ~Acked
    /\ decoder.type = "UPLOAD_BEGIN" =>
         Asked = << >> /\ decoder.arg = job.size /\ ~Acked
    /\ Acked => Asked = << >> /\ decoder.phase = "Header"

GreetingFits ==
  Meets /\ (pc \notin Early \/ Has(Frames, "HELLO_ACK")) => state # "AwaitHello"

\* The session makes out every chunk of the upload, while no cancel has torn one.
FramingFits ==
  Meets /\ state = "Uploading" /\ (Current \/ heard = "yes") =>
    Framed(Stream, LeftOf(decoder)) /\ decoder.phase # "Failed"

\* What it splits is the file.
ContentFits ==
  Meets /\ state = "Uploading" /\ Current =>
    declared = job.size /\ DataIs(Stream, Own) /\ AllAre(content, Own)

\* At most one result is under way, and none while the session is uploading.
ResultFits ==
  Meets =>
    /\ state = "Uploading" /\ ~Acked => ~Has(Frames, "RESULT_CHUNK")
    /\ tcp = "open" => OneResult(results, Kinds(Unsent))

\* It is the one of the file.
ResultTrue ==
  Live /\ pc \in Open =>
    /\ ResultsAre(toClient, OwnFile)
    /\ link # "cut" /\ tcp = "open" => AllAre(results, OwnFile)

\* A cancel that was sent between two frames is there until it is handled.
CancelFits ==
  Meets /\ heard = "yes" /\ state = "Uploading" /\ Cancelled =>
    Carries(Asked, "CANCEL") \/ decoder.type = "CANCEL"

\* What both ends have, what they have of one another, and both.
Basics == /\ ClientTypes /\ RepliesTrue /\ OutFits /\ PhaseFits
          /\ SessionTypes /\ SessionFits
Agreement == /\ AckFits /\ BeginFits /\ GreetingFits /\ FramingFits
             /\ ContentFits /\ ResultFits /\ ResultTrue /\ CancelFits

SystemInv == Basics /\ Agreement

-----------------------------------------------------------------------------
(* The kinds of frames, in order.                                          *)

LEMMA KindsAssoc ==
  \A s, t, u \in Seq(FrameNames) : (s \o t) \o u = s \o (t \o u)
  BY ConcatAssociative

LEMMA TokensAssoc ==
  \A s, t, u \in Seq(Toks) : (s \o t) \o u = s \o (t \o u)
  BY ConcatAssociative

\* A record of frames has a kind for each.
LEMMA KindsType ==
  ASSUME NEW S, NEW s \in Seq(S), \A x \in S : x.type \in FrameNames
  PROVE  /\ Kinds(s) \in Seq(FrameNames) /\ Len(Kinds(s)) = Len(s) /\ Len(s) \in Nat
         /\ \A i \in 1 .. Len(s) : Kinds(s)[i] = s[i].type
<1>1. Len(s) \in Nat /\ \A i \in 1 .. Len(s) : s[i] \in S
  BY LenProperties, ElementOfSeq
<1>2. \A i \in 1 .. Len(s) : s[i].type \in FrameNames
  BY <1>1
<1>3. Kinds(s) \in [1 .. Len(s) -> FrameNames] /\ DOMAIN Kinds(s) = 1 .. Len(s)
  BY <1>2 DEF Kinds
<1>4. Kinds(s) \in Seq(FrameNames)
  BY <1>1, <1>2, IsASeq DEF Kinds
<1>5. Len(Kinds(s)) = Len(s)
  <2> DEFINE k == Kinds(s)
  <2>1. k \in Seq(FrameNames) /\ DOMAIN k = 1 .. Len(s)
    BY <1>3, <1>4
  <2> HIDE DEF k
  <2>2. DOMAIN k = 1 .. Len(k) /\ Len(k) \in Nat
    BY <2>1, LenProperties
  <2>3. Len(k) = Len(s)
    BY <1>1, <2>1, <2>2
  <2>4. QED
    BY <2>3 DEF k
<1>6. \A i \in 1 .. Len(s) : Kinds(s)[i] = s[i].type
  BY DEF Kinds
<1>7. QED
  BY <1>1, <1>4, <1>5, <1>6

LEMMA KindsEmpty == Kinds(<< >>) = << >>
<1>1. << >> \in Seq(Arrivals) /\ Len(<< >>) = 0
  BY EmptySeq
<1>2. \A x \in Arrivals : x.type \in FrameNames
  BY DEF Arrivals
<1>3. Kinds(<< >>) \in Seq(FrameNames) /\ Len(Kinds(<< >>)) = 0
  BY <1>1, <1>2, KindsType
<1>4. QED
  BY <1>3, EmptySeq

LEMMA KindsConcat ==
  ASSUME NEW S, NEW s \in Seq(S), NEW t \in Seq(S), \A x \in S : x.type \in FrameNames
  PROVE  Kinds(s \o t) = Kinds(s) \o Kinds(t)
<1> DEFINE u == s \o t
           k == Kinds(u)
           a == Kinds(s)
           b == Kinds(t)
           c == a \o b
<1>1. /\ u \in Seq(S) /\ Len(u) = Len(s) + Len(t)
      /\ \A i \in 1 .. Len(s) + Len(t) : u[i] = IF i <= Len(s) THEN s[i] ELSE t[i - Len(s)]
  BY ConcatProperties
<1> HIDE DEF u
<1>2. /\ k \in Seq(FrameNames) /\ Len(k) = Len(u)
      /\ \A i \in 1 .. Len(u) : k[i] = u[i].type
  BY <1>1, KindsType
<1>3. /\ a \in Seq(FrameNames) /\ Len(a) = Len(s) /\ Len(s) \in Nat
      /\ \A i \in 1 .. Len(s) : a[i] = s[i].type
  BY KindsType
<1>4. /\ b \in Seq(FrameNames) /\ Len(b) = Len(t) /\ Len(t) \in Nat
      /\ \A i \in 1 .. Len(t) : b[i] = t[i].type
  BY KindsType
<1> HIDE DEF k, a, b
<1>5. /\ c \in Seq(FrameNames) /\ Len(c) = Len(a) + Len(b)
      /\ \A i \in 1 .. Len(a) + Len(b) : c[i] = IF i <= Len(a) THEN a[i] ELSE b[i - Len(a)]
  <2>1. a \in Seq(FrameNames) /\ b \in Seq(FrameNames)
    BY <1>3, <1>4
  <2>2. QED
    BY <2>1, ConcatProperties
<1> HIDE DEF c
<1>6. Len(k) = Len(c)
  BY <1>1, <1>2, <1>3, <1>4, <1>5
<1>7. ASSUME NEW i \in 1 .. Len(k)
      PROVE  k[i] = c[i]
  <2>1. i \in 1 .. Len(s) + Len(t)
    BY <1>1, <1>2
  <2>2. k[i] = u[i].type /\ u[i] = IF i <= Len(s) THEN s[i] ELSE t[i - Len(s)]
    BY <1>1, <1>2, <2>1
  <2>3. c[i] = IF i <= Len(s) THEN a[i] ELSE b[i - Len(s)]
    BY <1>3, <1>4, <1>5, <2>1
  <2>4. CASE i <= Len(s)
    <3>1. i \in 1 .. Len(s)
      BY <1>3, <2>1, <2>4
    <3>2. QED
      BY <1>3, <2>2, <2>3, <2>4, <3>1
  <2>5. CASE ~(i <= Len(s))
    <3>1. i - Len(s) \in 1 .. Len(t)
      BY <1>3, <1>4, <2>1, <2>5
    <3>2. QED
      BY <1>4, <2>2, <2>3, <2>5, <3>1
  <2>6. QED
    BY <2>4, <2>5
<1>8. k = c
  BY <1>2, <1>5, <1>6, <1>7, SeqEqual
<1>9. QED
  BY <1>8 DEF k, u, c, a, b

LEMMA KindsTail ==
  ASSUME NEW S, NEW s \in Seq(S), s # << >>, \A x \in S : x.type \in FrameNames
  PROVE  Kinds(Tail(s)) = Tail(Kinds(s)) /\ Kinds(s) # << >> /\ Head(Kinds(s)) = Head(s).type
<1> DEFINE u == Tail(s)
           k == Kinds(u)
           a == Kinds(s)
           c == Tail(a)
<1>1. /\ u \in Seq(S) /\ Len(u) = Len(s) - 1
      /\ \A i \in 1 .. Len(u) : u[i] = s[i + 1]
  BY HeadTailProperties
<1>2. Len(s) \in Nat \ {0}
  BY EmptySeq
<1> HIDE DEF u
<1>3. /\ k \in Seq(FrameNames) /\ Len(k) = Len(u)
      /\ \A i \in 1 .. Len(u) : k[i] = u[i].type
  BY <1>1, KindsType
<1>4. /\ a \in Seq(FrameNames) /\ Len(a) = Len(s)
      /\ \A i \in 1 .. Len(s) : a[i] = s[i].type
  BY KindsType
<1> HIDE DEF k, a
<1>5. a # << >>
  BY <1>2, <1>4, EmptySeq
<1>6. /\ c \in Seq(FrameNames) /\ Len(c) = Len(a) - 1
      /\ \A i \in 1 .. Len(c) : c[i] = a[i + 1]
  BY <1>4, <1>5, HeadTailProperties
<1> HIDE DEF c
<1>7. ASSUME NEW i \in 1 .. Len(k)
      PROVE  k[i] = c[i]
  <2>1. i \in 1 .. Len(u) /\ i \in 1 .. Len(c) /\ i + 1 \in 1 .. Len(s)
    BY <1>1, <1>2, <1>3, <1>4, <1>6
  <2>2. k[i] = u[i].type /\ u[i] = s[i + 1] /\ c[i] = a[i + 1] /\ a[i + 1] = s[i + 1].type
    BY <1>1, <1>3, <1>4, <1>6, <2>1
  <2>3. QED
    BY <2>2
<1>8. Len(k) = Len(c)
  BY <1>1, <1>3, <1>4, <1>6
<1>9. k = c
  BY <1>3, <1>6, <1>7, <1>8, SeqEqual
<1>10. Head(a) = Head(s).type
  BY <1>2, <1>4, <1>5
<1>11. QED
  BY <1>5, <1>9, <1>10 DEF k, u, c, a


-----------------------------------------------------------------------------
(* Sequences from which the first elements are taken.                      *)

LEMMA DropType ==
  ASSUME NEW S, NEW s \in Seq(S), NEW n \in 0 .. Len(s)
  PROVE  /\ DropFirst(n, s) \in Seq(S)
         /\ Len(DropFirst(n, s)) = Len(s) - n
         /\ \A i \in 1 .. Len(s) - n : DropFirst(n, s)[i] = s[n + i]
<1>1. Len(s) \in Nat /\ n \in Nat /\ n <= Len(s)
  BY LenProperties
<1>2. n + 1 \in Int /\ Len(s) \in Int
  BY <1>1
<1>3. \A i \in n + 1 .. Len(s) : s[i] \in S
  BY <1>1, ElementOfSeq
<1> DEFINE m == n + 1
           d == SubSeq(s, m, Len(s))
<1>4. /\ d \in Seq(S)
      /\ Len(d) = IF m <= Len(s) THEN Len(s) - m + 1 ELSE 0
      /\ \A i \in 1 .. Len(s) - m + 1 : d[i] = s[m + i - 1]
  <2>1. m \in Int /\ \A i \in m .. Len(s) : s[i] \in S
    BY <1>2, <1>3
  <2> HIDE DEF m
  <2>2. QED
    BY <1>2, <2>1, SubSeqProperties
<1> HIDE DEF d
<1>5. Len(d) = Len(s) - n
  BY <1>1, <1>4
<1>6. \A i \in 1 .. Len(s) - n : d[i] = s[n + i]
  <2>1. TAKE i \in 1 .. Len(s) - n
  <2>2. i \in 1 .. Len(s) - m + 1 /\ m + i - 1 = n + i
    BY <1>1
  <2>3. QED
    BY <1>4, <2>2
<1>7. QED
  BY <1>4, <1>5, <1>6 DEF DropFirst, d

LEMMA DropConcat ==
  ASSUME NEW S, NEW s \in Seq(S), NEW t \in Seq(S), NEW n \in 0 .. Len(s)
  PROVE  DropFirst(n, s \o t) = DropFirst(n, s) \o t
<1> DEFINE u == s \o t
           a == DropFirst(n, u)
           b == DropFirst(n, s)
           c == b \o t
<1>1. /\ u \in Seq(S) /\ Len(u) = Len(s) + Len(t)
      /\ \A i \in 1 .. Len(s) + Len(t) : u[i] = IF i <= Len(s) THEN s[i] ELSE t[i - Len(s)]
  BY ConcatProperties
<1> HIDE DEF u
<1>2. Len(s) \in Nat /\ Len(t) \in Nat /\ n \in Nat /\ n <= Len(s)
  BY LenProperties
<1>3. n \in 0 .. Len(u)
  BY <1>1, <1>2
<1>4. /\ a \in Seq(S) /\ Len(a) = Len(u) - n
      /\ \A i \in 1 .. Len(u) - n : a[i] = u[n + i]
  BY <1>1, <1>3, DropType, Zenon
<1>5. /\ b \in Seq(S) /\ Len(b) = Len(s) - n
      /\ \A i \in 1 .. Len(s) - n : b[i] = s[n + i]
  BY DropType
<1> HIDE DEF a, b
<1>6. /\ c \in Seq(S) /\ Len(c) = Len(b) + Len(t)
      /\ \A i \in 1 .. Len(b) + Len(t) : c[i] = IF i <= Len(b) THEN b[i] ELSE t[i - Len(b)]
  <2>1. b \in Seq(S)
    BY <1>5
  <2>2. QED
    BY <2>1, ConcatProperties
<1> HIDE DEF c
<1>7. Len(a) = Len(c) /\ Len(a) = Len(s) + Len(t) - n
  BY <1>1, <1>2, <1>4, <1>5, <1>6
<1>8. ASSUME NEW i \in 1 .. Len(a)
      PROVE  a[i] = c[i]
  <2>1. i \in Int /\ 1 <= i /\ i <= Len(s) + Len(t) - n
    BY <1>2, <1>7
  <2>2. a[i] = IF n + i <= Len(s) THEN s[n + i] ELSE t[n + i - Len(s)]
    <3>1. n + i \in 1 .. Len(s) + Len(t) /\ i \in 1 .. Len(u) - n
      BY <1>1, <1>2, <2>1
    <3>2. a[i] = u[n + i]
      BY <1>4, <3>1
    <3>3. u[n + i] = IF n + i <= Len(s) THEN s[n + i] ELSE t[n + i - Len(s)]
      BY <1>1, <3>1
    <3>4. QED
      BY <3>2, <3>3
  <2>3. c[i] = IF i <= Len(b) THEN b[i] ELSE t[i - Len(b)]
    <3>1. i \in 1 .. Len(b) + Len(t)
      BY <1>2, <1>5, <2>1
    <3>2. QED
      BY <1>6, <3>1
  <2>4. CASE i <= Len(b)
    <3>1. i \in 1 .. Len(s) - n /\ n + i <= Len(s)
      BY <1>2, <1>5, <2>1, <2>4
    <3>2. QED
      BY <1>5, <2>2, <2>3, <2>4, <3>1
  <2>5. CASE ~(i <= Len(b))
    <3>1. ~(n + i <= Len(s)) /\ n + i - Len(s) = i - Len(b)
      BY <1>2, <1>5, <2>1, <2>5
    <3>2. QED
      BY <2>2, <2>3, <2>5, <3>1
  <2>6. QED
    BY <2>4, <2>5
<1>9. a = c
  BY <1>4, <1>6, <1>7, <1>8, SeqEqual
<1>10. QED
  BY <1>9 DEF a, u, c, b

\* One more.
LEMMA DropTail ==
  ASSUME NEW S, NEW s \in Seq(S), NEW n \in 0 .. Len(s), n < Len(s)
  PROVE  /\ DropFirst(n, s) # << >>
         /\ Head(DropFirst(n, s)) = s[n + 1]
         /\ Tail(DropFirst(n, s)) = DropFirst(n + 1, s)
<1> DEFINE b == DropFirst(n, s)
           m == n + 1
           a == DropFirst(m, s)
           c == Tail(b)
<1>1. Len(s) \in Nat /\ n \in Nat /\ m \in 0 .. Len(s)
  BY LenProperties
<1>2. /\ b \in Seq(S) /\ Len(b) = Len(s) - n
      /\ \A i \in 1 .. Len(s) - n : b[i] = s[n + i]
  BY DropType
<1> HIDE DEF m
<1>3. /\ a \in Seq(S) /\ Len(a) = Len(s) - m
      /\ \A i \in 1 .. Len(s) - m : a[i] = s[m + i]
  BY <1>1, DropType
<1> HIDE DEF b, a
<1>4. b # << >>
  BY <1>1, <1>2, EmptySeq
<1>5. /\ c \in Seq(S) /\ Len(c) = Len(b) - 1
      /\ \A i \in 1 .. Len(c) : c[i] = b[i + 1]
  BY <1>2, <1>4, HeadTailProperties
<1> HIDE DEF c
<1>6. Len(a) = Len(c)
  BY <1>1, <1>2, <1>3, <1>5 DEF m
<1>7. ASSUME NEW i \in 1 .. Len(a)
      PROVE  a[i] = c[i]
  <2>1. i \in 1 .. Len(s) - m /\ i \in 1 .. Len(c) /\ i + 1 \in 1 .. Len(s) - n
        /\ m + i = n + (i + 1)
    BY <1>1, <1>2, <1>3, <1>5, <1>6 DEF m
  <2>2. QED
    BY <1>2, <1>3, <1>5, <2>1
<1>8. a = c
  BY <1>3, <1>5, <1>6, <1>7, SeqEqual
<1>9. Head(b) = s[n + 1]
  <2>1. 1 \in 1 .. Len(s) - n
    BY <1>1
  <2>2. Head(b) = b[1]
    BY <1>2, <1>4
  <2>3. QED
    BY <1>2, <2>1, <2>2
<1>10. QED
  BY <1>4, <1>8, <1>9 DEF b, a, c, m

\* One less, of the rest.
LEMMA DropOfTail ==
  ASSUME NEW S, NEW s \in Seq(S), NEW n \in 0 .. Len(s), n > 0
  PROVE  DropFirst(n - 1, Tail(s)) = DropFirst(n, s) /\ n - 1 \in 0 .. Len(Tail(s))
<1> DEFINE t == Tail(s)
           m == n - 1
           a == DropFirst(m, t)
           b == DropFirst(n, s)
<1>1. Len(s) \in Nat /\ n \in Nat
  BY LenProperties
<1>2. s # << >>
  BY <1>1, EmptySeq
<1>3. /\ t \in Seq(S) /\ Len(t) = Len(s) - 1
      /\ \A i \in 1 .. Len(t) : t[i] = s[i + 1]
  BY <1>2, HeadTailProperties
<1> HIDE DEF t
<1>4. m \in 0 .. Len(t)
  BY <1>1, <1>3
<1> HIDE DEF m
<1>5. /\ a \in Seq(S) /\ Len(a) = Len(t) - m
      /\ \A i \in 1 .. Len(t) - m : a[i] = t[m + i]
  <2>1. t \in Seq(S)
    BY <1>3
  <2>2. QED
    BY <1>4, <2>1, DropType
<1>6. /\ b \in Seq(S) /\ Len(b) = Len(s) - n
      /\ \A i \in 1 .. Len(s) - n : b[i] = s[n + i]
  BY DropType
<1> HIDE DEF a, b
<1>7. Len(a) = Len(b)
  BY <1>1, <1>3, <1>5, <1>6 DEF m
<1>8. ASSUME NEW i \in 1 .. Len(a)
      PROVE  a[i] = b[i]
  <2>1. i \in 1 .. Len(t) - m /\ i \in 1 .. Len(s) - n /\ m + i \in 1 .. Len(t)
        /\ (m + i) + 1 = n + i
    BY <1>1, <1>3, <1>5, <1>6, <1>7 DEF m
  <2>2. QED
    BY <1>3, <1>5, <1>6, <2>1
<1>9. a = b
  BY <1>5, <1>6, <1>7, <1>8, SeqEqual
<1>10. QED
  BY <1>4, <1>9 DEF a, b, m, t

LEMMA DropAll ==
  ASSUME NEW S, NEW s \in Seq(S), NEW n \in 0 .. Len(s), ~(n < Len(s))
  PROVE  DropFirst(n, s) = << >>
<1>1. Len(s) \in Nat
  BY LenProperties
<1>2. DropFirst(n, s) \in Seq(S) /\ Len(DropFirst(n, s)) = 0
  BY <1>1, DropType
<1>3. QED
  BY <1>2, EmptySeq

LEMMA TailConcat ==
  ASSUME NEW S, NEW s \in Seq(S), NEW t \in Seq(S), s # << >>
  PROVE  s \o t # << >> /\ Head(s \o t) = Head(s) /\ Tail(s \o t) = Tail(s) \o t
<1> DEFINE u == s \o t
<1>1. Len(s) \in Nat \ {0} /\ Len(t) \in Nat /\ 1 \in 0 .. Len(s)
  BY EmptySeq, LenProperties
<1>2. /\ u \in Seq(S) /\ Len(u) = Len(s) + Len(t)
      /\ \A i \in 1 .. Len(s) + Len(t) : u[i] = IF i <= Len(s) THEN s[i] ELSE t[i - Len(s)]
  BY ConcatProperties
<1>3. DropFirst(1, u) = DropFirst(1, s) \o t
  BY <1>1, DropConcat
<1> HIDE DEF u
<1>4. u # << >>
  BY <1>1, <1>2, EmptySeq
<1>5. Tail(u) = DropFirst(1, u) /\ Tail(s) = DropFirst(1, s)
  BY <1>2, <1>4, TailIsSubSeq DEF DropFirst
<1>6. Head(u) = Head(s)
  BY <1>1, <1>2, <1>4
<1>7. QED
  BY <1>3, <1>4, <1>5, <1>6 DEF u


-----------------------------------------------------------------------------
(* The frames the client has not read.                                     *)

LEMMA ArrivalKinds == \A x \in Arrivals : x.type \in FrameNames
  BY DEF Arrivals

LEMMA ReplyKinds == \A x \in Replies : x.type \in FrameNames
  BY DEF Replies, Frame, Error, FrameNames

LEMMA FramesType ==
  ASSUME NEW r \in Seq(Arrivals), NEW u \in Seq(Replies), NEW at
  PROVE  /\ Kinds(r) \in Seq(FrameNames) /\ Kinds(u) \in Seq(FrameNames)
         /\ FramesOf(r, u, at) \in Seq(FrameNames)
<1>1. Kinds(r) \in Seq(FrameNames) /\ Kinds(u) \in Seq(FrameNames)
  BY KindsType, ArrivalKinds, ReplyKinds
<1>2. << >> \in Seq(FrameNames)
  BY EmptySeq
<1>3. CASE at = "cut"
  BY <1>1, <1>2, <1>3, ConcatProperties DEF FramesOf
<1>4. CASE at # "cut"
  BY <1>1, <1>4, ConcatProperties DEF FramesOf
<1>5. QED
  BY <1>1, <1>3, <1>4

\* The client takes the first.
LEMMA FramesRead ==
  ASSUME NEW r \in Seq(Arrivals), NEW u \in Seq(Replies), NEW at, r # << >>
  PROVE  /\ FramesOf(r, u, at) # << >>
         /\ Head(FramesOf(r, u, at)) = Head(r).type
         /\ FramesOf(Tail(r), u, at) = Tail(FramesOf(r, u, at))
<1> DEFINE k == Kinds(r)
           rest == IF at = "cut" THEN << >> ELSE Kinds(u)
<1>1. k \in Seq(FrameNames) /\ rest \in Seq(FrameNames)
  BY FramesType, EmptySeq
<1>2. Kinds(Tail(r)) = Tail(k) /\ k # << >> /\ Head(k) = Head(r).type
  BY KindsTail, ArrivalKinds
<1>3. FramesOf(r, u, at) = k \o rest /\ FramesOf(Tail(r), u, at) = Tail(k) \o rest
  BY <1>2 DEF FramesOf
<1> HIDE DEF k, rest
<1>4. k \o rest # << >> /\ Head(k \o rest) = Head(k) /\ Tail(k \o rest) = Tail(k) \o rest
  BY <1>1, <1>2, TailConcat
<1>5. QED
  BY <1>2, <1>3, <1>4

\* A read given up spoils the first.
LEMMA FramesSpoiled ==
  ASSUME NEW r \in Seq(Arrivals), NEW u \in Seq(Replies), NEW at, r # << >>,
         NEW g \in Arrivals
  PROVE  FramesOf(<<g>> \o Tail(r), u, at) = <<g.type>> \o Tail(FramesOf(r, u, at))
<1> DEFINE rest == IF at = "cut" THEN << >> ELSE Kinds(u)
           t == Tail(r)
           one == <<g>>
<1>1. t \in Seq(Arrivals) /\ one \in Seq(Arrivals) /\ g.type \in FrameNames
  BY HeadTailProperties, ArrivalKinds
<1>2. FramesOf(t, u, at) = Kinds(t) \o rest
  BY DEF FramesOf
<1>3. Kinds(t) \in Seq(FrameNames) /\ rest \in Seq(FrameNames)
  BY <1>1, FramesType, EmptySeq
<1>4. Kinds(one) = <<g.type>>
  BY DEF Kinds
<1> HIDE DEF rest, t, one
<1>5. Kinds(one \o t) = <<g.type>> \o Kinds(t)
  BY <1>1, <1>4, KindsConcat, ArrivalKinds
<1>6. <<g.type>> \in Seq(FrameNames)
  BY <1>1
<1>7. (<<g.type>> \o Kinds(t)) \o rest = <<g.type>> \o (Kinds(t) \o rest)
  BY <1>3, <1>6, KindsAssoc, Zenon
<1>8. FramesOf(one \o t, u, at) = Kinds(one \o t) \o rest
  BY DEF FramesOf, rest
<1>9. FramesOf(t, u, at) = Tail(FramesOf(r, u, at))
  BY FramesRead DEF t
<1>10. QED
  BY <1>2, <1>5, <1>7, <1>8, <1>9 DEF one, t

\* The session has one more to transmit, or more.
LEMMA FramesSent ==
  ASSUME NEW r \in Seq(Arrivals), NEW u \in Seq(Replies), NEW m \in Seq(Replies),
         NEW at, at # "cut"
  PROVE  FramesOf(r, u \o m, at) = FramesOf(r, u, at) \o Kinds(m)
<1>1. Kinds(u \o m) = Kinds(u) \o Kinds(m)
  BY KindsConcat, ReplyKinds
<1>2. Kinds(r) \in Seq(FrameNames) /\ Kinds(u) \in Seq(FrameNames) /\ Kinds(m) \in Seq(FrameNames)
  BY FramesType, KindsType, ReplyKinds
<1>3. (Kinds(r) \o Kinds(u)) \o Kinds(m) = Kinds(r) \o (Kinds(u) \o Kinds(m))
  BY <1>2, KindsAssoc, Zenon
<1>4. QED
  BY <1>1, <1>3 DEF FramesOf

\* The kernel takes one, which is the next to arrive.
LEMMA FramesTransmitted ==
  ASSUME NEW r \in Seq(Arrivals), NEW u \in Seq(Replies), u # << >>,
         NEW x \in Arrivals, x.type = Head(u).type, NEW at, at # "cut"
  PROVE  FramesOf(Append(r, x), Tail(u), at) = FramesOf(r, u, at)
<1> DEFINE one == <<x>>
           k == Kinds(u)
           kr == Kinds(r)
           h == <<x.type>>
<1>1. Kinds(Tail(u)) = Tail(k) /\ k # << >> /\ Head(k) = x.type
  BY KindsTail, ReplyKinds
<1>2. one \in Seq(Arrivals) /\ Append(r, x) = r \o one /\ Kinds(one) = h
  BY AppendIsConcat DEF Kinds
<1>3. Kinds(r \o one) = kr \o h
  <2>1. one \in Seq(Arrivals) /\ Kinds(one) = h
    BY <1>2
  <2> HIDE DEF one, h
  <2>2. QED
    BY <2>1, KindsConcat, ArrivalKinds
<1>4. kr \in Seq(FrameNames) /\ k \in Seq(FrameNames) /\ h \in Seq(FrameNames) /\ Tail(k) \in Seq(FrameNames)
  <2>1. kr \in Seq(FrameNames) /\ k \in Seq(FrameNames)
    BY FramesType
  <2>2. x.type \in FrameNames
    BY ArrivalKinds
  <2> HIDE DEF k, kr
  <2>3. Tail(k) \in Seq(FrameNames)
    BY <1>1, <2>1, HeadTailProperties
  <2>4. QED
    BY <2>1, <2>2, <2>3
<1> HIDE DEF k, kr, h
<1>5. h \o Tail(k) = k
  <2>1. Len(k) \in Nat \ {0}
    BY <1>1, <1>4, EmptySeq
  <2>2. 1 \in 1 .. Len(k) /\ Len(k) \in 1 .. Len(k)
    BY <2>1
  <2>3. SubSeq(k, 1, Len(k)) = <<k[1]>> \o SubSeq(k, 1 + 1, Len(k))
    BY <1>4, <2>2, SubSeqRecursiveFirst
  <2>4. SubSeq(k, 1, Len(k)) = k /\ Tail(k) = SubSeq(k, 2, Len(k))
    BY <1>1, <1>4, SubSeqFull, TailIsSubSeq
  <2>5. h = <<k[1]>>
    BY <1>1, <1>4, <2>1 DEF h
  <2>6. QED
    BY <2>3, <2>4, <2>5
<1>6. (kr \o h) \o Tail(k) = kr \o (h \o Tail(k))
  <2> DEFINE w == Tail(k)
  <2>1. kr \in Seq(FrameNames) /\ h \in Seq(FrameNames) /\ w \in Seq(FrameNames)
    BY <1>4
  <2> HIDE DEF w
  <2>2. (kr \o h) \o w = kr \o (h \o w)
    BY <2>1, KindsAssoc
  <2>3. QED
    BY <2>2 DEF w
<1>7. QED
  BY <1>1, <1>2, <1>3, <1>5, <1>6 DEF FramesOf, k, kr

-----------------------------------------------------------------------------
(* What is among the frames.                                               *)

LEMMA HasConcat ==
  ASSUME NEW s \in Seq(FrameNames), NEW t \in Seq(FrameNames), NEW kind
  PROVE  Has(s \o t, kind) <=> Has(s, kind) \/ Has(t, kind)
<1> DEFINE u == s \o t
<1>1. /\ Len(u) = Len(s) + Len(t)
      /\ \A i \in 1 .. Len(s) + Len(t) : u[i] = IF i <= Len(s) THEN s[i] ELSE t[i - Len(s)]
  BY ConcatProperties
<1>2. Len(s) \in Nat /\ Len(t) \in Nat
  BY LenProperties
<1> HIDE DEF u
<1>3. ASSUME Has(u, kind)  PROVE Has(s, kind) \/ Has(t, kind)
  <2>1. PICK i \in 1 .. Len(s) + Len(t) : u[i] = kind
    BY <1>1, <1>3 DEF Has
  <2>2. CASE i <= Len(s)
    BY <1>1, <1>2, <2>1, <2>2 DEF Has
  <2>3. CASE ~(i <= Len(s))
    <3>1. i - Len(s) \in 1 .. Len(t) /\ t[i - Len(s)] = kind
      BY <1>1, <1>2, <2>1, <2>3
    <3>2. QED
      BY <3>1 DEF Has
  <2>4. QED
    BY <2>2, <2>3
<1>4. ASSUME Has(s, kind)  PROVE Has(u, kind)
  <2>1. PICK i \in 1 .. Len(s) : s[i] = kind
    BY <1>4 DEF Has
  <2>2. i \in 1 .. Len(u) /\ u[i] = kind
    BY <1>1, <1>2, <2>1
  <2>3. QED
    BY <2>2 DEF Has
<1>5. ASSUME Has(t, kind)  PROVE Has(u, kind)
  <2>1. PICK i \in 1 .. Len(t) : t[i] = kind
    BY <1>5 DEF Has
  <2>2. /\ Len(s) + i \in 1 .. Len(s) + Len(t) /\ ~(Len(s) + i <= Len(s))
        /\ (Len(s) + i) - Len(s) = i
    BY <1>2, <2>1
  <2>3. u[Len(s) + i] = kind
    BY <1>1, <2>1, <2>2
  <2>4. QED
    BY <1>1, <2>2, <2>3 DEF Has
<1>6. QED
  BY <1>3, <1>4, <1>5 DEF u

LEMMA HasTail ==
  ASSUME NEW s \in Seq(FrameNames), s # << >>, NEW kind
  PROVE  Has(s, kind) <=> Head(s) = kind \/ Has(Tail(s), kind)
<1> DEFINE t == Tail(s)
<1>1. Len(s) \in Nat \ {0} /\ Head(s) = s[1]
  BY EmptySeq
<1>2. Len(t) = Len(s) - 1 /\ \A i \in 1 .. Len(t) : t[i] = s[i + 1]
  BY HeadTailProperties
<1> HIDE DEF t
<1>3. ASSUME Has(s, kind)  PROVE Head(s) = kind \/ Has(t, kind)
  <2>1. PICK i \in 1 .. Len(s) : s[i] = kind
    BY <1>3 DEF Has
  <2>2. CASE i = 1
    BY <1>1, <2>1, <2>2
  <2>3. CASE i # 1
    <3>1. i - 1 \in 1 .. Len(t) /\ (i - 1) + 1 = i
      BY <1>1, <1>2, <2>1, <2>3
    <3>2. t[i - 1] = kind
      BY <1>2, <2>1, <3>1
    <3>3. QED
      BY <3>1, <3>2 DEF Has
  <2>4. QED
    BY <2>2, <2>3
<1>4. ASSUME Head(s) = kind  PROVE Has(s, kind)
  BY <1>1, <1>4 DEF Has
<1>5. ASSUME Has(t, kind)  PROVE Has(s, kind)
  <2>1. PICK i \in 1 .. Len(t) : t[i] = kind
    BY <1>5 DEF Has
  <2>2. i + 1 \in 1 .. Len(s) /\ s[i + 1] = kind
    BY <1>1, <1>2, <2>1
  <2>3. QED
    BY <2>2 DEF Has
<1>6. QED
  BY <1>3, <1>4, <1>5 DEF t

LEMMA AckLastTail ==
  ASSUME NEW s \in Seq(FrameNames), s # << >>, AckLast(s)
  PROVE  /\ AckLast(Tail(s))
         /\ Head(s) = "UPLOAD_BEGIN_ACK" =>
              ~Has(Tail(s), "UPLOAD_BEGIN_ACK") /\ ~Has(Tail(s), "RESULT_CHUNK")
<1> DEFINE t == Tail(s)
<1>1. Len(s) \in Nat \ {0} /\ Head(s) = s[1]
  BY EmptySeq
<1>2. Len(t) = Len(s) - 1 /\ \A i \in 1 .. Len(t) : t[i] = s[i + 1]
  BY HeadTailProperties
<1> HIDE DEF t
<1>3. AckLast(t)
  <2> SUFFICES ASSUME NEW i \in 1 .. Len(t), NEW j \in 1 .. Len(t),
                      t[i] = "UPLOAD_BEGIN_ACK", i < j
               PROVE  t[j] # "UPLOAD_BEGIN_ACK" /\ t[j] # "RESULT_CHUNK"
    BY DEF AckLast
  <2>1. /\ i + 1 \in 1 .. Len(s) /\ j + 1 \in 1 .. Len(s) /\ i + 1 < j + 1
        /\ t[i] = s[i + 1] /\ t[j] = s[j + 1]
    BY <1>1, <1>2
  <2>2. QED
    BY <2>1 DEF AckLast
<1>4. ASSUME Head(s) = "UPLOAD_BEGIN_ACK", NEW j \in 1 .. Len(t)
      PROVE  t[j] # "UPLOAD_BEGIN_ACK" /\ t[j] # "RESULT_CHUNK"
  <2>1. 1 \in 1 .. Len(s) /\ j + 1 \in 1 .. Len(s) /\ 1 < j + 1 /\ t[j] = s[j + 1]
    BY <1>1, <1>2
  <2>2. QED
    BY <1>1, <1>4, <2>1 DEF AckLast
<1>5. QED
  BY <1>3, <1>4 DEF t, Has

\* What is put behind has no acknowledgement and no result, or it has nothing
\* but one acknowledgement, which is the first, or there is none before it.
LEMMA AckLastConcat ==
  ASSUME NEW s \in Seq(FrameNames), NEW t \in Seq(FrameNames), AckLast(s), AckLast(t),
         \/ ~Has(s, "UPLOAD_BEGIN_ACK")
         \/ ~Has(t, "UPLOAD_BEGIN_ACK") /\ ~Has(t, "RESULT_CHUNK")
  PROVE  AckLast(s \o t)
<1> DEFINE u == s \o t
<1>1. /\ Len(u) = Len(s) + Len(t)
      /\ \A i \in 1 .. Len(s) + Len(t) : u[i] = IF i <= Len(s) THEN s[i] ELSE t[i - Len(s)]
  BY ConcatProperties
<1>2. Len(s) \in Nat /\ Len(t) \in Nat
  BY LenProperties
<1> HIDE DEF u
<1> SUFFICES ASSUME NEW i \in 1 .. Len(u), NEW j \in 1 .. Len(u),
                    u[i] = "UPLOAD_BEGIN_ACK", i < j
             PROVE  u[j] # "UPLOAD_BEGIN_ACK" /\ u[j] # "RESULT_CHUNK"
  BY DEF AckLast, u
<1>3. CASE j <= Len(s)
  <2>1. i \in 1 .. Len(s) /\ j \in 1 .. Len(s) /\ u[i] = s[i] /\ u[j] = s[j]
    BY <1>1, <1>2, <1>3
  <2>2. QED
    BY <2>1 DEF AckLast
<1>4. CASE ~(i <= Len(s))
  <2>1. /\ i - Len(s) \in 1 .. Len(t) /\ j - Len(s) \in 1 .. Len(t)
        /\ i - Len(s) < j - Len(s)
        /\ u[i] = t[i - Len(s)] /\ u[j] = t[j - Len(s)]
    BY <1>1, <1>2, <1>4
  <2>2. QED
    BY <2>1 DEF AckLast
<1>5. CASE i <= Len(s) /\ ~(j <= Len(s))
  <2>1. /\ i \in 1 .. Len(s) /\ j - Len(s) \in 1 .. Len(t)
        /\ u[i] = s[i] /\ u[j] = t[j - Len(s)]
    BY <1>1, <1>2, <1>5
  <2>2. Has(s, "UPLOAD_BEGIN_ACK")
    BY <2>1 DEF Has
  <2>3. QED
    BY <2>1, <2>2 DEF Has
<1>6. QED
  BY <1>3, <1>4, <1>5


-----------------------------------------------------------------------------
(* The tokens the client has sent.                                         *)

LEMMA TokensType ==
  ASSUME NEW s \in Seq(Toks), NEW i \in 1 .. Len(s)
  PROVE  s[i] \in Toks /\ s[i].arg \in Int
<1>1. s[i] \in Toks
  BY ElementOfSeq
<1>2. QED
  BY <1>1 DEF Toks

LEMMA FramedEmpty == Framed(<< >>, 0)
  BY EmptySeq DEF Framed

\* The header of a frame is read.
LEMMA FramedHeader ==
  ASSUME NEW s \in Seq(Toks), s # << >>, Framed(s, 0)
  PROVE  /\ s[1].type # "DATA"
         /\ s[1].type = "UPLOAD_CHUNK" => s[1].arg >= 0 /\ Framed(DropFirst(1, s), s[1].arg)
         /\ s[1].type # "UPLOAD_CHUNK" => Framed(DropFirst(1, s), 0)
<1> DEFINE d == DropFirst(1, s)
<1>1. Len(s) \in Nat \ {0} /\ 1 \in 0 .. Len(s)
  BY EmptySeq
<1>2. /\ d \in Seq(Toks) /\ Len(d) = Len(s) - 1
      /\ \A i \in 1 .. Len(s) - 1 : d[i] = s[1 + i]
  BY <1>1, DropType
<1> HIDE DEF d
<1>3. \A i \in 1 .. Len(s) : s[i] \in Toks /\ s[i].arg \in Int
  BY TokensType
<1>4. s[1].type # "DATA"
  BY <1>1 DEF Framed
<1>5. ASSUME NEW i \in 1 .. Len(d), d[i].type = "UPLOAD_CHUNK"
      PROVE  /\ d[i].arg >= 0 /\ i + d[i].arg <= Len(d)
             /\ \A j \in i + 1 .. i + d[i].arg : d[j].type = "DATA"
  <2>1. 1 + i \in 1 .. Len(s) /\ d[i] = s[1 + i]
    BY <1>1, <1>2
  <2>2. /\ s[1 + i].arg >= 0 /\ (1 + i) + s[1 + i].arg <= Len(s)
        /\ \A j \in (1 + i) + 1 .. (1 + i) + s[1 + i].arg : s[j].type = "DATA"
    BY <1>5, <2>1 DEF Framed
  <2>3. s[1 + i].arg \in Int
    BY <1>3, <2>1
  <2>4. i + d[i].arg <= Len(d)
    BY <1>1, <1>2, <2>1, <2>2, <2>3
  <2>5. ASSUME NEW j \in i + 1 .. i + d[i].arg  PROVE d[j].type = "DATA"
    <3>1. 1 + j \in (1 + i) + 1 .. (1 + i) + s[1 + i].arg /\ j \in 1 .. Len(s) - 1
      BY <1>1, <1>2, <2>1, <2>3, <2>4
    <3>2. QED
      BY <1>2, <2>2, <3>1
  <2>6. QED
    BY <2>1, <2>2, <2>4, <2>5
<1>6. ASSUME NEW j \in 1 .. Len(d), d[j].type = "DATA",
             ~(s[1].type = "UPLOAD_CHUNK" /\ 1 + j <= 1 + s[1].arg)
      PROVE  \E i \in 1 .. j - 1 : d[i].type = "UPLOAD_CHUNK" /\ j <= i + d[i].arg
  <2>1. 1 + j \in 0 + 1 .. Len(s) /\ d[j] = s[1 + j]
    BY <1>1, <1>2
  <2>2. PICK i \in 1 .. (1 + j) - 1 : s[i].type = "UPLOAD_CHUNK" /\ 1 + j <= i + s[i].arg
    BY <1>6, <2>1 DEF Framed
  <2>3. i # 1
    BY <1>6, <2>2
  <2>4. i - 1 \in 1 .. j - 1 /\ i - 1 \in 1 .. Len(s) - 1 /\ 1 + (i - 1) = i /\ i \in 1 .. Len(s)
    BY <1>1, <1>2, <2>2, <2>3
  <2>5. d[i - 1] = s[i] /\ s[i].arg \in Int
    BY <1>2, <1>3, <2>4
  <2>6. j <= (i - 1) + d[i - 1].arg
    BY <2>2, <2>4, <2>5
  <2>7. QED
    BY <2>2, <2>4, <2>5, <2>6
<1>7. ASSUME s[1].type # "UPLOAD_CHUNK"  PROVE Framed(d, 0)
  <2>1. 0 <= Len(d)
    BY <1>1, <1>2
  <2>2. \A j \in 0 + 1 .. Len(d) : d[j].type = "DATA" =>
          \E i \in 1 .. j - 1 : d[i].type = "UPLOAD_CHUNK" /\ j <= i + d[i].arg
    BY <1>6, <1>7
  <2>3. QED
    BY <1>5, <2>1, <2>2 DEF Framed
<1>8. ASSUME s[1].type = "UPLOAD_CHUNK"  PROVE s[1].arg >= 0 /\ Framed(d, s[1].arg)
  <2> DEFINE a == s[1].arg
  <2>1. /\ a >= 0 /\ 1 + a <= Len(s) /\ a \in Int
        /\ \A j \in 1 + 1 .. 1 + a : s[j].type = "DATA"
    BY <1>1, <1>3, <1>8 DEF Framed
  <2>2. ASSUME NEW j \in 1 .. a  PROVE d[j].type = "DATA"
    <3>1. 1 + j \in 1 + 1 .. 1 + a /\ j \in 1 .. Len(s) - 1
      BY <1>1, <2>1
    <3>2. QED
      BY <1>2, <2>1, <3>1
  <2>3. \A j \in a + 1 .. Len(d) : d[j].type = "DATA" =>
          \E i \in 1 .. j - 1 : d[i].type = "UPLOAD_CHUNK" /\ j <= i + d[i].arg
    <3> SUFFICES ASSUME NEW j \in a + 1 .. Len(d), d[j].type = "DATA"
                 PROVE  \E i \in 1 .. j - 1 : d[i].type = "UPLOAD_CHUNK" /\ j <= i + d[i].arg
      OBVIOUS
    <3>1. j \in 1 .. Len(d) /\ ~(1 + j <= 1 + a)
      BY <1>1, <1>2, <2>1
    <3>2. QED
      BY <1>6, <3>1
  <2>4. a <= Len(d)
    BY <1>1, <1>2, <2>1
  <2>5. QED
    BY <1>5, <2>1, <2>2, <2>3, <2>4 DEF Framed
<1>9. QED
  BY <1>4, <1>7, <1>8 DEF d

\* A part of the data of a chunk is read.
LEMMA FramedDrop ==
  ASSUME NEW s \in Seq(Toks), NEW n \in Nat, Framed(s, n), NEW k \in 0 .. n
  PROVE  /\ \A i \in 1 .. k : s[i].type = "DATA"
         /\ k <= Len(s) /\ Framed(DropFirst(k, s), n - k)
<1> DEFINE d == DropFirst(k, s)
<1>1. Len(s) \in Nat /\ n <= Len(s) /\ k \in Nat /\ k <= n /\ k \in 0 .. Len(s)
  BY LenProperties DEF Framed
<1>2. /\ d \in Seq(Toks) /\ Len(d) = Len(s) - k
      /\ \A i \in 1 .. Len(s) - k : d[i] = s[k + i]
  BY <1>1, DropType
<1> HIDE DEF d
<1>3. \A i \in 1 .. Len(s) : s[i].arg \in Int
  BY TokensType
<1>4. \A i \in 1 .. n : s[i].type = "DATA"
  BY DEF Framed
<1>5. ASSUME NEW i \in 1 .. Len(d), d[i].type = "UPLOAD_CHUNK"
      PROVE  /\ d[i].arg >= 0 /\ i + d[i].arg <= Len(d)
             /\ \A j \in i + 1 .. i + d[i].arg : d[j].type = "DATA"
  <2>1. k + i \in 1 .. Len(s) /\ d[i] = s[k + i]
    BY <1>1, <1>2
  <2>2. /\ s[k + i].arg >= 0 /\ (k + i) + s[k + i].arg <= Len(s)
        /\ \A j \in (k + i) + 1 .. (k + i) + s[k + i].arg : s[j].type = "DATA"
    BY <1>5, <2>1 DEF Framed
  <2>3. s[k + i].arg \in Int
    BY <1>3, <2>1
  <2>4. i + d[i].arg <= Len(d)
    BY <1>1, <1>2, <2>1, <2>2, <2>3
  <2>5. ASSUME NEW j \in i + 1 .. i + d[i].arg  PROVE d[j].type = "DATA"
    <3> DEFINE a == s[k + i].arg
    <3>1. /\ a \in Int /\ i + a <= Len(s) - k /\ j \in i + 1 .. i + a
          /\ i \in Nat /\ k \in Nat /\ Len(s) \in Nat
      BY <1>1, <1>2, <2>1, <2>3, <2>4
    <3>2. \A x \in (k + i) + 1 .. (k + i) + a : s[x].type = "DATA"
      BY <2>2
    <3> HIDE DEF a
    <3>3. k + j \in (k + i) + 1 .. (k + i) + a /\ j \in 1 .. Len(s) - k
      BY <3>1
    <3>4. QED
      BY <1>2, <3>2, <3>3
  <2>6. QED
    BY <2>1, <2>2, <2>4, <2>5
<1>6. ASSUME NEW j \in (n - k) + 1 .. Len(d), d[j].type = "DATA"
      PROVE  \E i \in 1 .. j - 1 : d[i].type = "UPLOAD_CHUNK" /\ j <= i + d[i].arg
  <2>1. k + j \in n + 1 .. Len(s) /\ j \in 1 .. Len(s) - k /\ d[j] = s[k + j]
    BY <1>1, <1>2
  <2>2. PICK i \in 1 .. (k + j) - 1 : s[i].type = "UPLOAD_CHUNK" /\ k + j <= i + s[i].arg
    BY <1>6, <2>1 DEF Framed
  <2>3. i > n
    BY <1>1, <1>4, <2>2
  <2>4. i - k \in 1 .. j - 1 /\ i - k \in 1 .. Len(s) - k /\ k + (i - k) = i /\ i \in 1 .. Len(s)
    <3>1. i \in Int /\ j \in Int /\ i <= (k + j) - 1 /\ j <= Len(s) - k /\ i > k
      BY <1>1, <1>2, <2>1, <2>3
    <3>2. QED
      BY <1>1, <3>1
  <2>5. d[i - k] = s[i] /\ s[i].arg \in Int
    BY <1>2, <1>3, <2>4
  <2>6. j <= (i - k) + d[i - k].arg
    BY <1>1, <2>1, <2>2, <2>4, <2>5
  <2>7. QED
    BY <2>2, <2>4, <2>5, <2>6
<1>7. ASSUME NEW j \in 1 .. n - k  PROVE d[j].type = "DATA"
  <2>1. k + j \in 1 .. n /\ j \in 1 .. Len(s) - k
    BY <1>1
  <2>2. QED
    BY <1>2, <1>4, <2>1
<1>8. n - k <= Len(d)
  BY <1>1, <1>2
<1>9. Framed(d, n - k)
  BY <1>5, <1>6, <1>7, <1>8 DEF Framed
<1>10. \A i \in 1 .. k : s[i].type = "DATA"
  BY <1>1, <1>4
<1>11. QED
  BY <1>1, <1>9, <1>10 DEF d

\* Tokens are put behind whose own headers and data fit.
LEMMA FramedConcat ==
  ASSUME NEW s \in Seq(Toks), NEW t \in Seq(Toks), NEW n \in Nat,
         Framed(s, n), Framed(t, 0)
  PROVE  Framed(s \o t, n)
<1> DEFINE u == s \o t
<1>1. /\ u \in Seq(Toks) /\ Len(u) = Len(s) + Len(t)
      /\ \A i \in 1 .. Len(s) + Len(t) : u[i] = IF i <= Len(s) THEN s[i] ELSE t[i - Len(s)]
  BY ConcatProperties
<1>2. Len(s) \in Nat /\ Len(t) \in Nat /\ n <= Len(s)
  BY LenProperties DEF Framed
<1> HIDE DEF u
<1>3. /\ \A i \in 1 .. Len(s) : s[i].arg \in Int
      /\ \A i \in 1 .. Len(t) : t[i].arg \in Int
  BY TokensType
<1>4. \A i \in 1 .. Len(s) : i \in 1 .. Len(u) /\ u[i] = s[i]
  BY <1>1, <1>2
<1>5. ASSUME NEW i \in 1 .. Len(t)
      PROVE  Len(s) + i \in 1 .. Len(u) /\ u[Len(s) + i] = t[i]
  <2>1. /\ Len(s) + i \in 1 .. Len(s) + Len(t) /\ ~(Len(s) + i <= Len(s))
        /\ (Len(s) + i) - Len(s) = i
    BY <1>2
  <2>2. QED
    BY <1>1, <2>1
<1>6. ASSUME NEW i \in 1 .. Len(u), u[i].type = "UPLOAD_CHUNK"
      PROVE  /\ u[i].arg >= 0 /\ i + u[i].arg <= Len(u)
             /\ \A j \in i + 1 .. i + u[i].arg : u[j].type = "DATA"
  <2>1. CASE i <= Len(s)
    <3>1. i \in 1 .. Len(s) /\ u[i] = s[i] /\ s[i].arg \in Int
      BY <1>1, <1>3, <1>4, <2>1
    <3>2. /\ s[i].arg >= 0 /\ i + s[i].arg <= Len(s)
          /\ \A j \in i + 1 .. i + s[i].arg : s[j].type = "DATA"
      BY <1>6, <3>1 DEF Framed
    <3>3. ASSUME NEW j \in i + 1 .. i + u[i].arg  PROVE u[j].type = "DATA"
      <4>1. j \in i + 1 .. i + s[i].arg /\ j \in 1 .. Len(s)
        BY <1>2, <3>1, <3>2
      <4>2. QED
        BY <1>4, <3>2, <4>1
    <3>4. i + u[i].arg <= Len(u)
      BY <1>1, <1>2, <3>1, <3>2
    <3>5. QED
      BY <3>1, <3>2, <3>3, <3>4
  <2>2. CASE ~(i <= Len(s))
    <3> DEFINE h == i - Len(s)
    <3>1. h \in 1 .. Len(t) /\ i = Len(s) + h
      BY <1>1, <1>2, <2>2
    <3> HIDE DEF h
    <3>2. u[i] = t[h] /\ t[h].arg \in Int
      BY <1>3, <1>5, <3>1
    <3>3. /\ t[h].arg >= 0 /\ h + t[h].arg <= Len(t)
          /\ \A j \in h + 1 .. h + t[h].arg : t[j].type = "DATA"
      BY <1>6, <3>1, <3>2 DEF Framed
    <3>4. ASSUME NEW j \in i + 1 .. i + u[i].arg  PROVE u[j].type = "DATA"
      <4> DEFINE a == t[h].arg
      <4>1. /\ j \in (Len(s) + h) + 1 .. (Len(s) + h) + a
            /\ a \in Int /\ h \in Nat /\ h + a <= Len(t)
        BY <3>1, <3>2, <3>3
      <4>2. \A x \in h + 1 .. h + a : t[x].type = "DATA"
        BY <3>3
      <4> HIDE DEF a
      <4>3. /\ j - Len(s) \in h + 1 .. h + a /\ j - Len(s) \in 1 .. Len(t)
            /\ Len(s) + (j - Len(s)) = j
        BY <1>2, <4>1
      <4>4. u[j] = t[j - Len(s)]
        BY <1>5, <4>3
      <4>5. QED
        BY <4>2, <4>3, <4>4
    <3>5. i + u[i].arg <= Len(u)
      BY <1>1, <1>2, <3>1, <3>2, <3>3
    <3>6. QED
      BY <3>2, <3>3, <3>4, <3>5
  <2>3. QED
    BY <2>1, <2>2
<1>7. ASSUME NEW j \in n + 1 .. Len(u), u[j].type = "DATA"
      PROVE  \E i \in 1 .. j - 1 : u[i].type = "UPLOAD_CHUNK" /\ j <= i + u[i].arg
  <2>1. CASE j <= Len(s)
    <3>1. j \in n + 1 .. Len(s) /\ j \in 1 .. Len(s) /\ u[j] = s[j]
      BY <1>2, <1>4, <2>1
    <3>2. PICK i \in 1 .. j - 1 : s[i].type = "UPLOAD_CHUNK" /\ j <= i + s[i].arg
      BY <1>7, <3>1 DEF Framed
    <3>3. i \in 1 .. Len(s)
      BY <1>2, <3>1
    <3>4. QED
      BY <1>4, <3>2, <3>3
  <2>2. CASE ~(j <= Len(s))
    <3> DEFINE h == j - Len(s)
    <3>1. h \in 0 + 1 .. Len(t) /\ j = Len(s) + h /\ h \in 1 .. Len(t)
      BY <1>1, <1>2, <2>2
    <3> HIDE DEF h
    <3>2. u[j] = t[h]
      BY <1>5, <3>1
    <3>3. PICK i \in 1 .. h - 1 : t[i].type = "UPLOAD_CHUNK" /\ h <= i + t[i].arg
      BY <1>7, <3>1, <3>2 DEF Framed
    <3>4. i \in 1 .. Len(t) /\ t[i].arg \in Int /\ Len(s) + i \in 1 .. j - 1
      BY <1>2, <1>3, <3>1
    <3>5. u[Len(s) + i] = t[i]
      BY <1>5, <3>4
    <3>6. j <= (Len(s) + i) + u[Len(s) + i].arg
      BY <1>2, <3>1, <3>3, <3>4, <3>5
    <3>7. QED
      BY <3>3, <3>4, <3>5, <3>6
  <2>3. QED
    BY <2>1, <2>2
<1>8. ASSUME NEW j \in 1 .. n  PROVE u[j].type = "DATA"
  BY <1>2, <1>4 DEF Framed
<1>9. n <= Len(u)
  BY <1>1, <1>2
<1>10. Framed(u, n)
  BY <1>6, <1>7, <1>8, <1>9 DEF Framed
<1>11. QED
  BY <1>10 DEF u


LEMMA FramedOne ==
  ASSUME NEW x \in Toks, x.type # "DATA", x.type # "UPLOAD_CHUNK"
  PROVE  Framed(<<x>>, 0)
  BY DEF Framed

\* The buffer of one chunk.
LEMMA ChunkIsFramed ==
  ASSUME NEW n \in Nat, NEW id \in Int
  PROVE  /\ C!ChunkOf(n, id) \in Seq(Toks) /\ C!ChunkOf(n, id) # << >>
         /\ Len(C!ChunkOf(n, id)) = n + 1
         /\ C!ChunkOf(n, id)[1] = Token("UPLOAD_CHUNK", n)
         /\ \A i \in 2 .. n + 1 : C!ChunkOf(n, id)[i] = Token("DATA", id)
         /\ Framed(C!ChunkOf(n, id), 0)
<1> DEFINE h == <<Token("UPLOAD_CHUNK", n)>>
           t == [i \in 1 .. n |-> Token("DATA", id)]
           u == h \o t
<1>1. C!ChunkOf(n, id) = u
  BY DEF C!ChunkOf, C!Token, Token
<1>2. Token("UPLOAD_CHUNK", n) \in Toks /\ Token("DATA", id) \in Toks
  BY DEF Token, Toks
<1>3. h \in Seq(Toks) /\ Len(h) = 1 /\ h[1] = Token("UPLOAD_CHUNK", n)
  BY <1>2
<1>4. t \in Seq(Toks) /\ Len(t) = n /\ \A i \in 1 .. n : t[i] = Token("DATA", id)
  <2>1. t \in Seq(Toks)
    BY <1>2, IsASeq
  <2>2. DOMAIN t = 1 .. n
    OBVIOUS
  <2>3. \A i \in 1 .. n : t[i] = Token("DATA", id)
    OBVIOUS
  <2> HIDE DEF t
  <2>4. DOMAIN t = 1 .. Len(t) /\ Len(t) \in Nat
    BY <2>1, LenProperties
  <2>5. Len(t) = n
    BY <2>2, <2>4
  <2>6. QED
    BY <2>1, <2>3, <2>5
<1> HIDE DEF h, t
<1>5. /\ u \in Seq(Toks) /\ Len(u) = Len(h) + Len(t)
      /\ \A i \in 1 .. Len(h) + Len(t) : u[i] = IF i <= Len(h) THEN h[i] ELSE t[i - Len(h)]
  <2>1. h \in Seq(Toks) /\ t \in Seq(Toks)
    BY <1>3, <1>4
  <2>2. QED
    BY <2>1, ConcatProperties
<1> HIDE DEF u
<1>6. Len(u) = n + 1 /\ u[1] = Token("UPLOAD_CHUNK", n)
  BY <1>3, <1>4, <1>5
<1>7. ASSUME NEW i \in 2 .. n + 1  PROVE u[i] = Token("DATA", id)
  <2>1. i \in 1 .. 1 + n /\ ~(i <= 1) /\ i - 1 \in 1 .. n
    OBVIOUS
  <2>2. QED
    BY <1>3, <1>4, <1>5, <2>1
<1>8. u # << >>
  BY <1>5, <1>6, EmptySeq
<1>9. /\ Token("UPLOAD_CHUNK", n).type = "UPLOAD_CHUNK" /\ Token("UPLOAD_CHUNK", n).arg = n
      /\ Token("DATA", id).type = "DATA"
  BY DEF Token
<1>10. Framed(u, 0)
  <2>1. ASSUME NEW i \in 1 .. Len(u), u[i].type = "UPLOAD_CHUNK"
        PROVE  /\ u[i].arg >= 0 /\ i + u[i].arg <= Len(u)
               /\ \A j \in i + 1 .. i + u[i].arg : u[j].type = "DATA"
    <3>1. i = 1
      <4>1. i \in 2 .. n + 1 \/ i = 1
        BY <1>6
      <4>2. QED
        BY <1>7, <1>9, <2>1, <4>1
    <3>2. u[i].arg = n
      BY <1>6, <1>9, <3>1
    <3>3. \A j \in i + 1 .. i + n : j \in 2 .. n + 1
      BY <3>1
    <3>4. QED
      BY <1>6, <1>7, <1>9, <3>1, <3>2, <3>3
  <2>2. ASSUME NEW j \in 0 + 1 .. Len(u), u[j].type = "DATA"
        PROVE  \E i \in 1 .. j - 1 : u[i].type = "UPLOAD_CHUNK" /\ j <= i + u[i].arg
    <3>1. j # 1
      BY <1>6, <1>9, <2>2
    <3>2. 1 \in 1 .. j - 1 /\ j <= 1 + n
      BY <1>6, <3>1
    <3>3. QED
      BY <1>6, <1>9, <3>2
  <2>3. 0 <= Len(u) /\ \A j \in 1 .. 0 : u[j].type = "DATA"
    BY <1>6
  <2>4. QED
    BY <2>1, <2>2, <2>3 DEF Framed
<1>11. QED
  BY <1>1, <1>5, <1>6, <1>7, <1>8, <1>10

\* A chunk of which nothing is sent is given up.
LEMMA FramedWithout ==
  ASSUME NEW s \in Seq(Toks), NEW t \in Seq(Toks), NEW n \in Nat,
         Framed(s \o t, n), t # << >>, t[1].type = "UPLOAD_CHUNK"
  PROVE  Framed(s, n)
<1> DEFINE u == s \o t
           m == Len(s) + 1
<1>1. /\ u \in Seq(Toks) /\ Len(u) = Len(s) + Len(t)
      /\ \A i \in 1 .. Len(s) + Len(t) : u[i] = IF i <= Len(s) THEN s[i] ELSE t[i - Len(s)]
  BY ConcatProperties
<1>2. Len(s) \in Nat /\ Len(t) \in Nat \ {0} /\ Framed(u, n)
  BY LenProperties, EmptySeq
<1> HIDE DEF u
<1>3. \A i \in 1 .. Len(s) : i \in 1 .. Len(u) /\ u[i] = s[i] /\ s[i].arg \in Int
  <2> SUFFICES ASSUME NEW i \in 1 .. Len(s)
               PROVE  i \in 1 .. Len(u) /\ u[i] = s[i] /\ s[i].arg \in Int
    OBVIOUS
  <2>1. s[i].arg \in Int
    BY TokensType
  <2>2. QED
    BY <1>1, <1>2, <2>1
<1>4. m \in 1 .. Len(u) /\ u[m].type = "UPLOAD_CHUNK"
  <2>1. m \in 1 .. Len(s) + Len(t) /\ ~(m <= Len(s)) /\ m - Len(s) = 1
    BY <1>2
  <2>2. QED
    BY <1>1, <2>1
<1>5. n <= Len(s)
  <2>1. CASE n >= m
    <3>1. m \in 1 .. n
      BY <1>2, <2>1
    <3>2. u[m].type = "DATA"
      BY <1>2, <3>1 DEF Framed
    <3>3. QED
      BY <1>4, <3>2
  <2>2. QED
    BY <1>2, <2>1
<1>6. ASSUME NEW i \in 1 .. Len(s), s[i].type = "UPLOAD_CHUNK"
      PROVE  /\ s[i].arg >= 0 /\ i + s[i].arg <= Len(s)
             /\ \A j \in i + 1 .. i + s[i].arg : s[j].type = "DATA"
  <2>1. /\ s[i].arg >= 0 /\ i + s[i].arg <= Len(u) /\ s[i].arg \in Int
        /\ \A j \in i + 1 .. i + s[i].arg : u[j].type = "DATA"
    BY <1>2, <1>3, <1>6 DEF Framed
  <2>2. i + s[i].arg <= Len(s)
    <3>1. CASE m <= i + s[i].arg
      <4>1. m \in i + 1 .. i + s[i].arg
        BY <1>2, <2>1, <3>1
      <4>2. QED
        BY <1>4, <2>1, <4>1
    <3>2. QED
      BY <1>2, <2>1, <3>1
  <2>3. ASSUME NEW j \in i + 1 .. i + s[i].arg  PROVE s[j].type = "DATA"
    <3>1. j \in 1 .. Len(s)
      BY <1>2, <2>1, <2>2
    <3>2. QED
      BY <1>3, <2>1, <3>1
  <2>4. QED
    BY <2>1, <2>2, <2>3
<1>7. ASSUME NEW j \in n + 1 .. Len(s), s[j].type = "DATA"
      PROVE  \E i \in 1 .. j - 1 : s[i].type = "UPLOAD_CHUNK" /\ j <= i + s[i].arg
  <2>1. j \in 1 .. Len(s) /\ j \in n + 1 .. Len(u)
    BY <1>1, <1>2
  <2>2. PICK i \in 1 .. j - 1 : u[i].type = "UPLOAD_CHUNK" /\ j <= i + u[i].arg
    BY <1>2, <1>3, <1>7, <2>1 DEF Framed
  <2>3. i \in 1 .. Len(s)
    BY <1>2, <2>1
  <2>4. QED
    BY <1>3, <2>2, <2>3
<1>8. ASSUME NEW j \in 1 .. n  PROVE s[j].type = "DATA"
  <2>1. j \in 1 .. Len(s)
    BY <1>2, <1>5
  <2>2. u[j].type = "DATA"
    BY <1>2 DEF Framed
  <2>3. QED
    BY <1>3, <2>1, <2>2
<1>9. QED
  BY <1>5, <1>6, <1>7, <1>8 DEF Framed

\* What is found in the rest was there; what is not data is not read as data.
LEMMA CarriesDrop ==
  ASSUME NEW s \in Seq(Toks), NEW n \in 0 .. Len(s), NEW kind
  PROVE  /\ Carries(DropFirst(n, s), kind) => Carries(s, kind)
         /\ Carries(s, kind) /\ (\A i \in 1 .. n : s[i].type # kind) =>
              Carries(DropFirst(n, s), kind)
<1> DEFINE d == DropFirst(n, s)
<1>1. /\ Len(d) = Len(s) - n /\ Len(s) \in Nat /\ n \in Nat
      /\ \A i \in 1 .. Len(s) - n : d[i] = s[n + i]
  BY DropType, LenProperties
<1> HIDE DEF d
<1>2. ASSUME Carries(d, kind)  PROVE Carries(s, kind)
  <2>1. PICK i \in 1 .. Len(d) : d[i].type = kind
    BY <1>2 DEF Carries
  <2>2. n + i \in 1 .. Len(s) /\ d[i] = s[n + i]
    BY <1>1
  <2>3. QED
    BY <2>1, <2>2 DEF Carries
<1>3. ASSUME Carries(s, kind), \A i \in 1 .. n : s[i].type # kind
      PROVE  Carries(d, kind)
  <2>1. PICK i \in 1 .. Len(s) : s[i].type = kind
    BY <1>3 DEF Carries
  <2>2. i \notin 1 .. n
    BY <1>3, <2>1
  <2>3. i - n \in 1 .. Len(s) - n /\ n + (i - n) = i
    BY <1>1, <2>2
  <2>4. d[i - n].type = kind /\ i - n \in 1 .. Len(d)
    BY <1>1, <2>1, <2>3
  <2>5. QED
    BY <2>4 DEF Carries
<1>4. QED
  BY <1>2, <1>3 DEF d

LEMMA CarriesAppend ==
  ASSUME NEW s \in Seq(Toks), NEW x \in Toks, NEW kind
  PROVE  Carries(Append(s, x), kind) <=> Carries(s, kind) \/ x.type = kind
<1> DEFINE u == Append(s, x)
<1>1. /\ Len(u) = Len(s) + 1 /\ Len(s) \in Nat
      /\ \A i \in 1 .. Len(s) : u[i] = s[i]
      /\ u[Len(s) + 1] = x
  BY AppendProperties, LenProperties
<1> HIDE DEF u
<1>2. \A i \in 1 .. Len(u) : i \in 1 .. Len(s) \/ i = Len(s) + 1
  BY <1>1
<1>3. Carries(u, kind) => Carries(s, kind) \/ x.type = kind
  BY <1>1, <1>2 DEF Carries
<1>4. \A i \in 1 .. Len(s) : i \in 1 .. Len(u)
  BY <1>1
<1>5. Len(s) + 1 \in 1 .. Len(u)
  BY <1>1
<1>6. Carries(s, kind) => Carries(u, kind)
  BY <1>1, <1>4 DEF Carries
<1>7. x.type = kind => Carries(u, kind)
  BY <1>1, <1>5 DEF Carries
<1>8. QED
  BY <1>3, <1>6, <1>7 DEF u

LEMMA CarriesNone == \A kind : ~Carries(<< >>, kind)
  BY DEF Carries

LEMMA BeginLastDrop ==
  ASSUME NEW s \in Seq(Toks), NEW n \in 0 .. Len(s), NEW size, BeginLast(s, size)
  PROVE  BeginLast(DropFirst(n, s), size)
<1> DEFINE d == DropFirst(n, s)
<1>1. /\ Len(d) = Len(s) - n /\ Len(s) \in Nat /\ n \in Nat
      /\ \A i \in 1 .. Len(s) - n : d[i] = s[n + i]
  BY DropType, LenProperties
<1> HIDE DEF d
<1>2. ASSUME NEW i \in 1 .. Len(d), d[i].type = "UPLOAD_BEGIN"
      PROVE  i = Len(d) /\ d[i].arg = size
  <2>1. n + i \in 1 .. Len(s) /\ d[i] = s[n + i]
    BY <1>1
  <2>2. n + i = Len(s) /\ s[n + i].arg = size
    BY <1>2, <2>1 DEF BeginLast
  <2>3. QED
    BY <1>1, <2>1, <2>2
<1>3. QED
  BY <1>2 DEF BeginLast, d

LEMMA BeginLastAppend ==
  ASSUME NEW s \in Seq(Toks), NEW x \in Toks, NEW size,
         ~Carries(s, "UPLOAD_BEGIN"), x.type = "UPLOAD_BEGIN" => x.arg = size
  PROVE  BeginLast(Append(s, x), size)
<1> DEFINE u == Append(s, x)
<1>1. /\ Len(u) = Len(s) + 1 /\ Len(s) \in Nat
      /\ \A i \in 1 .. Len(s) : u[i] = s[i]
      /\ u[Len(s) + 1] = x
  BY AppendProperties, LenProperties
<1> HIDE DEF u
<1>2. \A i \in 1 .. Len(u) : i \in 1 .. Len(s) \/ i = Len(u)
  BY <1>1
<1>3. QED
  BY <1>1, <1>2 DEF BeginLast, Carries, u

\* One that is in front is alone.
LEMMA BeginAlone ==
  ASSUME NEW s \in Seq(Toks), s # << >>, NEW size, BeginLast(s, size),
         s[1].type = "UPLOAD_BEGIN"
  PROVE  DropFirst(1, s) = << >> /\ s[1].arg = size
<1>1. Len(s) \in Nat \ {0}
  BY EmptySeq
<1>2. Len(s) = 1 /\ s[1].arg = size
  <2>1. 1 \in 1 .. Len(s)
    BY <1>1
  <2>2. QED
    BY <2>1 DEF BeginLast
<1>3. 1 \in 0 .. Len(s) /\ ~(1 < Len(s))
  BY <1>1, <1>2
<1>4. DropFirst(1, s) = << >>
  BY <1>3, DropAll
<1>5. QED
  BY <1>2, <1>4

LEMMA NoBegin == ASSUME NEW s, NEW size, ~Carries(s, "UPLOAD_BEGIN") PROVE BeginLast(s, size)
  BY DEF BeginLast, Carries

LEMMA DataIsDrop ==
  ASSUME NEW s \in Seq(Toks), NEW n \in 0 .. Len(s), NEW x, DataIs(s, x)
  PROVE  DataIs(DropFirst(n, s), x)
<1> DEFINE d == DropFirst(n, s)
<1>0. Len(s) \in Nat /\ n \in Nat
  BY LenProperties
<1>1. /\ Len(d) = Len(s) - n
      /\ \A i \in 1 .. Len(s) - n : d[i] = s[n + i]
  BY DropType
<1> HIDE DEF d
<1>2. \A i \in 1 .. Len(d) : n + i \in 1 .. Len(s) /\ d[i] = s[n + i]
  BY <1>0, <1>1
<1>3. QED
  BY <1>2 DEF DataIs, d

LEMMA DataIsConcat ==
  ASSUME NEW s \in Seq(Toks), NEW t \in Seq(Toks), NEW x, DataIs(s, x), DataIs(t, x)
  PROVE  DataIs(s \o t, x)
<1> DEFINE u == s \o t
<1>1. /\ Len(u) = Len(s) + Len(t) /\ Len(s) \in Nat /\ Len(t) \in Nat
      /\ \A i \in 1 .. Len(s) + Len(t) : u[i] = IF i <= Len(s) THEN s[i] ELSE t[i - Len(s)]
  BY ConcatProperties, LenProperties
<1> HIDE DEF u
<1>2. ASSUME NEW i \in 1 .. Len(u), u[i].type = "DATA"  PROVE u[i] = x
  <2>1. CASE i <= Len(s)
    BY <1>1, <1>2, <2>1 DEF DataIs
  <2>2. CASE ~(i <= Len(s))
    <3>1. i - Len(s) \in 1 .. Len(t) /\ u[i] = t[i - Len(s)]
      BY <1>1, <2>2
    <3>2. QED
      BY <1>2, <3>1 DEF DataIs
  <2>3. QED
    BY <2>1, <2>2
<1>3. QED
  BY <1>2 DEF DataIs, u

LEMMA AllAreConcat ==
  ASSUME NEW S, NEW s \in Seq(S), NEW t \in Seq(S), NEW x, AllAre(s, x), AllAre(t, x)
  PROVE  AllAre(s \o t, x)
<1> DEFINE u == s \o t
<1>1. /\ Len(u) = Len(s) + Len(t) /\ Len(s) \in Nat /\ Len(t) \in Nat
      /\ \A i \in 1 .. Len(s) + Len(t) : u[i] = IF i <= Len(s) THEN s[i] ELSE t[i - Len(s)]
  BY ConcatProperties, LenProperties
<1> HIDE DEF u
<1>2. ASSUME NEW i \in 1 .. Len(u)  PROVE u[i] = x
  <2>1. CASE i <= Len(s)
    BY <1>1, <2>1 DEF AllAre
  <2>2. CASE ~(i <= Len(s))
    <3>1. i - Len(s) \in 1 .. Len(t) /\ u[i] = t[i - Len(s)]
      BY <1>1, <2>2
    <3>2. QED
      BY <3>1 DEF AllAre
  <2>3. QED
    BY <2>1, <2>2
<1>3. QED
  BY <1>2 DEF AllAre, u

LEMMA ResultsTail ==
  ASSUME NEW s \in Seq(Arrivals), s # << >>, NEW x, ResultsAre(s, x)
  PROVE  ResultsAre(Tail(s), x) /\ (Head(s).type = "RESULT_CHUNK" => Head(s).body = <<x>>)
<1> DEFINE t == Tail(s)
<1>1. Len(s) \in Nat \ {0} /\ Head(s) = s[1]
  BY EmptySeq
<1>2. Len(t) = Len(s) - 1 /\ \A i \in 1 .. Len(t) : t[i] = s[i + 1]
  BY HeadTailProperties
<1> HIDE DEF t
<1>3. \A i \in 1 .. Len(t) : i + 1 \in 1 .. Len(s)
  BY <1>1, <1>2
<1>4. QED
  BY <1>1, <1>2, <1>3 DEF ResultsAre, t

LEMMA ResultsAppend ==
  ASSUME NEW s \in Seq(Arrivals), NEW a \in Arrivals, NEW x, ResultsAre(s, x),
         a.type = "RESULT_CHUNK" => a.body = <<x>>
  PROVE  ResultsAre(Append(s, a), x)
<1> DEFINE u == Append(s, a)
<1>1. /\ Len(u) = Len(s) + 1 /\ Len(s) \in Nat
      /\ \A i \in 1 .. Len(s) : u[i] = s[i]
      /\ u[Len(s) + 1] = a
  BY AppendProperties, LenProperties
<1> HIDE DEF u
<1>2. \A i \in 1 .. Len(u) : i \in 1 .. Len(s) \/ i = Len(s) + 1
  BY <1>1
<1>3. QED
  BY <1>1, <1>2 DEF ResultsAre, u

\* Without one there is nothing to show.
LEMMA NoResults ==
  ASSUME NEW r \in Seq(Arrivals), NEW x, ~Has(Kinds(r), "RESULT_CHUNK")
  PROVE  ResultsAre(r, x)
<1>1. Len(Kinds(r)) = Len(r) /\ \A i \in 1 .. Len(r) : Kinds(r)[i] = r[i].type
  BY KindsType, ArrivalKinds
<1>2. QED
  BY <1>1 DEF ResultsAre, Has


-----------------------------------------------------------------------------
(* The result to be transmitted.                                           *)

\* Other frames are put behind.
LEMMA OneResultConcat ==
  ASSUME NEW s \in Seq(FrameNames), NEW t \in Seq(FrameNames), NEW c,
         OneResult(c, s), ~Has(t, "RESULT_CHUNK")
  PROVE  OneResult(c, s \o t)
<1> DEFINE u == s \o t
<1>1. /\ Len(u) = Len(s) + Len(t) /\ Len(s) \in Nat /\ Len(t) \in Nat
      /\ \A i \in 1 .. Len(s) + Len(t) : u[i] = IF i <= Len(s) THEN s[i] ELSE t[i - Len(s)]
  BY ConcatProperties, LenProperties
<1>2. Has(u, "RESULT_CHUNK") <=> Has(s, "RESULT_CHUNK")
  BY HasConcat
<1> HIDE DEF u
<1>3. ASSUME NEW i \in 1 .. Len(u), u[i] = "RESULT_CHUNK"
      PROVE  i \in 1 .. Len(s) /\ s[i] = "RESULT_CHUNK"
  <2>1. CASE i <= Len(s)
    BY <1>1, <1>3, <2>1
  <2>2. CASE ~(i <= Len(s))
    <3>1. i - Len(s) \in 1 .. Len(t) /\ u[i] = t[i - Len(s)]
      BY <1>1, <2>2
    <3>2. QED
      BY <1>3, <3>1 DEF Has
  <2>3. QED
    BY <2>1, <2>2
<1>4. \A i, j \in 1 .. Len(u) : u[i] = "RESULT_CHUNK" /\ u[j] = "RESULT_CHUNK" => i = j
  BY <1>3 DEF OneResult
<1>5. QED
  BY <1>2, <1>4 DEF OneResult, u

\* A result is put behind when there is none.
LEMMA OneResultFirst ==
  ASSUME NEW s \in Seq(FrameNames), NEW c, NEW x \in Files,
         OneResult(c, s), ~Has(s, "RESULT_CHUNK")
  PROVE  c = << >> /\ Append(c, x) = <<x>> /\ OneResult(<<x>>, s \o Kinds(Result))
<1> DEFINE t == Kinds(Result)
           u == s \o t
<1>1. c = << >>
  BY DEF OneResult
<1>2. Append(c, x) = <<x>> /\ Len(<<x>>) = 1 /\ <<x>> # << >>
  <2>1. Append(c, x) = <<x>>
    BY <1>1
  <2>2. <<x>> \in Seq(Files) /\ Len(<<x>>) = 1
    OBVIOUS
  <2>3. QED
    BY <2>1, <2>2, EmptySeq
<1>3. t = <<"ANALYZE_DONE", "RESULT_BEGIN", "RESULT_CHUNK", "RESULT_END">>
  BY DEF Kinds, Result, Frame
<1>4. t \in Seq(FrameNames) /\ Len(t) = 4
  BY <1>3 DEF FrameNames
<1>5. \A i \in 1 .. 4 : t[i] = "RESULT_CHUNK" <=> i = 3
  BY <1>3
<1> HIDE DEF t
<1>6. /\ Len(u) = Len(s) + 4 /\ Len(s) \in Nat
      /\ \A i \in 1 .. Len(s) + 4 : u[i] = IF i <= Len(s) THEN s[i] ELSE t[i - Len(s)]
  <2>1. t \in Seq(FrameNames) /\ Len(s) \in Nat /\ Len(t) = 4
    BY <1>4, LenProperties
  <2>2. /\ Len(u) = Len(s) + Len(t)
        /\ \A i \in 1 .. Len(s) + Len(t) : u[i] = IF i <= Len(s) THEN s[i] ELSE t[i - Len(s)]
    BY <2>1, ConcatProperties
  <2> HIDE DEF u
  <2>3. QED
    BY <2>1, <2>2
<1>7. Has(u, "RESULT_CHUNK")
  <2>1. Has(t, "RESULT_CHUNK")
    BY <1>4, <1>5 DEF Has
  <2>2. QED
    BY <1>4, <2>1, HasConcat
<1> HIDE DEF u
<1>8. ASSUME NEW i \in 1 .. Len(u), u[i] = "RESULT_CHUNK"
      PROVE  i = Len(s) + 3
  <2>1. CASE i <= Len(s)
    <3>1. i \in 1 .. Len(s) /\ s[i] = "RESULT_CHUNK"
      BY <1>6, <1>8, <2>1
    <3>2. QED
      BY <3>1 DEF Has
  <2>2. CASE ~(i <= Len(s))
    <3>1. i - Len(s) \in 1 .. 4 /\ u[i] = t[i - Len(s)]
      BY <1>6, <2>2
    <3>2. i - Len(s) = 3
      BY <1>5, <1>8, <3>1
    <3>3. QED
      BY <1>6, <3>2
  <2>3. QED
    BY <2>1, <2>2
<1>9. <<x>> \in Seq(Files)
  OBVIOUS
<1>10. QED
  BY <1>1, <1>2, <1>7, <1>8, <1>9 DEF OneResult, u, t

\* The first is transmitted.
LEMMA OneResultTail ==
  ASSUME NEW s \in Seq(FrameNames), s # << >>, NEW c, OneResult(c, s)
  PROVE  /\ Head(s) = "RESULT_CHUNK" => c # << >> /\ Head(c) = c[1] /\ Head(c) \in Files
                                          /\ OneResult(Tail(c), Tail(s))
         /\ Head(s) # "RESULT_CHUNK" => OneResult(c, Tail(s))
<1> DEFINE t == Tail(s)
<1>1. Len(s) \in Nat \ {0} /\ Head(s) = s[1]
  BY EmptySeq
<1>2. t \in Seq(FrameNames) /\ Len(t) = Len(s) - 1 /\ \A i \in 1 .. Len(t) : t[i] = s[i + 1]
  BY HeadTailProperties
<1>3. Has(s, "RESULT_CHUNK") <=> Head(s) = "RESULT_CHUNK" \/ Has(t, "RESULT_CHUNK")
  BY HasTail
<1> HIDE DEF t
<1>4. \A i \in 1 .. Len(t) : i + 1 \in 1 .. Len(s) /\ i + 1 # 1
  BY <1>1, <1>2
<1>5. \A i, j \in 1 .. Len(t) : t[i] = "RESULT_CHUNK" /\ t[j] = "RESULT_CHUNK" => i = j
  <2> SUFFICES ASSUME NEW i \in 1 .. Len(t), NEW j \in 1 .. Len(t),
                      t[i] = "RESULT_CHUNK", t[j] = "RESULT_CHUNK"
               PROVE  i = j
    OBVIOUS
  <2>1. i + 1 = j + 1
    BY <1>2, <1>4 DEF OneResult
  <2>2. QED
    BY <2>1
<1>6. ASSUME Head(s) # "RESULT_CHUNK"  PROVE OneResult(c, t)
  BY <1>3, <1>5, <1>6 DEF OneResult
<1>7. ASSUME Head(s) = "RESULT_CHUNK"
      PROVE  c # << >> /\ Head(c) = c[1] /\ Head(c) \in Files /\ OneResult(Tail(c), t)
  <2>1. c # << >> /\ Len(c) <= 1 /\ c \in Seq(Files)
    BY <1>3, <1>7 DEF OneResult
  <2>2. Len(c) \in Nat \ {0} /\ Head(c) \in Files /\ Tail(c) \in Seq(Files)
        /\ Len(Tail(c)) = Len(c) - 1
    BY <2>1, EmptySeq, HeadTailProperties
  <2>3. Len(Tail(c)) = 0 /\ Tail(c) = << >>
    BY <2>1, <2>2, EmptySeq
  <2>4. ~Has(t, "RESULT_CHUNK")
    <3> SUFFICES ASSUME NEW i \in 1 .. Len(t), t[i] = "RESULT_CHUNK"  PROVE FALSE
      BY DEF Has
    <3>1. s[i + 1] = "RESULT_CHUNK" /\ s[1] = "RESULT_CHUNK" /\ 1 \in 1 .. Len(s)
      BY <1>1, <1>2, <1>7
    <3>2. i + 1 = 1
      BY <1>4, <3>1 DEF OneResult
    <3>3. QED
      BY <1>4, <3>2
  <2>5. Head(c) = c[1]
    BY <2>2
  <2>6. QED
    <3>1. OneResult(Tail(c), t)
      BY <1>5, <2>2, <2>3, <2>4 DEF OneResult
    <3>2. QED
      BY <2>1, <2>2, <2>5, <3>1
<1>8. QED
  BY <1>6, <1>7 DEF t


-----------------------------------------------------------------------------
(* A step of the client that asks nothing of the session.                  *)

SessionStill ==
  UNCHANGED <<state, readBuf, decoder, writes, flushed, tcp, declared, received, fed,
              inRead, content, results>>

\* What has arrived is left, or the first is taken, or spoiled.
Taken ==
  \/ toClient' = toClient
  \/ /\ toClient # << >>
     /\ toClient' \in {Tail(toClient),
                       <<C!Reply("GARBAGE", 0, << >>)>> \o Tail(toClient)}

\* The worker goes from one place to another, if it goes: not into a chunk or
\* out of it, not into an upload, and not out of waiting for its beginning; the
\* greeting is over when it has been answered, and a cancel when it was sent.
Moved ==
  /\ Taken
  /\ toServer' = toServer
  /\ link' = link \/ (link = "none" /\ link' = "up")
  /\ Live' => Live
  /\ pc' = "chunk" <=> pc = "chunk"
  /\ pc = "chunk" => out' = out
  /\ pc' = "beginAck" <=> pc = "beginAck"
  /\ pc = "beginAck" => toClient' = toClient /\ job' = job
  /\ pc' \notin Early => pc \notin Early \/ (toClient # << >> /\ Head(toClient).type = "HELLO_ACK")
  /\ pc' \in Open => pc \in Open /\ job'.id = job.id /\ job'.size = job.size
  /\ heard' = "yes" => heard = "yes"
  /\ heard' = "yes" /\ Cancelled' => Cancelled

LEMMA GarbageType ==
  /\ C!Reply("GARBAGE", 0, << >>) \in Arrivals
  /\ C!Reply("GARBAGE", 0, << >>).type = "GARBAGE"
<1>1. << >> \in Seq(Files)
  BY EmptySeq
<1>2. QED
  BY <1>1 DEF C!Reply, Arrivals, FrameNames

\* What has arrived stays well formed, and the frames in order.
LEMMA TakenReplies ==
  ASSUME SystemInv, Live, Taken
  PROVE  /\ toClient' \in Seq(Arrivals)
         /\ \A i \in 1 .. Len(toClient') :
              toClient'[i].type \in {"RESULT_BEGIN", "ANALYZE_DONE"} => toClient'[i].arg = 1
         /\ \A x : ResultsAre(toClient, x) => ResultsAre(toClient', x)
<1> DEFINE g == C!Reply("GARBAGE", 0, << >>)
           t == Tail(toClient)
<1>1. /\ toClient \in Seq(Arrivals)
      /\ \A i \in 1 .. Len(toClient) :
           toClient[i].type \in {"RESULT_BEGIN", "ANALYZE_DONE"} => toClient[i].arg = 1
  BY DEF SystemInv, Basics, RepliesTrue
<1>2. CASE toClient' = toClient
  BY <1>1, <1>2
<1>3. CASE toClient # << >> /\ toClient' \in {t, <<g>> \o t}
  <2>1. Len(toClient) \in Nat \ {0} /\ Len(t) = Len(toClient) - 1 /\ t \in Seq(Arrivals)
        /\ \A i \in 1 .. Len(t) : t[i] = toClient[i + 1]
    BY <1>1, <1>3, HeadTailProperties, EmptySeq
  <2>2. \A x : ResultsAre(toClient, x) => ResultsAre(t, x)
    BY <1>1, <1>3, ResultsTail
  <2>3. g \in Arrivals /\ g.type = "GARBAGE"
    BY GarbageType
  <2>4. \A i \in 1 .. Len(t) : i + 1 \in 1 .. Len(toClient)
    BY <2>1
  <2> HIDE DEF g, t
  <2>5. \A i \in 1 .. Len(t) : t[i].type \in {"RESULT_BEGIN", "ANALYZE_DONE"} => t[i].arg = 1
    BY <1>1, <2>1, <2>4
  <2> DEFINE o == <<g>>
             u == o \o t
  <2>6. o \in Seq(Arrivals) /\ Len(o) = 1 /\ o[1] = g
    BY <2>3
  <2> HIDE DEF o
  <2>7. /\ u \in Seq(Arrivals) /\ Len(u) = Len(o) + Len(t)
        /\ \A i \in 1 .. Len(o) + Len(t) : u[i] = IF i <= Len(o) THEN o[i] ELSE t[i - Len(o)]
    <3>1. o \in Seq(Arrivals) /\ t \in Seq(Arrivals)
      BY <2>1, <2>6
    <3>2. QED
      BY <3>1, ConcatProperties
  <2> HIDE DEF u
  <2>8. Len(t) \in Nat
    BY <2>1
  <2>9. \A i \in 1 .. Len(u) : u[i] = g \/ (i - 1 \in 1 .. Len(t) /\ u[i] = t[i - 1])
    BY <2>6, <2>7, <2>8
  <2>10. \A i \in 1 .. Len(u) : u[i].type \in {"RESULT_BEGIN", "ANALYZE_DONE"} => u[i].arg = 1
    BY <2>3, <2>5, <2>9
  <2>11. \A x : ResultsAre(t, x) => ResultsAre(u, x)
    BY <2>3, <2>9 DEF ResultsAre
  <2>12. CASE toClient' = t
    BY <2>1, <2>2, <2>5, <2>12
  <2>13. CASE toClient' = u
    BY <2>2, <2>7, <2>10, <2>11, <2>13
  <2>14. QED
    BY <1>3, <2>12, <2>13 DEF u, o
<1>4. QED
  BY <1>2, <1>3 DEF Taken

\* Nothing is among the frames that was not, nor out of order.
LEMMA TakenFrames ==
  ASSUME SystemInv, Live, Taken, SessionStill, link' = link \/ link = "none", link' # "cut" \/ link = "cut"
  PROVE  /\ AckLast(Frames) => AckLast(Frames')
         /\ \A kind \in {"UPLOAD_BEGIN_ACK", "HELLO_ACK", "RESULT_CHUNK"} :
              Has(Frames', kind) => Has(Frames, kind)
         /\ toClient' = toClient => Frames' = Frames
         /\ Unsent' = Unsent /\ Frames \in Seq(FrameNames)
<1> DEFINE at == link
           f == Frames
           g == C!Reply("GARBAGE", 0, << >>)
           one == <<"GARBAGE">>
<1>1. toClient \in Seq(Arrivals) /\ Unsent \in Seq(Replies) /\ Unsent' = Unsent
  BY DropType DEF SystemInv, Basics, RepliesTrue, SessionTypes, Unsent, SessionStill
<1>2. FramesOf(toClient', Unsent', link') = FramesOf(toClient', Unsent, at)
  BY <1>1 DEF FramesOf
<1>3. Frames' = FramesOf(toClient', Unsent, at) /\ f = FramesOf(toClient, Unsent, at)
  BY <1>2 DEF Frames
<1>4. f \in Seq(FrameNames)
  BY <1>1, <1>3, FramesType
<1>5. CASE toClient' = toClient
  BY <1>1, <1>3, <1>4, <1>5
<1>6. ASSUME toClient # << >>
      PROVE  /\ f # << >> /\ FramesOf(Tail(toClient), Unsent, at) = Tail(f)
             /\ FramesOf(<<g>> \o Tail(toClient), Unsent, at) = one \o Tail(f)
  <2>1. g \in Arrivals /\ <<g.type>> = one
    BY GarbageType
  <2> HIDE DEF g, one, f, at
  <2>2. f # << >> /\ FramesOf(Tail(toClient), Unsent, at) = Tail(f)
    BY <1>1, <1>3, <1>6, FramesRead
  <2>3. FramesOf(<<g>> \o Tail(toClient), Unsent, at) = <<g.type>> \o Tail(FramesOf(toClient, Unsent, at))
    BY <1>1, <1>6, <2>1, FramesSpoiled
  <2>4. QED
    BY <1>3, <2>1, <2>2, <2>3
<1>7. one \in Seq(FrameNames) /\ AckLast(one) /\ \A k \in {"UPLOAD_BEGIN_ACK", "HELLO_ACK", "RESULT_CHUNK"} : ~Has(one, k)
  BY DEF FrameNames, AckLast, Has
<1> HIDE DEF f, one, g, at
<1>8. ASSUME toClient # << >>
      PROVE  /\ Tail(f) \in Seq(FrameNames)
             /\ AckLast(f) => AckLast(Tail(f))
             /\ \A k : Has(Tail(f), k) => Has(f, k)
  BY <1>4, <1>6, <1>8, HeadTailProperties, AckLastTail, HasTail
<1>9. CASE toClient # << >> /\ toClient' = Tail(toClient)
  BY <1>1, <1>3, <1>4, <1>5, <1>6, <1>8, <1>9 DEF f
<1>10. CASE toClient # << >> /\ toClient' = <<g>> \o Tail(toClient)
  <2> DEFINE t == Tail(f)
  <2>1. t \in Seq(FrameNames) /\ (AckLast(f) => AckLast(t)) /\ \A k : Has(t, k) => Has(f, k)
    BY <1>8, <1>10
  <2>2. Frames' = one \o t
    BY <1>3, <1>6, <1>10
  <2> HIDE DEF t
  <2>3. AckLast(f) => AckLast(one \o t)
    BY <1>7, <2>1, AckLastConcat
  <2>4. \A k \in {"UPLOAD_BEGIN_ACK", "HELLO_ACK", "RESULT_CHUNK"} : Has(one \o t, k) => Has(f, k)
    BY <1>7, <2>1, HasConcat
  <2>5. QED
    BY <1>1, <1>4, <1>5, <2>2, <2>3, <2>4 DEF f
<1>11. QED
  BY <1>5, <1>9, <1>10 DEF Taken, g, f

LEMMA StreamStays ==
  ASSUME readBuf' = readBuf, toServer' = toServer, pc' = "chunk" <=> pc = "chunk",
         pc = "chunk" => out' = out
  PROVE  Asked' = Asked /\ Stream' = Stream
  BY DEF Asked, Stream


\* Such a step leaves the two in agreement.
LEMMA MovedAgrees ==
  ASSUME SystemInv, SessionStill, Moved, link' # "cut" \/ link = "cut"
  PROVE  Agreement'
<1> SUFFICES ASSUME Live'  PROVE Agreement'
  BY DEF Agreement, AckFits, BeginFits, GreetingFits, FramingFits, ContentFits,
         ResultFits, ResultTrue, CancelFits, Meets
<1>1. Live /\ Taken
  BY DEF Moved
<1>2. Meets' => Meets
  BY <1>1 DEF Meets, Moved
<1>3. Asked' = Asked /\ Stream' = Stream
  BY StreamStays DEF Moved, SessionStill
<1>4. /\ AckLast(Frames) => AckLast(Frames')
      /\ \A kind \in {"UPLOAD_BEGIN_ACK", "HELLO_ACK", "RESULT_CHUNK"} :
           Has(Frames', kind) => Has(Frames, kind)
      /\ toClient' = toClient => Frames' = Frames
      /\ Unsent' = Unsent /\ Frames \in Seq(FrameNames)
  BY <1>1, TakenFrames DEF Moved
<1>5. /\ Acked' => Acked
      /\ pc = "beginAck" => Acked' = Acked
      /\ Has(Frames', "HELLO_ACK") => Has(Frames, "HELLO_ACK")
  BY <1>4 DEF Acked, Moved
<1>6. pc # "beginAck" => ~Acked /\ ~Acked'
  BY <1>1, <1>5 DEF SystemInv, Agreement, AckFits
<1>7. AckFits'
  BY <1>1, <1>4, <1>6 DEF SystemInv, Agreement, AckFits, Moved
<1>8. BeginFits'
  <2> SUFFICES ASSUME Meets'  PROVE BeginFits'
    BY DEF BeginFits
  <2>1. CASE pc = "beginAck"
    BY <1>2, <1>3, <1>5, <2>1 DEF SystemInv, Agreement, BeginFits, Moved, SessionStill
  <2>2. CASE pc # "beginAck"
    <3>1. ~Carries(Asked, "UPLOAD_BEGIN") /\ decoder.type # "UPLOAD_BEGIN"
      BY <1>2, <2>2 DEF SystemInv, Agreement, BeginFits
    <3>2. BeginLast(Asked, job'.size)
      BY <3>1, NoBegin
    <3>3. decoder' = decoder
      BY DEF SessionStill
    <3>4. QED
      BY <1>3, <1>6, <2>2, <3>1, <3>2, <3>3 DEF BeginFits
  <2>3. QED
    BY <2>1, <2>2
<1>9. GreetingFits'
  <2> SUFFICES ASSUME Meets', pc' \notin Early \/ Has(Frames', "HELLO_ACK")
               PROVE  state' # "AwaitHello"
    BY DEF GreetingFits
  <2>1. pc \notin Early \/ Has(Frames, "HELLO_ACK")
    <3>1. CASE toClient # << >> /\ Head(toClient).type = "HELLO_ACK"
      <4>1. toClient \in Seq(Arrivals) /\ Unsent \in Seq(Replies)
        BY <1>1, DropType DEF SystemInv, Basics, RepliesTrue, SessionTypes, Unsent
      <4>2. Frames # << >> /\ Head(Frames) = "HELLO_ACK"
        BY <3>1, <4>1, FramesRead DEF Frames
      <4>3. QED
        BY <1>4, <4>2, HasTail
    <3>2. CASE ~(toClient # << >> /\ Head(toClient).type = "HELLO_ACK")
      BY <1>5, <3>2 DEF Moved
    <3>3. QED
      BY <3>1, <3>2
  <2>2. QED
    BY <1>2, <2>1 DEF SystemInv, Agreement, GreetingFits, SessionStill
<1>10. FramingFits'
  <2>1. Current' => Current
    BY <1>5 DEF Current, Moved
  <2>2. QED
    BY <1>2, <1>3, <2>1 DEF SystemInv, Agreement, FramingFits, SessionStill, Moved
<1>11. ContentFits'
  <2> SUFFICES ASSUME Meets', state' = "Uploading", Current'  PROVE ContentFits'
    BY DEF ContentFits
  <2>1. Current /\ job'.id = job.id /\ job'.size = job.size
    BY <1>5, <1>6 DEF Current, Moved
  <2>2. Own' = Own
    BY <2>1 DEF Own
  <2>3. QED
    BY <1>2, <1>3, <2>1, <2>2 DEF SystemInv, Agreement, ContentFits, SessionStill
<1>12. ResultFits'
  <2>1. Meets' /\ state' = "Uploading" /\ ~Acked' => ~Has(Frames', "RESULT_CHUNK")
    BY <1>2, <1>4, <1>5, <1>6 DEF SystemInv, Agreement, ResultFits, SessionStill
  <2>2. Meets' /\ tcp' = "open" => OneResult(results', Kinds(Unsent'))
    BY <1>2, <1>4 DEF SystemInv, Agreement, ResultFits, SessionStill
  <2>3. QED
    BY <2>1, <2>2 DEF ResultFits
<1>13. ResultTrue'
  <2> SUFFICES ASSUME pc' \in Open  PROVE ResultTrue'
    BY DEF ResultTrue
  <2>1. pc \in Open /\ OwnFile' = OwnFile
    BY DEF Moved, OwnFile
  <2>2. ResultsAre(toClient', OwnFile)
    BY <1>1, <2>1, TakenReplies DEF SystemInv, Agreement, ResultTrue
  <2>3. link' # "cut" => link # "cut"
    BY DEF Moved
  <2>4. QED
    BY <1>1, <2>1, <2>2, <2>3 DEF SystemInv, Agreement, ResultTrue, SessionStill
<1>14. CancelFits'
  BY <1>2, <1>3 DEF SystemInv, Agreement, CancelFits, SessionStill, Moved
<1>15. QED
  BY <1>7, <1>8, <1>9, <1>10, <1>11, <1>12, <1>13, <1>14 DEF Agreement

\* A worker that has ended its session has nothing to agree on.
LEMMA OverAgrees == ASSUME ~Live'  PROVE Agreement' /\ RepliesTrue'
  BY DEF Agreement, AckFits, BeginFits, GreetingFits, FramingFits, ContentFits,
         ResultFits, ResultTrue, CancelFits, Meets, RepliesTrue

LEMMA SessionStays ==
  ASSUME SystemInv, SessionStill
  PROVE  SessionTypes' /\ SessionFits'
  BY DEF SystemInv, Basics, SessionStill, SessionTypes, SessionFits


LEMMA MovedInv ==
  ASSUME SystemInv, SessionStill, Moved, ClientTypes', OutFits', PhaseFits'
  PROVE  SystemInv'
<1>1. Agreement'
  <2>1. link' # "cut" \/ link = "cut"
    BY DEF Moved
  <2>2. QED
    BY <2>1, MovedAgrees
<1>2. RepliesTrue'
  <2>1. CASE Live'
    <3>1. Live /\ Taken
      BY <2>1 DEF Moved
    <3>2. QED
      BY <3>1, TakenReplies DEF RepliesTrue
  <2>2. CASE ~Live'
    BY <2>2, OverAgrees
  <2>3. QED
    BY <2>1, <2>2
<1>3. QED
  BY <1>1, <1>2, SessionStays DEF SystemInv, Basics

LEMMA OwnStays ==
  ASSUME job'.id = job.id, job'.size = job.size
  PROVE  OwnFile' = OwnFile /\ Own' = Own
  BY DEF OwnFile, Own

-----------------------------------------------------------------------------
(* Steps of the client that leave the two buffers it sends from and to.    *)

ClientStays == UNCHANGED <<snap, pc, job, out, link, toServer, toClient>>

\* The clicks, and what the window shows.
LEMMA StaysInv ==
  ASSUME SystemInv, SessionStill, heard' = Heard, ClientStays
  PROVE  SystemInv'
<1>1. Moved
  BY DEF Moved, Taken, ClientStays, Live, Heard, Cancelled
<1>2. OwnFile' = OwnFile /\ Own' = Own
  BY OwnStays DEF ClientStays
<1>3. ClientTypes'
  BY DEF SystemInv, Basics, ClientTypes, ClientStays
<1>4. OutFits'
  BY <1>2 DEF SystemInv, Basics, OutFits, ClientStays
<1>5. PhaseFits'
  BY <1>2 DEF SystemInv, Basics, PhaseFits, ClientStays
<1>6. QED
  BY <1>1, <1>3, <1>4, <1>5, MovedInv

\* The worker sends nothing before and after, and what it knows of the upload
\* stays.
LEMMA GoesInv ==
  ASSUME SystemInv, SessionStill, Moved, pc' \notin C!Senders,
         pc \notin C!Senders, out' = out, job' = job, snap' \in Snaps, PhaseFits'
  PROVE  SystemInv'
<1>1. out' = << >>
  BY DEF SystemInv, Basics, OutFits
<1>2. OutFits'
  BY <1>1 DEF OutFits, C!Senders
<1>3. ClientTypes'
  <2>1. toServer' = toServer
    BY DEF Moved
  <2>2. QED
    BY <2>1 DEF SystemInv, Basics, ClientTypes
<1>4. QED
  BY <1>2, <1>3, MovedInv

LEMMA PhaseSet ==
  ASSUME SystemInv, NEW p \in Phases, C!SetPhase(p)
  PROVE  snap' \in Snaps /\ snap'.phase = p /\ snap'.csv = snap.csv
  BY DEF SystemInv, Basics, ClientTypes, Snaps, C!SetPhase

LEMMA StartInv ==
  ASSUME SystemInv, SessionStill, heard' = Heard, C!Start
  PROVE  SystemInv'
<1>1. /\ pc = "start" /\ pc' = "connect" /\ C!SetPhase("Connecting")
      /\ UNCHANGED <<job, out, link, toServer, toClient>>
  BY DEF C!Start, C!Worker, C!netVars
<1>2. snap' \in Snaps /\ snap'.phase = "Connecting" /\ snap'.csv = snap.csv
  BY <1>1, PhaseSet DEF Phases
<1>3. Moved
  BY <1>1 DEF Moved, Taken, Heard, Cancelled, Live, Over, Early, Open
<1>4. PhaseFits'
  BY <1>1, <1>2 DEF SystemInv, Basics, PhaseFits, Open, Rests
<1>5. QED
  BY <1>1, <1>2, <1>3, <1>4, GoesInv DEF C!Senders

LEMMA IdleInv ==
  ASSUME SystemInv, SessionStill, heard' = Heard, C!IdleSlice \/ C!IdleDone
  PROVE  SystemInv'
<1>1. /\ pc \in {"idle", "idleRead"} /\ pc' \in {"idle", "idleRead"}
      /\ UNCHANGED <<snap, job, out, link, toServer, toClient>>
  BY DEF C!IdleSlice, C!IdleDone, C!Worker, C!netVars
<1>2. snap' \in Snaps /\ OwnFile' = OwnFile
  BY <1>1, OwnStays DEF SystemInv, Basics, ClientTypes
<1>3. Moved
  BY <1>1 DEF Moved, Taken, Heard, Cancelled, Live, Over, Early, Open
<1>4. PhaseFits'
  BY <1>1, <1>2 DEF SystemInv, Basics, PhaseFits, Open, Rests
<1>5. QED
  BY <1>1, <1>2, <1>3, <1>4, GoesInv DEF C!Senders


\* The worker gives up its session or ends it: what the session does is nothing
\* to it any more.
LEMMA LeavesInv ==
  ASSUME SystemInv, SessionStill, pc' \in Over, out' = << >>, toServer' \in Seq(Toks),
         job' \in Jobs, job'.id = job.id, job'.size = job.size, snap' \in Snaps,
         snap'.phase \in {"Done", "Cancelled"} => pc' \in Rests,
         snap'.phase = "Done" => snap.phase = "Done" /\ snap'.csv = snap.csv
  PROVE  SystemInv'
<1>1. ~Live'
  BY DEF Live
<1>2. Agreement' /\ RepliesTrue'
  BY <1>1, OverAgrees
<1>3. SessionTypes' /\ SessionFits'
  BY SessionStays
<1>4. ClientTypes'
  <2>1. out' \in Seq(Toks)
    BY EmptySeq
  <2>2. QED
    BY <2>1 DEF ClientTypes
<1>5. OutFits'
  BY DEF OutFits, Over
<1>6. PhaseFits'
  <2>1. OwnFile' = OwnFile
    BY OwnStays
  <2>2. QED
    BY <2>1 DEF SystemInv, Basics, PhaseFits, Over, Open, Rests
<1>7. QED
  BY <1>2, <1>3, <1>4, <1>5, <1>6 DEF SystemInv, Basics

LEMMA FailInv ==
  ASSUME SystemInv, SessionStill, C!Fail, job' = job, toServer' = toServer
  PROVE  SystemInv'
<1>1. pc' \in Over /\ out' = << >> /\ snap' = [snap EXCEPT !.phase = "Failed", !.connected = FALSE]
  BY DEF C!Fail, Over
<1>2. snap' \in Snaps /\ snap'.phase = "Failed"
  BY <1>1 DEF SystemInv, Basics, ClientTypes, Snaps, Phases
<1>3. job' \in Jobs /\ toServer' \in Seq(Toks)
  BY DEF SystemInv, Basics, ClientTypes
<1>4. QED
  BY <1>1, <1>2, <1>3, LeavesInv

\* A read or a connection attempt that fails, a file that cannot be opened, a
\* result that is too large; and the way out of the session.
LEMMA EndsInv ==
  ASSUME SystemInv, SessionStill,
         \/ C!ConnectFails \/ C!ReadLost \/ C!ReadRefused \/ C!OpenFails
         \/ C!ResultTooLarge
         \/ C!CloseSocket \/ C!ShowClosed \/ C!EndSession \/ C!DestroySocket
  PROVE  SystemInv'
<1>1. CASE C!ConnectFails \/ C!ReadLost \/ C!ReadRefused \/ C!OpenFails \/ C!ResultTooLarge
  <2>1. C!Fail /\ job' = job /\ toServer' = toServer
    BY <1>1 DEF C!ConnectFails, C!ReadLost, C!ReadRefused, C!OpenFails, C!ResultTooLarge,
                C!Reads, C!netVars
  <2>2. QED
    BY <2>1, FailInv
<1>2. job \in Jobs /\ toServer \in Seq(Toks) /\ snap \in Snaps /\ out \in Seq(Toks)
  BY DEF SystemInv, Basics, ClientTypes
<1>3. CASE C!CloseSocket \/ C!EndSession \/ C!DestroySocket
  <2>1. /\ pc \in {"close", "last", "leave"} /\ UNCHANGED <<snap, job, out, toServer>>
        /\ pc' \in Over /\ (pc = "close" => pc' = "closed")
    BY <1>3 DEF C!CloseSocket, C!EndSession, C!DestroySocket, C!Worker, C!netVars, Over
  <2>2. out = << >>
    BY <2>1 DEF SystemInv, Basics, OutFits, C!Senders
  <2>3. snap.phase \in {"Done", "Cancelled"} => pc' \in Rests
    BY <2>1 DEF SystemInv, Basics, PhaseFits, Rests
  <2>4. QED
    BY <1>2, <2>1, <2>2, <2>3, LeavesInv
<1>4. CASE C!ShowClosed
  <2>1. /\ pc = "closed" /\ UNCHANGED <<job, out, toServer>> /\ pc' = "last"
        /\ snap' = [snap EXCEPT !.connected = FALSE,
                                !.phase = IF @ = "Failed" THEN @ ELSE "Idle"]
    BY <1>4 DEF C!ShowClosed, C!Worker, C!netVars
  <2>2. out = << >>
    BY <2>1 DEF SystemInv, Basics, OutFits, C!Senders
  <2>3. snap' \in Snaps /\ snap'.phase \in {"Failed", "Idle"}
    BY <1>2, <2>1 DEF Snaps, Phases
  <2>4. pc' \in Over
    BY <2>1 DEF Over
  <2>5. QED
    BY <1>2, <2>1, <2>2, <2>3, <2>4, LeavesInv
<1>5. QED
  BY <1>1, <1>3, <1>4

-----------------------------------------------------------------------------
(* The session's answers are read.                                         *)

\* What a read takes, and what has arrived.
LEMMA ReadTakes ==
  ASSUME SystemInv, NEW at, NEW f, C!Takes(at, f), Live
  PROVE  /\ pc = at /\ out' = out /\ toServer' = toServer /\ link' = link
         /\ toClient # << >> /\ f = Head(toClient) /\ f \in Arrivals
         /\ toClient' = Tail(toClient)
         /\ f.type \in {"RESULT_BEGIN", "ANALYZE_DONE"} => f.arg = 1
         /\ Frames # << >> /\ Head(Frames) = f.type
         /\ Unsent \in Seq(Replies) /\ toClient \in Seq(Arrivals)
<1>1. /\ pc = at /\ out' = out /\ toServer' = toServer /\ link' = link
      /\ toClient # << >> /\ f = Head(toClient) /\ toClient' = Tail(toClient)
  BY DEF C!Takes, C!Reads, C!Worker
<1>2. /\ toClient \in Seq(Arrivals) /\ Unsent \in Seq(Replies)
      /\ \A i \in 1 .. Len(toClient) :
           toClient[i].type \in {"RESULT_BEGIN", "ANALYZE_DONE"} => toClient[i].arg = 1
  BY DropType DEF SystemInv, Basics, RepliesTrue, SessionTypes, Unsent
<1>3. Frames # << >> /\ Head(Frames) = Head(toClient).type
  BY <1>1, <1>2, FramesRead DEF Frames
<1>4. Len(toClient) \in Nat \ {0} /\ f = toClient[1] /\ f \in Arrivals
  BY <1>1, <1>2, EmptySeq
<1>5. f.type \in {"RESULT_BEGIN", "ANALYZE_DONE"} => f.arg = 1
  BY <1>2, <1>4
<1>6. QED
  BY <1>1, <1>2, <1>3, <1>4, <1>5

LEMMA TakeHelloAckInv ==
  ASSUME SystemInv, SessionStill, heard' = Heard, C!TakeHelloAck
  PROVE  SystemInv'
<1>1. PICK f : /\ C!Takes("helloAck", f)
               /\ snap' = [snap EXCEPT !.connected = TRUE, !.phase = "Connected"]
               /\ pc' = "idle" /\ job' = job
  BY DEF C!TakeHelloAck
<1>2. pc = "helloAck" /\ Live
  BY <1>1 DEF C!Takes, C!Reads, C!Worker, Live, Over
<1>3. /\ out' = out /\ toServer' = toServer /\ link' = link
      /\ toClient # << >> /\ f = Head(toClient) /\ toClient' = Tail(toClient)
  BY <1>1, <1>2, ReadTakes
<1>4. f.type = "HELLO_ACK"
  BY <1>1, <1>2 DEF C!Takes, C!Accepts, C!Waiting, C!Wanted
<1>5. snap' \in Snaps /\ snap'.phase = "Connected" /\ snap'.csv = snap.csv
  BY <1>1 DEF SystemInv, Basics, ClientTypes, Snaps, Phases
<1>6. Moved
  BY <1>1, <1>2, <1>3, <1>4, <1>5 DEF Moved, Taken, Heard, Cancelled, Live, Over, Open
<1>7. PhaseFits'
  BY <1>1, <1>5 DEF SystemInv, Basics, PhaseFits, Open, Rests
<1>8. QED
  BY <1>1, <1>2, <1>3, <1>5, <1>6, <1>7, GoesInv DEF C!Senders

\* Whatever is there is read, idle and between two chunks.
LEMMA TakeAnyInv ==
  ASSUME SystemInv, SessionStill, heard' = Heard, C!TakeIdle \/ C!TakeAck
  PROVE  SystemInv'
<1>0. PICK at \in {"idleRead", "drain"} :
        \E f : C!Takes(at, f) /\ UNCHANGED <<snap, pc, job>>
  BY DEF C!TakeIdle, C!TakeAck
<1>1. PICK f : C!Takes(at, f) /\ UNCHANGED <<snap, pc, job>>
  BY <1>0
<1>2. pc = at /\ Live
  BY <1>1 DEF C!Takes, C!Reads, C!Worker, Live, Over
<1>3. /\ out' = out /\ toServer' = toServer /\ link' = link
      /\ toClient # << >> /\ toClient' = Tail(toClient)
  BY <1>1, <1>2, ReadTakes
<1>4. snap' \in Snaps /\ OwnFile' = OwnFile
  BY <1>1, OwnStays DEF SystemInv, Basics, ClientTypes
<1>5. Moved
  BY <1>1, <1>2, <1>3 DEF Moved, Taken, Heard, Cancelled, Live, Over, Early, Open
<1>6. PhaseFits'
  BY <1>1, <1>2, <1>4 DEF SystemInv, Basics, PhaseFits, Open, Rests
<1>7. QED
  BY <1>1, <1>2, <1>3, <1>4, <1>5, <1>6, GoesInv DEF C!Senders

LEMMA TakeAwaitedInv ==
  ASSUME SystemInv, SessionStill, heard' = Heard, C!TakeAwaited
  PROVE  SystemInv'
<1>1. PICK f : /\ C!Takes("awaitRead", f)
               /\ \/ f.type = "UPLOAD_ACK" /\ pc' = "await" /\ UNCHANGED <<snap, job>>
                  \/ /\ snap' = [snap EXCEPT !.result = TRUE, !.phase = "ReceivingResult"]
                     /\ f.type = "ANALYZE_DONE" /\ job' = [job EXCEPT !.want = f.arg]
                     /\ pc' = "result"
  BY DEF C!TakeAwaited
<1>2. pc = "awaitRead" /\ Live
  BY <1>1 DEF C!Takes, C!Reads, C!Worker, Live, Over
<1>3. /\ out' = out /\ toServer' = toServer /\ link' = link /\ f \in Arrivals
      /\ toClient # << >> /\ toClient' = Tail(toClient)
  BY <1>1, <1>2, ReadTakes
<1>4. job \in Jobs /\ snap \in Snaps /\ out \in Seq(Toks) /\ toServer \in Seq(Toks)
  BY DEF SystemInv, Basics, ClientTypes
<1>5. /\ snap' \in Snaps /\ snap'.phase \in {snap.phase, "ReceivingResult"}
      /\ snap'.csv = snap.csv
  BY <1>1, <1>4 DEF Snaps, Phases, C!TransferPhases
<1>6. job' \in Jobs /\ job'.id = job.id /\ job'.size = job.size /\ job'.body = job.body
  BY <1>1, <1>3, <1>4 DEF Jobs, Arrivals
<1>7. OwnFile' = OwnFile /\ pc' \in {"await", "result"}
  BY <1>1, <1>6, OwnStays
<1>8. Moved
  BY <1>2, <1>3, <1>6, <1>7 DEF Moved, Taken, Heard, Cancelled, Live, Over, Early, Open
<1>9. PhaseFits'
  BY <1>2, <1>5, <1>6, <1>7 DEF SystemInv, Basics, PhaseFits, Open, Rests
<1>10. out' = << >>
  BY <1>2, <1>3 DEF SystemInv, Basics, OutFits, C!Senders
<1>11. OutFits'
  BY <1>7, <1>10 DEF OutFits
<1>12. ClientTypes'
  BY <1>3, <1>4, <1>5, <1>6 DEF ClientTypes
<1>13. QED
  BY <1>8, <1>9, <1>11, <1>12, MovedInv

LEMMA TakeResultBeginInv ==
  ASSUME SystemInv, SessionStill, heard' = Heard, C!TakeResultBegin
  PROVE  SystemInv'
<1>1. PICK f : C!Takes("result", f) /\ job' = [job EXCEPT !.want = f.arg]
               /\ pc' = "body" /\ snap' = snap
  BY DEF C!TakeResultBegin
<1>2. pc = "result" /\ Live
  BY <1>1 DEF C!Takes, C!Reads, C!Worker, Live, Over
<1>3. /\ out' = out /\ toServer' = toServer /\ link' = link /\ f \in Arrivals
      /\ toClient # << >> /\ toClient' = Tail(toClient)
      /\ f.type \in {"RESULT_BEGIN", "ANALYZE_DONE"} => f.arg = 1
  BY <1>1, <1>2, ReadTakes
<1>4. f.type = "RESULT_BEGIN" /\ f.arg = 1
  BY <1>1, <1>2, <1>3 DEF C!Takes, C!Accepts, C!Waiting, C!Wanted
<1>5. job \in Jobs /\ snap \in Snaps /\ out \in Seq(Toks) /\ toServer \in Seq(Toks)
  BY DEF SystemInv, Basics, ClientTypes
<1>6. /\ job' \in Jobs /\ job'.id = job.id /\ job'.size = job.size
      /\ job'.body = job.body /\ job'.want = 1
  <2>1. job' = [job EXCEPT !.want = 1]
    BY <1>1, <1>4
  <2>2. job \in Jobs
    BY <1>5
  <2>3. job' \in Jobs
    BY <2>1, <2>2 DEF Jobs
  <2>4. QED
    BY <2>1, <2>2, <2>3 DEF Jobs
<1>7. OwnFile' = OwnFile
  BY <1>6, OwnStays
<1>8. Moved
  BY <1>1, <1>2, <1>3, <1>6 DEF Moved, Taken, Heard, Cancelled, Live, Over, Early, Open
<1>9. PhaseFits'
  <2>1. job'.body = << >>
    BY <1>2, <1>6 DEF SystemInv, Basics, PhaseFits, Open
  <2>2. AllAre(job'.body, OwnFile)
    BY <2>1 DEF AllAre
  <2>3. QED
    BY <1>1, <1>2, <1>6, <1>7, <2>2 DEF SystemInv, Basics, PhaseFits, Open, Rests
<1>10. out' = << >>
  BY <1>2, <1>3 DEF SystemInv, Basics, OutFits, C!Senders
<1>11. OutFits'
  BY <1>1, <1>10 DEF OutFits
<1>12. ClientTypes'
  BY <1>1, <1>3, <1>5, <1>6 DEF ClientTypes
<1>13. QED
  BY <1>8, <1>9, <1>11, <1>12, MovedInv

\* What the client has of its result is from its file, and all of it when it is
\* kept.
LEMMA TakeResultInv ==
  ASSUME SystemInv, SessionStill, heard' = Heard, C!TakeResult
  PROVE  SystemInv'
<1>1. PICK f : /\ C!Takes("body", f)
               /\ \/ /\ f.type = "RESULT_CHUNK"
                     /\ job' = [job EXCEPT !.body = @ \o f.body]
                     /\ snap' = snap /\ pc' = pc
                  \/ /\ f.type = "RESULT_END"
                     /\ snap' = [snap EXCEPT !.csv = job.body]
                     /\ pc' = "kept" /\ job' = job
  BY DEF C!TakeResult
<1>2. pc = "body" /\ Live
  BY <1>1 DEF C!Takes, C!Reads, C!Worker, Live, Over
<1>3. /\ out' = out /\ toServer' = toServer /\ link' = link /\ f \in Arrivals
      /\ toClient # << >> /\ toClient' = Tail(toClient) /\ f = Head(toClient)
      /\ toClient \in Seq(Arrivals)
  BY <1>1, <1>2, ReadTakes
<1>4. job \in Jobs /\ snap \in Snaps /\ out \in Seq(Toks) /\ toServer \in Seq(Toks)
  BY DEF SystemInv, Basics, ClientTypes
<1>5. job.want = 1 /\ AllAre(job.body, OwnFile) /\ job.body \in Seq(Files)
  BY <1>2, <1>4 DEF SystemInv, Basics, PhaseFits, Jobs
<1>6. f.type = "RESULT_CHUNK" => f.body = <<OwnFile>> /\ f.body \in Seq(Files)
  <2>1. ResultsAre(toClient, OwnFile)
    BY <1>2 DEF SystemInv, Agreement, ResultTrue, Live, Over, Open
  <2>2. f.type = "RESULT_CHUNK" => f.body = <<OwnFile>>
    BY <1>3, <2>1, ResultsTail
  <2>3. f.body \in Seq(Files)
    BY <1>3 DEF Arrivals
  <2>4. QED
    BY <2>2, <2>3
<1>7. CASE f.type = "RESULT_CHUNK"
  <2>1. job' = [job EXCEPT !.body = job.body \o f.body] /\ snap' = snap /\ pc' = "body"
    BY <1>1, <1>2, <1>7
  <2> DEFINE b == job.body
             n == f.body
             u == b \o n
  <2>2. n = <<OwnFile>> /\ n \in Seq(Files) /\ b \in Seq(Files)
    BY <1>5, <1>6, <1>7
  <2>3. AllAre(n, OwnFile)
    BY <2>2 DEF AllAre
  <2>4. AllAre(b, OwnFile)
    BY <1>5
  <2> HIDE DEF b, n
  <2>5. AllAre(u, OwnFile) /\ u \in Seq(Files)
    BY <2>2, <2>3, <2>4, AllAreConcat, ConcatProperties
  <2> HIDE DEF u
  <2>6. job' = [job EXCEPT !.body = u]
    BY <2>1 DEF u, b, n
  <2>7. /\ job' \in Jobs /\ job'.id = job.id /\ job'.size = job.size
        /\ job'.body = u /\ job'.want = 1
    BY <1>4, <1>5, <2>5, <2>6 DEF Jobs
  <2>8. OwnFile' = OwnFile
    BY <2>7, OwnStays
  <2>9. Moved
    BY <1>2, <1>3, <2>1, <2>7 DEF Moved, Taken, Heard, Cancelled, Live, Over, Early, Open
  <2>10. PhaseFits'
    BY <1>2, <2>1, <2>5, <2>7, <2>8 DEF SystemInv, Basics, PhaseFits, Open, Rests
  <2>11. out' = << >>
    BY <1>2, <1>3 DEF SystemInv, Basics, OutFits, C!Senders
  <2>12. OutFits'
    BY <2>1, <2>11 DEF OutFits
  <2>13. ClientTypes'
    BY <1>3, <1>4, <2>1, <2>7 DEF ClientTypes
  <2>14. QED
    BY <2>9, <2>10, <2>12, <2>13, MovedInv
<1>8. CASE f.type = "RESULT_END"
  <2>1. snap' = [snap EXCEPT !.csv = job.body] /\ pc' = "kept" /\ job' = job
    BY <1>1, <1>8
  <2>2. Len(job.body) = 1
    BY <1>1, <1>2, <1>5, <1>8 DEF C!Takes, C!Accepts, C!Waiting, C!Wanted
  <2>3. job.body = <<OwnFile>>
    <3>1. 1 \in 1 .. Len(job.body)
      BY <2>2
    <3>2. job.body[1] = OwnFile
      BY <1>5, <3>1 DEF AllAre
    <3> DEFINE b == job.body
    <3>3. b \in Seq(Files) /\ Len(b) = 1 /\ b[1] = OwnFile
      BY <1>5, <2>2, <3>2
    <3> HIDE DEF b
    <3>4. b = <<OwnFile>>
      BY <3>3
    <3>5. QED
      BY <3>4 DEF b
  <2>4. snap' \in Snaps /\ snap'.phase = snap.phase /\ snap'.csv = <<OwnFile>>
    BY <1>4, <1>5, <2>1, <2>3 DEF Snaps
  <2>5. OwnFile' = OwnFile
    BY <2>1, OwnStays
  <2>6. Moved
    BY <1>2, <1>3, <2>1 DEF Moved, Taken, Heard, Cancelled, Live, Over, Early, Open
  <2>7. PhaseFits'
    BY <1>2, <2>1, <2>4, <2>5 DEF SystemInv, Basics, PhaseFits, Open, Rests
  <2>8. QED
    BY <1>2, <1>3, <2>1, <2>4, <2>6, <2>7, GoesInv DEF C!Senders
<1>9. QED
  BY <1>1, <1>7, <1>8

-----------------------------------------------------------------------------
(* The worker goes from one place to the next.                             *)

LEMMA GoesOnInv ==
  ASSUME SystemInv, SessionStill, heard' = Heard,
         C!OpenFile \/ C!DrainDone \/ C!Await
  PROVE  SystemInv'
<1>1. /\ pc \in {"open", "drain", "await"} /\ pc' \in {"loop", "awaitRead"}
      /\ UNCHANGED <<snap, job, out, link, toServer, toClient>>
  BY DEF C!OpenFile, C!DrainDone, C!Await, C!Worker, C!netVars
<1>2. snap' \in Snaps /\ OwnFile' = OwnFile
  BY <1>1, OwnStays DEF SystemInv, Basics, ClientTypes
<1>3. Moved
  BY <1>1 DEF Moved, Taken, Heard, Cancelled, Live, Over, Early, Open
<1>4. PhaseFits'
  BY <1>1, <1>2 DEF SystemInv, Basics, PhaseFits, Open, Rests
<1>5. QED
  BY <1>1, <1>2, <1>3, <1>4, GoesInv DEF C!Senders

LEMMA UploadDoneInv ==
  ASSUME SystemInv, SessionStill, heard' = Heard, C!UploadDone
  PROVE  SystemInv'
<1>1. /\ pc = "kept" /\ pc' = "idle" /\ C!SetPhase("Done")
      /\ UNCHANGED <<job, out, link, toServer, toClient>>
  BY DEF C!UploadDone, C!Worker, C!netVars
<1>2. snap' \in Snaps /\ snap'.phase = "Done" /\ snap'.csv = snap.csv
  BY <1>1, PhaseSet DEF Phases
<1>3. OwnFile' = OwnFile
  BY <1>1, OwnStays
<1>4. Moved
  BY <1>1, <1>2 DEF Moved, Taken, Heard, Cancelled, Live, Over, Early, Open
<1>5. PhaseFits'
  BY <1>1, <1>2, <1>3 DEF SystemInv, Basics, PhaseFits, Open, Rests
<1>6. QED
  BY <1>1, <1>2, <1>4, <1>5, GoesInv DEF C!Senders

LEMMA FileMissingInv ==
  ASSUME SystemInv, SessionStill, heard' = Heard, C!FileMissing
  PROVE  SystemInv'
<1>1. /\ pc = "file" /\ pc' = "idle" /\ C!SetPhase("Connected")
      /\ UNCHANGED <<job, out, link, toServer, toClient>>
  BY DEF C!FileMissing, C!Worker, C!netVars
<1>2. snap' \in Snaps /\ snap'.phase = "Connected" /\ snap'.csv = snap.csv
  BY <1>1, PhaseSet DEF Phases
<1>3. Moved
  BY <1>1, <1>2 DEF Moved, Taken, Heard, Cancelled, Live, Over, Early, Open
<1>4. PhaseFits'
  BY <1>1, <1>2 DEF SystemInv, Basics, PhaseFits, Open, Rests
<1>5. QED
  BY <1>1, <1>2, <1>3, <1>4, GoesInv DEF C!Senders

LEMMA TakeUploadInv ==
  ASSUME SystemInv, SessionStill, heard' = Heard, C!TakeUpload
  PROVE  SystemInv'
<1>1. /\ pc = "idle" /\ pc' = "file" /\ snap' = [C!Fresh EXCEPT !.connected = snap.connected]
      /\ UNCHANGED <<job, out, link, toServer, toClient>>
  BY DEF C!TakeUpload, C!Command, C!ForgetResult, C!netVars
<1>2. snap' \in Snaps /\ snap'.phase = "Idle"
  <2>1. << >> \in Seq(Files)
    BY EmptySeq
  <2>2. QED
    BY <1>1, <2>1 DEF SystemInv, Basics, ClientTypes, Snaps, C!Fresh, Phases
<1>3. Moved
  BY <1>1, <1>2 DEF Moved, Taken, Heard, Cancelled, Live, Over, Early, Open
<1>4. PhaseFits'
  BY <1>1, <1>2 DEF SystemInv, Basics, PhaseFits, Open, Rests
<1>5. QED
  BY <1>1, <1>2, <1>3, <1>4, GoesInv DEF C!Senders

-----------------------------------------------------------------------------
(* The worker has something to send.                                       *)

LEMMA TakeDisconnectInv ==
  ASSUME SystemInv, SessionStill, heard' = Heard, C!TakeDisconnect
  PROVE  SystemInv'
<1>1. /\ pc = "idle" /\ pc' = "bye" /\ out' = <<Token("BYE", 0)>>
      /\ UNCHANGED <<snap, job, link, toServer, toClient>>
  BY DEF C!TakeDisconnect, C!Command, C!netVars, C!Token, Token
<1>2. OwnFile' = OwnFile
  BY <1>1, OwnStays
<1>3. Moved
  BY <1>1 DEF Moved, Taken, Heard, Cancelled, Live, Over, Early, Open
<1>4. PhaseFits'
  BY <1>1, <1>2 DEF SystemInv, Basics, PhaseFits, Open, Rests
<1>5. OutFits'
  BY <1>1 DEF OutFits, C!Senders
<1>6. out' \in Seq(Toks)
  BY <1>1 DEF Token, Toks
<1>7. ClientTypes'
  BY <1>1, <1>6 DEF SystemInv, Basics, ClientTypes
<1>8. QED
  BY <1>3, <1>4, <1>5, <1>7, MovedInv

LEMMA BeginUploadInv ==
  ASSUME SystemInv, SessionStill, heard' = Heard, C!BeginUpload
  PROVE  SystemInv'
<1>1. /\ pc = "file" /\ pc' = "begin"
      /\ UNCHANGED <<snap, link, toServer, toClient>>
  BY DEF C!BeginUpload, C!Worker, C!netVars
<1>2. PICK size \in FileSizes : /\ job' = [C!NoJob EXCEPT !.id = job.id + 1, !.size = size]
                                /\ out' = <<Token("UPLOAD_BEGIN", size)>>
  BY DEF C!BeginUpload, C!Token, Token
<1>3. job \in Jobs /\ size \in Nat
  BY SystemAssumption DEF C!ClientAssumption, SystemInv, Basics, ClientTypes
<1>4. job' \in Jobs /\ job'.size = size /\ job'.body = << >>
  <2>1. << >> \in Seq(Files)
    BY EmptySeq
  <2>2. job' = [id |-> job.id + 1, size |-> size, sent |-> 0, want |-> 0, body |-> << >>,
                after |-> "Connected"]
    BY <1>2 DEF C!NoJob
  <2>3. job.id + 1 \in Int
    BY <1>3 DEF Jobs
  <2>4. QED
    BY <1>3, <2>1, <2>2, <2>3 DEF Jobs
<1>5. Moved
  BY <1>1 DEF Moved, Taken, Heard, Cancelled, Live, Over, Early, Open
<1>6. PhaseFits'
  BY <1>1, <1>4 DEF SystemInv, Basics, PhaseFits, Open, Rests
<1>7. OutFits'
  BY <1>1, <1>2, <1>4 DEF OutFits, C!Senders
<1>8. out' \in Seq(Toks)
  BY <1>2, <1>3 DEF Token, Toks
<1>9. ClientTypes'
  BY <1>1, <1>4, <1>8 DEF SystemInv, Basics, ClientTypes
<1>10. QED
  BY <1>5, <1>6, <1>7, <1>9, MovedInv

LEMMA FileSentInv ==
  ASSUME SystemInv, SessionStill, heard' = Heard, C!FileSent
  PROVE  SystemInv'
<1>1. /\ pc = "loop" /\ pc' = "end" /\ out' = <<Token("UPLOAD_END", job.sent)>>
      /\ UNCHANGED <<snap, job, link, toServer, toClient>>
  BY DEF C!FileSent, C!Worker, C!netVars, C!Token, Token
<1>2. OwnFile' = OwnFile /\ job.sent \in Int
  BY <1>1, OwnStays DEF SystemInv, Basics, ClientTypes, Jobs
<1>3. Moved
  BY <1>1 DEF Moved, Taken, Heard, Cancelled, Live, Over, Early, Open
<1>4. PhaseFits'
  BY <1>1, <1>2 DEF SystemInv, Basics, PhaseFits, Open, Rests
<1>5. OutFits'
  BY <1>1, <1>2 DEF OutFits, C!Senders
<1>6. out' \in Seq(Toks)
  BY <1>1, <1>2 DEF Token, Toks
<1>7. ClientTypes'
  BY <1>1, <1>6 DEF SystemInv, Basics, ClientTypes
<1>8. QED
  BY <1>3, <1>4, <1>5, <1>7, MovedInv

LEMMA ConnectedInv ==
  ASSUME SystemInv, SessionStill, heard' = Heard, C!Connected
  PROVE  SystemInv'
<1>1. /\ pc = "connect" /\ pc' = "hello" /\ out' = <<Token("HELLO", 0)>>
      /\ link' = "up" /\ C!SetPhase("Handshaking")
      /\ UNCHANGED <<job, toServer, toClient>>
  BY DEF C!Connected, C!Worker, C!Token, Token
<1>2. snap' \in Snaps /\ snap'.phase = "Handshaking"
  BY <1>1, PhaseSet DEF Phases, C!TransferPhases
<1>3. link = "none"
  BY <1>1 DEF SystemInv, Basics, PhaseFits
<1>4. Moved
  BY <1>1, <1>3 DEF Moved, Taken, Heard, Cancelled, Live, Over, Early, Open
<1>5. PhaseFits'
  BY <1>1, <1>2 DEF SystemInv, Basics, PhaseFits, Open, Rests
<1>6. OutFits'
  BY <1>1 DEF OutFits, C!Senders
<1>7. out' \in Seq(Toks)
  BY <1>1 DEF Token, Toks
<1>8. ClientTypes'
  BY <1>1, <1>2, <1>7 DEF SystemInv, Basics, ClientTypes
<1>9. QED
  BY <1>4, <1>5, <1>6, <1>8, MovedInv

\* The upload is taken back between two chunks.
LEMMA CancelSeenInv ==
  ASSUME SystemInv, SessionStill, heard' = Heard, C!CancelSeen \/ C!FileEnds
  PROVE  SystemInv'
<1>1. PICK after \in {"Cancelled", "Connected"} : C!CancelUpload(after)
  BY DEF C!CancelSeen, C!FileEnds
<1>2. /\ pc \in {"loop", "await"} /\ pc' = "cancel" /\ out' = <<Token("CANCEL", 0)>>
      /\ job' = [job EXCEPT !.after = after]
      /\ UNCHANGED <<snap, link, toServer, toClient>>
  BY <1>1 DEF C!CancelSeen, C!FileEnds, C!CancelUpload, C!Worker, C!netVars, C!Token, Token
<1>3. job' \in Jobs
  BY <1>2 DEF SystemInv, Basics, ClientTypes, Jobs
<1>4. Moved
  BY <1>2 DEF Moved, Taken, Heard, Cancelled, Live, Over, Early, Open
<1>5. PhaseFits'
  BY <1>2 DEF SystemInv, Basics, PhaseFits, Open, Rests
<1>6. OutFits'
  BY <1>2 DEF OutFits, C!Senders
<1>7. out' \in Seq(Toks)
  BY <1>2 DEF Token, Toks
<1>8. ClientTypes'
  BY <1>2, <1>3, <1>7 DEF SystemInv, Basics, ClientTypes
<1>9. QED
  BY <1>4, <1>5, <1>6, <1>8, MovedInv

\* A cancel is over, however the session has answered, or not.
LEMMA CancelOverInv ==
  ASSUME SystemInv, SessionStill, heard' = Heard, C!CancelOver,
         pc \in {"cancelAck", "cancel"}, Taken, link' = link, toServer' = toServer
  PROVE  SystemInv'
<1>1. C!SetPhase(job.after) /\ pc' = "idle" /\ out' = << >> /\ job' = job
  BY DEF C!CancelOver
<1>2. job.after \in Phases
  BY DEF SystemInv, Basics, ClientTypes, Jobs, Phases
<1>3. snap' \in Snaps /\ snap'.phase = job.after /\ snap'.csv = snap.csv
  BY <1>1, <1>2, PhaseSet
<1>4. job.after \in {"Cancelled", "Connected"}
  BY DEF SystemInv, Basics, ClientTypes, Jobs
<1>5. pc = "cancel" => heard' = "unsent"
  BY <1>1 DEF Heard
<1>6. pc = "cancelAck" => heard' = heard /\ Cancelled
  BY DEF Heard, Cancelled
<1>7. Moved
  BY <1>1, <1>5, <1>6 DEF Moved, Live, Over, Early, Open
<1>8. PhaseFits'
  BY <1>1, <1>3, <1>4 DEF PhaseFits, Open, Rests
<1>9. OutFits'
  BY <1>1 DEF OutFits
<1>10. ClientTypes'
  <2>1. out' \in Seq(Toks)
    BY <1>1, EmptySeq
  <2>2. QED
    BY <1>1, <1>3, <2>1 DEF SystemInv, Basics, ClientTypes
<1>11. QED
  BY <1>7, <1>8, <1>9, <1>10, MovedInv

LEMMA AfterCancelInv ==
  ASSUME SystemInv, SessionStill, heard' = Heard,
         \/ C!TakeWhileCancelling \/ C!CancelUnanswered
         \/ pc = "cancelAck" /\ C!TimeOut
  PROVE  SystemInv'
<1>1. pc = "cancelAck"
  BY DEF C!TakeWhileCancelling, C!CancelUnanswered, C!Worker
<1>2. Taken /\ link' = link /\ toServer' = toServer
  BY <1>1 DEF C!TakeWhileCancelling, C!CancelUnanswered, C!TimeOut, C!FrameCutShort,
              C!netVars, Taken, C!Senders, C!Waiting, C!Wanted, C!Polled
<1>3. CASE C!CancelOver
  BY <1>1, <1>2, <1>3, CancelOverInv
<1>4. CASE ~C!CancelOver
  <2>1. UNCHANGED <<snap, pc, job, out>>
    BY <1>1, <1>4 DEF C!TakeWhileCancelling, C!CancelUnanswered, C!TimeOut, C!workerVars,
                      C!Senders, C!Waiting, C!Wanted, C!Polled
  <2>2. Moved
    BY <1>1, <1>2, <2>1 DEF Moved, Heard, Cancelled, Live, Over, Early, Open
  <2>3. snap' \in Snaps
    BY <2>1 DEF SystemInv, Basics, ClientTypes
  <2>4. PhaseFits'
    BY <1>1, <2>1 DEF SystemInv, Basics, PhaseFits, Open, Rests
  <2>5. QED
    BY <1>1, <2>1, <2>2, <2>3, <2>4, GoesInv DEF C!Senders
<1>5. QED
  BY <1>3, <1>4

-----------------------------------------------------------------------------
(* The worker sends.                                                       *)

\* What is on its way to the session is made of tokens.
LEMMA AskedType ==
  ASSUME SystemInv
  PROVE  /\ readBuf \in Seq(Toks) /\ toServer \in Seq(Toks)
         /\ Asked \in Seq(Toks) /\ Stream \in Seq(Toks)
         /\ pc # "chunk" => Stream = Asked
         /\ LeftOf(decoder) \in Nat
<1>1. readBuf \in Seq(Toks) /\ toServer \in Seq(Toks) /\ out \in Seq(Toks)
  BY DEF SystemInv, Basics, ClientTypes, SessionTypes
<1>2. Asked \in Seq(Toks)
  BY <1>1, ConcatProperties DEF Asked
<1>3. pc # "chunk" => Stream = Asked
  BY <1>2, ConcatEmptySeq DEF Stream
<1>4. pc = "chunk" => Stream \in Seq(Toks)
  BY <1>1, <1>2, ConcatProperties DEF Stream
<1>5. LeftOf(decoder) \in Nat
  BY DEF SystemInv, Basics, SessionTypes, Decoders, LeftOf
<1>6. QED
  BY <1>1, <1>2, <1>3, <1>4, <1>5

LEMMA MoveFirst ==
  ASSUME NEW s \in Seq(Toks), NEW t \in Seq(Toks), t # << >>
  PROVE  Append(s, Head(t)) \o Tail(t) = s \o t
<1> DEFINE h == <<Head(t)>>
           r == Tail(t)
<1>1. Len(t) \in Nat \ {0} /\ Head(t) = t[1]
  BY EmptySeq
<1>2. Head(t) \in Toks /\ r \in Seq(Toks) /\ h \in Seq(Toks)
  BY HeadTailProperties
<1>3. Append(s, Head(t)) = s \o h
  BY <1>2, AppendIsConcat
<1>4. h \o r = t
  <2>1. 1 \in 1 .. Len(t) /\ Len(t) \in 1 .. Len(t)
    BY <1>1
  <2>2. SubSeq(t, 1, Len(t)) = <<t[1]>> \o SubSeq(t, 1 + 1, Len(t))
    BY <2>1, SubSeqRecursiveFirst
  <2>3. SubSeq(t, 1, Len(t)) = t /\ r = SubSeq(t, 2, Len(t))
    BY SubSeqFull, TailIsSubSeq
  <2>4. QED
    BY <1>1, <2>2, <2>3
<1> HIDE DEF h, r
<1>5. (s \o h) \o r = s \o (h \o r)
  BY <1>2, TokensAssoc
<1>6. QED
  BY <1>3, <1>4, <1>5 DEF r

\* What of it the session still does not see is the same, whatever is sent.
LEMMA FramesStay ==
  ASSUME SessionStill, toClient' = toClient, link' = link
  PROVE  Frames' = Frames /\ Unsent' = Unsent /\ Acked' = Acked
<1>1. Unsent' = Unsent
  BY DEF Unsent, SessionStill
<1>2. Frames' = Frames
  BY <1>1 DEF Frames
<1>3. QED
  BY <1>1, <1>2 DEF Acked

LEMMA RepliesStay ==
  ASSUME SystemInv, toClient' = toClient, Live' => Live
  PROVE  RepliesTrue'
  BY DEF SystemInv, Basics, RepliesTrue

\* The next chunk is put together.
LEMMA SendChunkInv ==
  ASSUME SystemInv, SessionStill, heard' = Heard, C!SendChunk
  PROVE  SystemInv'
<1> DEFINE k == C!Smaller(Chunk, job.size - job.sent)
           c == C!ChunkOf(k, job.id)
<1>1. /\ pc = "loop" /\ pc' = "chunk" /\ job.sent < job.size /\ out' = c
      /\ UNCHANGED <<snap, job, link, toServer, toClient>> /\ heard' = heard
  BY DEF C!SendChunk, C!Worker, C!netVars, Heard
<1>2. job.size \in Nat /\ job.sent \in Int /\ job.id \in Int
  BY DEF SystemInv, Basics, ClientTypes, Jobs
<1>3. k \in Nat
  BY <1>1, <1>2, SystemAssumption DEF C!ClientAssumption, C!Smaller
<1>4. /\ c \in Seq(Toks) /\ c # << >> /\ Len(c) = k + 1
      /\ c[1] = Token("UPLOAD_CHUNK", k)
      /\ \A i \in 2 .. k + 1 : c[i] = Own
      /\ Framed(c, 0)
  <2>1. k \in Nat /\ job.id \in Int
    BY <1>2, <1>3
  <2> HIDE DEF k
  <2>2. QED
    BY <2>1, ChunkIsFramed DEF Own
<1> HIDE DEF k, c
<1>5. OwnFile' = OwnFile /\ Own' = Own
  BY <1>1, OwnStays
<1>6. ClientTypes'
  BY <1>1, <1>4 DEF SystemInv, Basics, ClientTypes
<1>7. OutFits'
  <2>1. k = Len(c) - 1
    BY <1>3, <1>4
  <2>2. \A i \in 2 .. Len(out') : out'[i] = Own'
    BY <1>1, <1>4, <1>5
  <2>3. out'[1] = Token("UPLOAD_CHUNK", Len(out') - 1) /\ out' # << >>
    BY <1>1, <1>4, <2>1
  <2>4. QED
    BY <1>1, <2>2, <2>3 DEF OutFits, C!Senders
<1>8. PhaseFits'
  BY <1>1, <1>5 DEF SystemInv, Basics, PhaseFits, Open, Rests
<1>9. Live /\ Live' /\ pc \in Open /\ pc' \in Open /\ pc # "beginAck" /\ pc' # "beginAck"
      /\ ~Cancelled'
  BY <1>1 DEF Live, Over, Open, Cancelled
<1>10. Frames' = Frames /\ Unsent' = Unsent /\ Acked' = Acked
  BY <1>1, FramesStay
<1>11. Asked' = Asked /\ Stream = Asked /\ Stream' = Asked \o c /\ (Meets' => Meets)
  BY <1>1, <1>9, AskedType DEF Asked, Stream, SessionStill, Meets
<1>12. AckFits'
  BY <1>9, <1>10 DEF SystemInv, Agreement, AckFits
<1>13. BeginFits'
  BY <1>1, <1>9, <1>10, <1>11 DEF SystemInv, Agreement, BeginFits, SessionStill
<1>14. GreetingFits'
  BY <1>1, <1>10, <1>11 DEF SystemInv, Agreement, GreetingFits, SessionStill, Early
<1>15. ASSUME Meets', state' = "Uploading"
       PROVE  /\ Framed(Stream', LeftOf(decoder')) /\ decoder'.phase # "Failed"
              /\ declared' = job'.size /\ DataIs(Stream', Own') /\ AllAre(content', Own')
  <2>1. UNCHANGED <<state, decoder, declared, content>>
    BY DEF SessionStill
  <2>2. /\ Framed(Asked, LeftOf(decoder)) /\ decoder.phase # "Failed"
        /\ declared = job.size /\ DataIs(Asked, Own) /\ AllAre(content, Own)
    BY <1>9, <1>11, <1>15, <2>1
       DEF SystemInv, Agreement, FramingFits, ContentFits, Current
  <2>3. Asked \in Seq(Toks) /\ LeftOf(decoder) \in Nat
    BY AskedType
  <2>4. Framed(Asked \o c, LeftOf(decoder))
    BY <1>4, <2>2, <2>3, FramedConcat
  <2>5. DataIs(c, Own)
    <3>1. \A i \in 1 .. Len(c) : i = 1 \/ i \in 2 .. k + 1
      BY <1>3, <1>4
    <3>2. c[1].type # "DATA"
      BY <1>4 DEF Token
    <3>3. QED
      BY <1>4, <3>1, <3>2 DEF DataIs
  <2>6. DataIs(Asked \o c, Own)
    BY <1>4, <2>2, <2>3, <2>5, DataIsConcat
  <2>7. QED
    BY <1>1, <1>5, <1>11, <2>1, <2>2, <2>4, <2>6
<1>16. FramingFits' /\ ContentFits'
  BY <1>15 DEF FramingFits, ContentFits
<1>17. ResultFits'
  <2>1. Meets' /\ state' = "Uploading" /\ ~Acked' => ~Has(Frames', "RESULT_CHUNK")
    BY <1>10, <1>11 DEF SystemInv, Agreement, ResultFits, SessionStill
  <2>2. Meets' /\ tcp' = "open" => OneResult(results', Kinds(Unsent'))
    BY <1>10, <1>11 DEF SystemInv, Agreement, ResultFits, SessionStill
  <2>3. QED
    BY <2>1, <2>2 DEF ResultFits
<1>18. ResultTrue'
  BY <1>1, <1>5, <1>9 DEF SystemInv, Agreement, ResultTrue, SessionStill
<1>19. CancelFits'
  BY <1>9 DEF CancelFits
<1>20. Agreement'
  BY <1>12, <1>13, <1>14, <1>16, <1>17, <1>18, <1>19 DEF Agreement
<1>21. RepliesTrue' /\ SessionTypes' /\ SessionFits'
  BY <1>1, <1>9, RepliesStay, SessionStays
<1>22. QED
  BY <1>6, <1>7, <1>8, <1>20, <1>21 DEF SystemInv, Basics

\* A cancel while a chunk is being sent: what is left of it is not, and if some
\* was, it is torn.
LEMMA TornInv ==
  ASSUME SystemInv, SessionStill, heard' = Heard, pc = "chunk",
         C!CancelUpload("Cancelled"), UNCHANGED <<link, toServer, toClient>>
  PROVE  SystemInv'
<1>1. /\ pc' = "cancel" /\ out' = <<Token("CANCEL", 0)>>
      /\ job' = [job EXCEPT !.after = "Cancelled"] /\ snap' = snap
  BY DEF C!CancelUpload, C!Token, Token
<1>2. job' \in Jobs /\ job'.size = job.size
  BY <1>1 DEF SystemInv, Basics, ClientTypes, Jobs
<1>3. out' \in Seq(Toks)
  BY <1>1 DEF Token, Toks
<1>4. ClientTypes'
  BY <1>1, <1>2, <1>3 DEF SystemInv, Basics, ClientTypes
<1>5. OutFits'
  BY <1>1 DEF OutFits, C!Senders
<1>6. PhaseFits'
  BY <1>1 DEF SystemInv, Basics, PhaseFits, Open, Rests
<1>7. /\ Live /\ Live' /\ pc \in Open /\ pc' \notin Open /\ pc # "beginAck" /\ pc' # "beginAck"
      /\ ~Cancelled' /\ pc \notin Early
  BY <1>1 DEF Live, Over, Open, Cancelled, Early
<1>8. Frames' = Frames /\ Unsent' = Unsent /\ Acked' = Acked
  BY FramesStay
<1>9. Asked' = Asked /\ Stream = Asked \o out /\ (Meets' => Meets)
  BY <1>7 DEF Asked, Stream, SessionStill, Meets
<1>10. Stream' = Asked
  <2>1. Asked \in Seq(Toks)
    BY AskedType
  <2>2. Stream' = Asked' \o << >>
    BY <1>1 DEF Stream
  <2>3. QED
    BY <1>9, <2>1, <2>2, ConcatEmptySeq
<1>11. AckFits'
  BY <1>7, <1>8 DEF SystemInv, Agreement, AckFits
<1>12. ~Acked' /\ ~Current'
  BY <1>7, <1>8 DEF SystemInv, Agreement, AckFits, Current
<1>13. BeginFits'
  BY <1>2, <1>7, <1>9, <1>12 DEF SystemInv, Agreement, BeginFits, SessionStill
<1>14. GreetingFits'
  BY <1>7, <1>9 DEF SystemInv, Agreement, GreetingFits, SessionStill
<1>15. FramingFits'
  <2> SUFFICES ASSUME Meets', state' = "Uploading", heard' = "yes"
               PROVE  Framed(Stream', LeftOf(decoder')) /\ decoder'.phase # "Failed"
    BY <1>12 DEF FramingFits
  <2>1. UNCHANGED <<state, decoder>>
    BY DEF SessionStill
  <2>2. Framed(Asked \o out, LeftOf(decoder)) /\ decoder.phase # "Failed"
    BY <1>7, <1>9, <2>1 DEF SystemInv, Agreement, FramingFits, Current
  <2>3. Asked \in Seq(Toks) /\ LeftOf(decoder) \in Nat /\ out \in Seq(Toks)
    BY AskedType DEF SystemInv, Basics, ClientTypes
  <2>4. out # << >> /\ (out[1] = Own \/ out[1] = Token("UPLOAD_CHUNK", Len(out) - 1))
    BY DEF SystemInv, Basics, OutFits
  <2>5. Head(out) = out[1]
    BY <2>3, <2>4, EmptySeq
  <2>6. out[1].type = "UPLOAD_CHUNK"
    BY <1>1, <2>4, <2>5 DEF Heard, Own, Token
  <2>7. Framed(Asked, LeftOf(decoder))
    BY <2>2, <2>3, <2>4, <2>6, FramedWithout
  <2>8. QED
    BY <1>10, <2>1, <2>2, <2>7
<1>16. ContentFits' /\ ResultTrue' /\ CancelFits'
  BY <1>7, <1>12 DEF ContentFits, ResultTrue, CancelFits
<1>17. ResultFits'
  <2>1. Meets' /\ state' = "Uploading" /\ ~Acked' => ~Has(Frames', "RESULT_CHUNK")
    BY <1>8, <1>9 DEF SystemInv, Agreement, ResultFits, SessionStill
  <2>2. Meets' /\ tcp' = "open" => OneResult(results', Kinds(Unsent'))
    BY <1>8, <1>9 DEF SystemInv, Agreement, ResultFits, SessionStill
  <2>3. QED
    BY <2>1, <2>2 DEF ResultFits
<1>18. Agreement'
  BY <1>11, <1>13, <1>14, <1>15, <1>16, <1>17 DEF Agreement
<1>19. RepliesTrue' /\ SessionTypes' /\ SessionFits'
  BY <1>7, RepliesStay, SessionStays
<1>20. QED
  BY <1>4, <1>5, <1>6, <1>18, <1>19 DEF SystemInv, Basics

LEMMA SendFailsInv ==
  ASSUME SystemInv, SessionStill, heard' = Heard, C!SendFails,
         UNCHANGED <<link, toServer, toClient>>
  PROVE  SystemInv'
<1>1. CASE pc = "chunk" /\ cancel /\ C!CancelUpload("Cancelled")
  BY <1>1, TornInv
<1>2. CASE pc = "cancel" /\ C!CancelOver
  BY <1>2, CancelOverInv DEF Taken
<1>3. CASE pc = "bye" /\ pc' = "close" /\ out' = << >> /\ UNCHANGED <<snap, job>>
  <2>1. pc' \in Over /\ pc' \in Rests
    BY <1>3 DEF Over, Rests
  <2>2. job' \in Jobs /\ toServer' \in Seq(Toks) /\ snap' \in Snaps
    BY <1>3 DEF SystemInv, Basics, ClientTypes
  <2>3. QED
    BY <1>3, <2>1, <2>2, LeavesInv
<1>4. CASE C!Fail /\ job' = job
  BY <1>4, FailInv
<1>5. QED
  BY <1>1, <1>2, <1>3, <1>4 DEF C!SendFails

\* What does not get sent, and every deadline.
LEMMA LostInv ==
  ASSUME SystemInv, SessionStill, heard' = Heard, C!SendLost \/ C!TimeOut
  PROVE  SystemInv'
<1>1. CASE C!SendFails /\ UNCHANGED <<link, toServer, toClient>>
  BY <1>1, SendFailsInv
<1>2. CASE C!Fail /\ job' = job /\ toServer' = toServer
  BY <1>2, FailInv
<1>3. CASE pc = "cancelAck" /\ C!TimeOut
  BY <1>3, AfterCancelInv
<1>4. QED
  BY <1>1, <1>2, <1>3 DEF C!SendLost, C!TimeOut, C!Worker, C!netVars

\* What send() takes, and where the worker is then.
LEMMA SendTakes ==
  ASSUME SystemInv, C!SendToken
  PROVE  /\ pc \in C!Senders /\ out \in Seq(Toks) /\ out # << >> /\ Head(out) \in Toks
         /\ out' = Tail(out) /\ Tail(out) \in Seq(Toks)
         /\ link' = link /\ toClient' = toClient
         /\ \/ link = "up" /\ toServer' = Append(toServer, Head(out))
            \/ link = "cut" /\ toServer' = toServer
         /\ toServer' \in Seq(Toks)
         /\ job' \in Jobs /\ job'.id = job.id /\ job'.size = job.size /\ job'.body = job.body
         /\ snap' \in Snaps /\ snap'.csv = snap.csv
         /\ snap'.phase = IF pc = "end" THEN "WaitingAnalysis" ELSE snap.phase
<1>1. job \in Jobs /\ snap \in Snaps /\ out \in Seq(Toks) /\ toServer \in Seq(Toks)
  BY DEF SystemInv, Basics, ClientTypes
<1>2. /\ pc \in C!Senders /\ out # << >> /\ out' = Tail(out)
      /\ link' = link /\ toClient' = toClient
      /\ \/ link = "up" /\ toServer' = Append(toServer, Head(out))
         \/ link = "cut" /\ toServer' = toServer
      /\ job' = [job EXCEPT !.sent = IF Head(out).type = "DATA" THEN @ + 1 ELSE @]
      /\ IF pc = "end" THEN C!SetPhase("WaitingAnalysis") ELSE snap' = snap
  BY DEF C!SendToken
<1>3. Head(out) \in Toks /\ Tail(out) \in Seq(Toks)
  BY <1>1, <1>2, HeadTailProperties
<1>4. toServer' \in Seq(Toks)
  <2>1. toServer \in Seq(Toks) /\ Head(out) \in Toks
    BY <1>1, <1>3
  <2>2. Append(toServer, Head(out)) \in Seq(Toks)
    BY <2>1, AppendProperties
  <2>3. QED
    BY <1>1, <1>2, <2>2
<1>5. job' \in Jobs /\ job'.id = job.id /\ job'.size = job.size /\ job'.body = job.body
  <2>1. job \in Jobs /\ job.sent \in Int
    BY <1>1 DEF Jobs
  <2> DEFINE n == IF Head(out).type = "DATA" THEN job.sent + 1 ELSE job.sent
  <2>2. job' = [job EXCEPT !.sent = n] /\ n \in Int
    BY <1>2, <2>1
  <2> HIDE DEF n
  <2>3. QED
    BY <2>1, <2>2 DEF Jobs
<1>6. /\ snap' \in Snaps /\ snap'.csv = snap.csv
      /\ snap'.phase = IF pc = "end" THEN "WaitingAnalysis" ELSE snap.phase
  <2>1. CASE pc = "end"
    BY <1>2, <2>1, PhaseSet DEF Phases, C!TransferPhases
  <2>2. CASE pc # "end"
    BY <1>1, <1>2, <2>2
  <2>3. QED
    BY <2>1, <2>2
<1>7. QED
  BY <1>1, <1>2, <1>3, <1>4, <1>5, <1>6

\* Outside a chunk it is the only token of the buffer.
LEMMA SendsOne ==
  ASSUME SystemInv, C!SendToken, pc # "chunk"
  PROVE  /\ pc' = C!AfterSend[pc] /\ out' = << >>
         /\ Head(out).type # "DATA" /\ Head(out).type # "UPLOAD_CHUNK"
         /\ Head(out).type = "UPLOAD_BEGIN" <=> pc = "begin"
         /\ pc = "begin" => Head(out).arg = job.size
         /\ pc = "cancel" => Head(out).type = "CANCEL"
<1>1. pc \in C!Senders
  BY SendTakes
<1>2. PICK x \in Toks : /\ out = <<x>>
                        /\ x.type = [hello |-> "HELLO", begin |-> "UPLOAD_BEGIN",
                                     end |-> "UPLOAD_END", cancel |-> "CANCEL",
                                     bye |-> "BYE"][pc]
                        /\ pc = "begin" => x.arg = job.size
  <2>1. CASE pc = "hello"
    BY <2>1 DEF SystemInv, Basics, OutFits, Token, Toks
  <2>2. CASE pc = "begin"
    <3>1. job.size \in Nat
      BY DEF SystemInv, Basics, ClientTypes, Jobs
    <3>2. QED
      BY <2>2, <3>1 DEF SystemInv, Basics, OutFits, Token, Toks
  <2>3. CASE pc = "end"
    BY <2>3 DEF SystemInv, Basics, OutFits, Token, Toks
  <2>4. CASE pc = "cancel"
    BY <2>4 DEF SystemInv, Basics, OutFits, Token, Toks
  <2>5. CASE pc = "bye"
    BY <2>5 DEF SystemInv, Basics, OutFits, Token, Toks
  <2>6. QED
    BY <1>1, <2>1, <2>2, <2>3, <2>4, <2>5 DEF C!Senders
<1>3. Len(out) = 1 /\ Head(out) = x /\ Tail(out) = << >>
  BY <1>2
<1>4. pc' = C!AfterSend[pc] /\ out' = << >>
  BY <1>3 DEF C!SendToken
<1>5. QED
  BY <1>1, <1>2, <1>3, <1>4 DEF C!Senders

\* Inside one it is the header or data of the file, and the next is data.
LEMMA SendsPart ==
  ASSUME SystemInv, C!SendToken, pc = "chunk"
  PROVE  /\ pc' \in {"chunk", "drain"}
         /\ pc' = "drain" <=> out' = << >>
         /\ \A i \in 1 .. Len(out') : out'[i] = Own
         /\ Head(out).type \in {"DATA", "UPLOAD_CHUNK"}
<1>1. out \in Seq(Toks) /\ out # << >> /\ out' = Tail(out)
  BY SendTakes
<1>2. Len(out) \in Nat \ {0} /\ Head(out) = out[1]
  BY <1>1, EmptySeq
<1>3. /\ Len(out') = Len(out) - 1 /\ out' \in Seq(Toks)
      /\ \A i \in 1 .. Len(out') : out'[i] = out[i + 1]
  BY <1>1, HeadTailProperties
<1>4. pc' = IF Len(out) = 1 THEN "drain" ELSE "chunk"
  BY DEF C!SendToken, C!AfterSend
<1>5. out' = << >> <=> Len(out) = 1
  BY <1>2, <1>3, EmptySeq
<1>6. \A i \in 1 .. Len(out') : i + 1 \in 2 .. Len(out)
  BY <1>2, <1>3
<1>7. /\ \A i \in 2 .. Len(out) : out[i] = Own
      /\ out[1] = Own \/ out[1] = Token("UPLOAD_CHUNK", Len(out) - 1)
  BY DEF SystemInv, Basics, OutFits
<1>8. \A i \in 1 .. Len(out') : out'[i] = Own
  BY <1>3, <1>6, <1>7
<1>9. Head(out).type \in {"DATA", "UPLOAD_CHUNK"}
  BY <1>2, <1>7 DEF Own, Token
<1>10. QED
  BY <1>4, <1>5, <1>8, <1>9

\* What has been sent of a chunk, and what is left of it, make up the same
\* stream; another token is put behind.
LEMMA SendAsks ==
  ASSUME SystemInv, SessionStill, C!SendToken, link = "up"
  PROVE  /\ Asked' = Append(Asked, Head(out))
         /\ pc = "chunk" => Stream' = Stream
         /\ pc # "chunk" => Stream' = Append(Asked, Head(out))
<1> DEFINE x == Head(out)
<1>1. /\ readBuf \in Seq(Toks) /\ toServer \in Seq(Toks) /\ Asked \in Seq(Toks)
      /\ x \in Toks /\ out \in Seq(Toks) /\ out # << >> /\ out' = Tail(out)
      /\ toServer' = Append(toServer, x)
  BY AskedType, SendTakes
<1> DEFINE h == <<x>>
<1>2. h \in Seq(Toks) /\ Append(toServer, x) = toServer \o h /\ Append(Asked, x) = Asked \o h
  BY <1>1, AppendIsConcat
<1> HIDE DEF x, h
<1>3. readBuf \o (toServer \o h) = (readBuf \o toServer) \o h
  <2>1. readBuf \in Seq(Toks) /\ toServer \in Seq(Toks) /\ h \in Seq(Toks)
    BY <1>1, <1>2
  <2>2. QED
    BY <2>1, TokensAssoc, Zenon
<1>4. Asked' = Append(Asked, x)
  BY <1>1, <1>2, <1>3 DEF Asked, SessionStill
<1>5. Append(Asked, x) \in Seq(Toks)
  BY <1>1, AppendProperties
<1>6. ASSUME pc = "chunk"  PROVE Stream' = Stream
  <2>1. Append(Asked, x) \o Tail(out) = Asked \o out
    BY <1>1, MoveFirst DEF x
  <2>2. pc' \in {"chunk", "drain"} /\ (pc' = "drain" <=> out' = << >>)
    BY <1>6, SendsPart
  <2>3. Stream' = Asked' \o out'
    BY <2>2 DEF Stream
  <2>4. QED
    BY <1>1, <1>4, <1>6, <2>1, <2>3 DEF Stream
<1>7. ASSUME pc # "chunk"  PROVE Stream' = Append(Asked, x)
  <2>1. pc' # "chunk"
    BY <1>7, SendsOne, SendTakes DEF C!Senders, C!AfterSend
  <2>2. Stream' = Asked' \o << >>
    BY <2>1 DEF Stream
  <2>3. QED
    BY <1>4, <1>5, <2>2, ConcatEmptySeq
<1>8. QED
  BY <1>4, <1>6, <1>7 DEF x

LEMMA SendTokenAgrees ==
  ASSUME SystemInv, SessionStill, heard' = Heard, C!SendToken, pc # "bye"
  PROVE  Agreement' /\ RepliesTrue'
<1> DEFINE x == Head(out)
<1>1. /\ pc \in {"hello", "begin", "chunk", "end", "cancel"}
      /\ pc' \in {"helloAck", "beginAck", "chunk", "drain", "await", "cancelAck"}
      /\ pc' = "helloAck" <=> pc = "hello"
      /\ pc' = "beginAck" <=> pc = "begin"
      /\ pc' \in {"chunk", "drain"} <=> pc = "chunk"
      /\ pc' = "await" <=> pc = "end"
      /\ pc' = "cancelAck" <=> pc = "cancel"
  <2>1. pc \in C!Senders
    BY SendTakes
  <2>2. CASE pc = "chunk"
    BY <2>2, SendsPart
  <2>3. CASE pc # "chunk"
    <3>1. pc' = C!AfterSend[pc]
      BY <2>3, SendsOne
    <3>2. QED
      BY <2>1, <2>3, <3>1 DEF C!Senders, C!AfterSend
  <2>4. QED
    BY <2>2, <2>3
<1>2. /\ x \in Toks /\ link' = link /\ toClient' = toClient
      /\ link = "up" \/ link = "cut"
      /\ job'.id = job.id /\ job'.size = job.size
  BY SendTakes
<1>3. /\ Live /\ Live' /\ pc # "beginAck" /\ heard' = heard
      /\ pc' \in Open <=> pc \in Open
      /\ pc' \in Early <=> pc \in Early
      /\ Cancelled' => pc = "cancel"
  BY <1>1 DEF Live, Over, Open, Early, Cancelled, Heard
<1>4. Frames' = Frames /\ Unsent' = Unsent /\ Acked' = Acked /\ ~Acked
  BY <1>2, <1>3, FramesStay DEF SystemInv, Agreement, AckFits
<1>5. OwnFile' = OwnFile /\ Own' = Own
  BY <1>2, OwnStays
<1>6. AckFits'
  BY <1>3, <1>4 DEF SystemInv, Agreement, AckFits
<1>7. Meets' => Meets /\ link = "up"
  BY <1>2, <1>3 DEF Meets
<1>8. UNCHANGED <<state, decoder, tcp, declared, content, results>>
  BY DEF SessionStill
<1>9. GreetingFits'
  BY <1>3, <1>4, <1>7, <1>8 DEF SystemInv, Agreement, GreetingFits
<1>10. ResultFits'
  <2>1. Meets' /\ state' = "Uploading" /\ ~Acked' => ~Has(Frames', "RESULT_CHUNK")
    BY <1>4, <1>7, <1>8 DEF SystemInv, Agreement, ResultFits
  <2>2. Meets' /\ tcp' = "open" => OneResult(results', Kinds(Unsent'))
    BY <1>4, <1>7, <1>8 DEF SystemInv, Agreement, ResultFits
  <2>3. QED
    BY <2>1, <2>2 DEF ResultFits
<1>11. ResultTrue'
  BY <1>2, <1>3, <1>5, <1>8 DEF SystemInv, Agreement, ResultTrue
<1>12. ASSUME Meets'
       PROVE  BeginFits' /\ FramingFits' /\ ContentFits' /\ CancelFits'
  <2>1. /\ Asked' = Append(Asked, x)
        /\ pc = "chunk" => Stream' = Stream
        /\ pc # "chunk" => Stream' = Append(Asked, x)
    BY <1>7, <1>12, SendAsks
  <2>2. /\ Asked \in Seq(Toks) /\ LeftOf(decoder) \in Nat /\ (pc # "chunk" => Stream = Asked)
    BY AskedType
  <2>3. ~Carries(Asked, "UPLOAD_BEGIN") /\ decoder.type # "UPLOAD_BEGIN"
    BY <1>3, <1>7, <1>12 DEF SystemInv, Agreement, BeginFits
  <2>4. /\ x.type = "UPLOAD_BEGIN" <=> pc = "begin"
        /\ pc = "begin" => x.arg = job.size
        /\ pc = "cancel" => x.type = "CANCEL"
        /\ pc # "chunk" => x.type \notin {"DATA", "UPLOAD_CHUNK"}
    <3>1. CASE pc = "chunk"
      BY <3>1, SendsPart
    <3>2. CASE pc # "chunk"
      BY <3>2, SendsOne
    <3>3. QED
      BY <3>1, <3>2
  <2> HIDE DEF x
  <2>5. \A kind : Carries(Append(Asked, x), kind) <=> Carries(Asked, kind) \/ x.type = kind
    BY <1>2, <2>2, CarriesAppend
  <2>6. BeginLast(Append(Asked, x), job.size)
    BY <1>2, <2>2, <2>3, <2>4, BeginLastAppend
  <2>7. pc' # "beginAck" => ~Carries(Asked', "UPLOAD_BEGIN")
    BY <1>1, <2>1, <2>3, <2>4, <2>5
  <2>8. BeginFits'
    BY <1>2, <1>4, <1>8, <2>1, <2>3, <2>6, <2>7 DEF BeginFits
  <2>9. CancelFits'
    <3>1. Cancelled' => Carries(Asked', "CANCEL")
      BY <1>3, <2>1, <2>4, <2>5
    <3>2. QED
      BY <3>1 DEF CancelFits
  <2>10. ASSUME pc # "chunk", NEW n \in Nat, Framed(Asked, n)
         PROVE  Framed(Append(Asked, x), n)
    <3> DEFINE h == <<x>>
    <3>1. h \in Seq(Toks) /\ Framed(h, 0) /\ Append(Asked, x) = Asked \o h
      BY <1>2, <2>2, <2>4, <2>10, FramedOne, AppendIsConcat
    <3> HIDE DEF h
    <3>2. Framed(Asked \o h, n)
      BY <2>2, <2>10, <3>1, FramedConcat
    <3>3. QED
      BY <3>1, <3>2
  <2>11. ASSUME pc # "chunk", DataIs(Asked, Own)
         PROVE  DataIs(Append(Asked, x), Own)
    <3> DEFINE h == <<x>>
    <3>1. h \in Seq(Toks) /\ DataIs(h, Own) /\ Append(Asked, x) = Asked \o h
      BY <1>2, <2>2, <2>4, <2>11, AppendIsConcat DEF DataIs
    <3> HIDE DEF h
    <3>2. DataIs(Asked \o h, Own)
      BY <2>2, <2>11, <3>1, DataIsConcat
    <3>3. QED
      BY <3>1, <3>2
  <2>12. Current' => Current
    BY <1>3, <1>4 DEF Current
  <2>13. FramingFits'
    <3> SUFFICES ASSUME state' = "Uploading", Current' \/ heard' = "yes"
                 PROVE  Framed(Stream', LeftOf(decoder')) /\ decoder'.phase # "Failed"
      BY DEF FramingFits
    <3>1. Framed(Stream, LeftOf(decoder)) /\ decoder.phase # "Failed"
      BY <1>3, <1>7, <1>8, <1>12, <2>12 DEF SystemInv, Agreement, FramingFits
    <3>2. CASE pc = "chunk"
      BY <1>8, <2>1, <3>1, <3>2
    <3>3. CASE pc # "chunk"
      BY <1>8, <2>1, <2>2, <2>10, <3>1, <3>3
    <3>4. QED
      BY <3>2, <3>3
  <2>14. ContentFits'
    <3> SUFFICES ASSUME state' = "Uploading", Current'
                 PROVE  declared' = job'.size /\ DataIs(Stream', Own') /\ AllAre(content', Own')
      BY DEF ContentFits
    <3>1. declared = job.size /\ DataIs(Stream, Own) /\ AllAre(content, Own)
      BY <1>7, <1>8, <1>12, <2>12 DEF SystemInv, Agreement, ContentFits
    <3>2. DataIs(Stream', Own)
      BY <2>1, <2>2, <2>11, <3>1
    <3>3. QED
      BY <1>2, <1>5, <1>8, <3>1, <3>2
  <2>15. QED
    BY <2>8, <2>9, <2>13, <2>14
<1>13. BeginFits' /\ FramingFits' /\ ContentFits' /\ CancelFits'
  <2>1. CASE Meets'
    BY <1>12, <2>1
  <2>2. CASE ~Meets'
    BY <2>2 DEF BeginFits, FramingFits, ContentFits, CancelFits
  <2>3. QED
    BY <2>1, <2>2
<1>14. Agreement'
  BY <1>6, <1>9, <1>10, <1>11, <1>13 DEF Agreement
<1>15. RepliesTrue'
  BY <1>2, <1>3, RepliesStay
<1>16. QED
  BY <1>14, <1>15

LEMMA SendTokenInv ==
  ASSUME SystemInv, SessionStill, heard' = Heard, C!SendToken
  PROVE  SystemInv'
<1>1. /\ pc \in C!Senders /\ out \in Seq(Toks) /\ out # << >>
      /\ out' = Tail(out) /\ Tail(out) \in Seq(Toks) /\ toServer' \in Seq(Toks)
      /\ job' \in Jobs /\ job'.id = job.id /\ job'.size = job.size /\ job'.body = job.body
      /\ snap' \in Snaps /\ snap'.csv = snap.csv
      /\ snap'.phase = IF pc = "end" THEN "WaitingAnalysis" ELSE snap.phase
  BY SendTakes
<1>2. CASE pc = "bye"
  <2>1. pc' = "close" /\ out' = << >>
    BY <1>2, SendsOne DEF C!AfterSend
  <2>2. pc' \in Over /\ pc' \in Rests
    BY <2>1 DEF Over, Rests
  <2>3. QED
    BY <1>1, <1>2, <2>1, <2>2, LeavesInv
<1>3. CASE pc # "bye"
  <2>1. Agreement' /\ RepliesTrue'
    BY <1>3, SendTokenAgrees
  <2>2. SessionTypes' /\ SessionFits'
    BY SessionStays
  <2>3. ClientTypes'
    BY <1>1 DEF ClientTypes
  <2>4. OwnFile' = OwnFile /\ Own' = Own
    BY <1>1, OwnStays
  <2>5. OutFits' /\ PhaseFits'
    <3>1. snap.phase \notin {"Done", "Cancelled"}
      BY <1>1, <1>3 DEF SystemInv, Basics, PhaseFits, C!Senders, Rests
    <3>2. CASE pc = "chunk"
      <4>1. /\ pc' \in {"chunk", "drain"} /\ (pc' = "drain" <=> out' = << >>)
            /\ \A i \in 1 .. Len(out') : out'[i] = Own
        BY <3>2, SendsPart
      <4>2. out' # << >> => 1 \in 1 .. Len(out')
        BY <1>1, EmptySeq
      <4>3. \A i \in 2 .. Len(out') : i \in 1 .. Len(out')
        BY <1>1
      <4>4. OutFits'
        <5>1. pc' = "chunk" => /\ out' # << >>
                               /\ \A i \in 2 .. Len(out') : out'[i] = Own'
                               /\ out'[1] = Own'
          BY <2>4, <4>1, <4>2, <4>3
        <5>2. QED
          BY <4>1, <5>1 DEF OutFits, C!Senders
      <4>5. PhaseFits'
        BY <1>1, <3>1, <3>2, <4>1 DEF SystemInv, Basics, PhaseFits, Open, Rests
      <4>6. QED
        BY <4>4, <4>5
    <3>3. CASE pc # "chunk"
      <4>1. pc' = C!AfterSend[pc] /\ out' = << >>
        BY <3>3, SendsOne
      <4>2. /\ pc \in {"hello", "begin", "end", "cancel"}
            /\ pc' \in {"helloAck", "beginAck", "await", "cancelAck"}
            /\ pc' = "beginAck" <=> pc = "begin"
            /\ pc' = "await" <=> pc = "end"
        BY <1>1, <1>3, <3>3, <4>1 DEF C!Senders, C!AfterSend
      <4>3. OutFits'
        BY <4>1, <4>2 DEF OutFits
      <4>4. PhaseFits'
        BY <1>1, <3>1, <4>2 DEF SystemInv, Basics, PhaseFits, Open, Rests
      <4>5. QED
        BY <4>3, <4>4
    <3>4. QED
      BY <3>2, <3>3
  <2>6. QED
    BY <2>1, <2>2, <2>3, <2>5 DEF SystemInv, Basics
<1>4. QED
  BY <1>2, <1>3

-----------------------------------------------------------------------------
(* The upload is acknowledged.                                             *)

LEMMA AckLastHead ==
  ASSUME NEW s \in Seq(FrameNames), s # << >>, AckLast(s), Head(s) = "UPLOAD_BEGIN_ACK"
  PROVE  ~Has(Tail(s), "UPLOAD_BEGIN_ACK") /\ ~Has(Tail(s), "RESULT_CHUNK")
<1> DEFINE t == Tail(s)
<1>1. Len(s) \in Nat \ {0} /\ s[1] = "UPLOAD_BEGIN_ACK" /\ 1 \in 1 .. Len(s)
  BY EmptySeq
<1>2. Len(t) = Len(s) - 1 /\ \A i \in 1 .. Len(t) : t[i] = s[i + 1]
  BY HeadTailProperties
<1> HIDE DEF t
<1>3. \A i \in 1 .. Len(t) : i + 1 \in 1 .. Len(s) /\ 1 < i + 1
  BY <1>1, <1>2
<1>4. \A i \in 1 .. Len(t) : t[i] # "UPLOAD_BEGIN_ACK" /\ t[i] # "RESULT_CHUNK"
  BY <1>1, <1>2, <1>3 DEF AckLast
<1>5. QED
  BY <1>4 DEF Has, t

LEMMA TakeBeginAckInv ==
  ASSUME SystemInv, SessionStill, heard' = Heard, C!TakeBeginAck
  PROVE  SystemInv'
<1>1. PICK f : C!Takes("beginAck", f) /\ C!SetPhase("Uploading") /\ pc' = "open" /\ job' = job
  BY DEF C!TakeBeginAck
<1>2. pc = "beginAck" /\ Live /\ Live' /\ pc' \in Open /\ ~Cancelled' /\ heard' = heard
      /\ pc \notin Early
  BY <1>1 DEF C!Takes, C!Reads, C!Worker, Live, Over, Open, Cancelled, Heard, Early
<1>3. /\ out' = out /\ toServer' = toServer /\ link' = link /\ f \in Arrivals
      /\ toClient # << >> /\ toClient' = Tail(toClient) /\ Head(Frames) = f.type
      /\ Frames # << >> /\ toClient \in Seq(Arrivals) /\ Unsent \in Seq(Replies)
  BY <1>1, <1>2, ReadTakes
<1>4. f.type = "UPLOAD_BEGIN_ACK"
  BY <1>1, <1>2 DEF C!Takes, C!Accepts, C!Waiting, C!Wanted
<1>5. Frames \in Seq(FrameNames)
  BY <1>3, FramesType DEF Frames
<1>6. Acked
  <2>1. Has(Frames, "UPLOAD_BEGIN_ACK")
    BY <1>3, <1>4, <1>5, HasTail
  <2>2. QED
    BY <2>1 DEF Acked
<1>7. Unsent' = Unsent
  BY DEF Unsent, SessionStill
<1>8. Frames' = Tail(Frames)
  <2>1. Frames' = FramesOf(Tail(toClient), Unsent, link)
    BY <1>3, <1>7 DEF Frames
  <2>2. QED
    BY <1>3, <2>1, FramesRead DEF Frames
<1>9. /\ ~Has(Frames', "UPLOAD_BEGIN_ACK") /\ ~Has(Frames', "RESULT_CHUNK")
      /\ AckLast(Frames')
  <2>1. AckLast(Frames)
    BY <1>2 DEF SystemInv, Agreement, AckFits
  <2> DEFINE s == Frames
  <2>2. s \in Seq(FrameNames) /\ s # << >> /\ AckLast(s) /\ Head(s) = "UPLOAD_BEGIN_ACK"
    BY <1>3, <1>4, <1>5, <2>1
  <2>3. Frames' = Tail(s)
    BY <1>8
  <2> HIDE DEF s
  <2>4. QED
    BY <2>2, <2>3, AckLastHead, AckLastTail
<1>10. ~Acked' /\ Current
  BY <1>6, <1>9 DEF Acked, Current
<1>11. AckFits'
  BY <1>9, <1>10 DEF AckFits
<1>12. UNCHANGED <<state, decoder, tcp, declared, content, results>> /\ (Meets' => Meets)
  BY <1>2, <1>3 DEF SessionStill, Meets
<1>13. Asked' = Asked /\ Stream' = Stream
  BY <1>1, <1>2, <1>3, StreamStays DEF SessionStill
<1>14. Meets => Asked = << >> /\ decoder.phase = "Header" /\ decoder.type = "NONE"
  BY <1>6 DEF SystemInv, Basics, SessionFits, Agreement, BeginFits
<1>15. BeginFits'
  <2>1. Meets' => ~Carries(Asked', "UPLOAD_BEGIN") /\ decoder'.type # "UPLOAD_BEGIN"
    BY <1>12, <1>13, <1>14, CarriesNone
  <2>2. Meets' => BeginLast(Asked', job'.size)
    BY <2>1, NoBegin
  <2>3. QED
    BY <1>10, <2>1, <2>2 DEF BeginFits
<1>16. GreetingFits'
  BY <1>2, <1>12 DEF SystemInv, Agreement, GreetingFits
<1>17. OwnFile' = OwnFile /\ Own' = Own
  BY <1>1, OwnStays
<1>18. FramingFits' /\ ContentFits'
  BY <1>1, <1>10, <1>12, <1>13, <1>17 DEF SystemInv, Agreement, FramingFits, ContentFits
<1>19. ResultFits'
  <2>1. Meets' /\ tcp' = "open" => OneResult(results', Kinds(Unsent'))
    BY <1>7, <1>12 DEF SystemInv, Agreement, ResultFits
  <2>2. QED
    BY <1>9, <2>1 DEF ResultFits
<1>20. ResultTrue'
  <2>1. toClient' \in Seq(Arrivals) /\ Unsent' \in Seq(Replies)
    BY <1>3, <1>7, HeadTailProperties
  <2> DEFINE r == toClient'
             u == Unsent'
             k == Kinds(r)
             l == Kinds(u)
             e == << >>
  <2>2. k \in Seq(FrameNames) /\ l \in Seq(FrameNames) /\ e \in Seq(FrameNames)
    BY <2>1, FramesType, EmptySeq
  <2>3. Frames' = k \o (IF link' = "cut" THEN e ELSE l)
    BY DEF Frames, FramesOf
  <2>4. r \in Seq(Arrivals) /\ u \in Seq(Replies)
    BY <2>1
  <2> HIDE DEF k, l, e
  <2>5. \A x : Has(k \o l, x) <=> Has(k, x) \/ Has(l, x)
    BY <2>2, HasConcat
  <2>6. \A x : Has(k \o e, x) <=> Has(k, x) \/ Has(e, x)
    BY <2>2, HasConcat
  <2>7. ~Has(k, "RESULT_CHUNK") /\ (link' # "cut" => ~Has(l, "RESULT_CHUNK"))
    BY <1>9, <2>3, <2>5, <2>6
  <2>8. ResultsAre(r, OwnFile)
    <3>1. ~Has(Kinds(r), "RESULT_CHUNK")
      BY <2>7 DEF k
    <3> HIDE DEF r
    <3>2. QED
      BY <2>4, <3>1, NoResults
  <2>9. link' # "cut" /\ tcp' = "open" => AllAre(results', OwnFile)
    <3> SUFFICES ASSUME link' # "cut", tcp' = "open"  PROVE AllAre(results', OwnFile)
      OBVIOUS
    <3>1. Meets'
      BY <1>2 DEF Meets
    <3>2. OneResult(results', Kinds(Unsent'))
      BY <1>19, <3>1 DEF ResultFits
    <3>3. results' = << >>
      BY <2>7, <3>2 DEF OneResult, l
    <3>4. QED
      BY <3>3 DEF AllAre
  <2>10. ResultsAre(toClient', OwnFile')
    BY <1>17, <2>8
  <2>11. QED
    BY <1>17, <2>9, <2>10 DEF ResultTrue
<1>21. CancelFits'
  BY <1>2 DEF CancelFits
<1>22. Agreement'
  BY <1>11, <1>15, <1>16, <1>18, <1>19, <1>20, <1>21 DEF Agreement
<1>23. RepliesTrue'
  <2>1. Taken
    BY <1>3 DEF Taken
  <2>2. QED
    BY <1>2, <2>1, TakenReplies DEF RepliesTrue
<1>24. snap' \in Snaps /\ snap'.phase = "Uploading" /\ snap'.csv = snap.csv
  BY <1>1, PhaseSet DEF Phases, C!TransferPhases
<1>25. ClientTypes'
  BY <1>1, <1>3, <1>24 DEF SystemInv, Basics, ClientTypes
<1>26. OutFits'
  <2>1. out' = << >>
    BY <1>2, <1>3 DEF SystemInv, Basics, OutFits, C!Senders
  <2>2. QED
    BY <1>1, <2>1 DEF OutFits
<1>27. PhaseFits'
  BY <1>1, <1>2, <1>24 DEF SystemInv, Basics, PhaseFits, Open, Rests
<1>28. QED
  BY <1>22, <1>23, <1>25, <1>26, <1>27, SessionStays DEF SystemInv, Basics

-----------------------------------------------------------------------------
(* The steps of the client, together.                                      *)

LEMMA ClickInv ==
  ASSUME SystemInv, SessionStill, heard' = Heard,
         \/ C!Draw \/ C!ClickDisconnect \/ C!ClickUpload \/ C!PushUpload \/ C!ClickCancel
  PROVE  SystemInv'
<1>1. ClientStays
  BY DEF C!Draw, C!ClickDisconnect, C!ClickUpload, C!PushUpload, C!ClickCancel,
         C!workerVars, C!netVars, ClientStays
<1>2. QED
  BY <1>1, StaysInv

LEMMA WorkInv ==
  ASSUME SystemInv, SessionStill, heard' = Heard, C!Work
  PROVE  SystemInv'
<1>1. CASE C!Session
  <2>1. CASE C!Start
    BY <2>1, StartInv
  <2>2. CASE C!Connected
    BY <2>2, ConnectedInv
  <2>3. CASE C!ConnectFails \/ C!CloseSocket \/ C!ShowClosed \/ C!EndSession \/ C!DestroySocket
    BY <2>3, EndsInv
  <2>4. CASE C!TakeHelloAck
    BY <2>4, TakeHelloAckInv
  <2>5. CASE C!TakeDisconnect
    BY <2>5, TakeDisconnectInv
  <2>6. CASE C!TakeUpload
    BY <2>6, TakeUploadInv
  <2>7. CASE C!IdleSlice \/ C!IdleDone
    BY <2>7, IdleInv
  <2>8. CASE C!TakeIdle
    BY <2>8, TakeAnyInv
  <2>9. QED
    BY <1>1, <2>1, <2>2, <2>3, <2>4, <2>5, <2>6, <2>7, <2>8 DEF C!Session
<1>2. CASE C!Upload
  <2>1. CASE C!FileMissing
    BY <2>1, FileMissingInv
  <2>2. CASE C!BeginUpload
    BY <2>2, BeginUploadInv
  <2>3. CASE C!TakeBeginAck
    BY <2>3, TakeBeginAckInv
  <2>4. CASE C!OpenFails \/ C!ResultTooLarge
    BY <2>4, EndsInv
  <2>5. CASE C!OpenFile \/ C!DrainDone \/ C!Await
    BY <2>5, GoesOnInv
  <2>6. CASE C!CancelSeen \/ C!FileEnds
    BY <2>6, CancelSeenInv
  <2>7. CASE C!SendChunk
    BY <2>7, SendChunkInv
  <2>8. CASE C!TakeAck
    BY <2>8, TakeAnyInv
  <2>9. CASE C!FileSent
    BY <2>9, FileSentInv
  <2>10. CASE C!TakeAwaited
    BY <2>10, TakeAwaitedInv
  <2>11. CASE C!TakeResultBegin
    BY <2>11, TakeResultBeginInv
  <2>12. CASE C!TakeResult
    BY <2>12, TakeResultInv
  <2>13. CASE C!UploadDone
    BY <2>13, UploadDoneInv
  <2>14. CASE C!TakeWhileCancelling \/ C!CancelUnanswered
    BY <2>14, AfterCancelInv
  <2>15. QED
    BY <1>2, <2>1, <2>2, <2>3, <2>4, <2>5, <2>6, <2>7, <2>8, <2>9, <2>10, <2>11, <2>12,
       <2>13, <2>14 DEF C!Upload
<1>3. CASE C!SendToken
  BY <1>3, SendTokenInv
<1>4. CASE C!SendLost
  BY <1>4, LostInv
<1>5. CASE C!ReadLost \/ C!ReadRefused
  BY <1>5, EndsInv
<1>6. QED
  BY <1>1, <1>2, <1>3, <1>4, <1>5 DEF C!Work

LEMMA ClientRunsInv ==
  ASSUME SystemInv, ClientRuns \/ ClientWorks \/ ClientTroubled
  PROVE  SystemInv'
<1>1. /\ SessionStill /\ heard' = Heard
      /\ \/ C!Draw \/ C!ClickDisconnect \/ C!ClickUpload \/ C!PushUpload
         \/ Healthy
         \/ C!ClickCancel \/ C!ConnectFails \/ C!FileMissing \/ C!OpenFails
         \/ C!FileEnds \/ C!TimeOut
  BY DEF ClientRuns, ClientWorks, ClientTroubled, ClientStep, SessionStill, sessionVars,
         vars, uploadVars, writeVars, lifeVars, callVars
<1>2. CASE C!Draw \/ C!ClickDisconnect \/ C!ClickUpload \/ C!PushUpload \/ C!ClickCancel
  BY <1>1, <1>2, ClickInv
<1>3. CASE Healthy
  BY <1>1, <1>3, WorkInv DEF Healthy
<1>4. CASE C!ConnectFails \/ C!OpenFails
  BY <1>1, <1>4, EndsInv
<1>5. CASE C!FileMissing
  BY <1>1, <1>5, FileMissingInv
<1>6. CASE C!FileEnds
  BY <1>1, <1>6, CancelSeenInv
<1>7. CASE C!TimeOut
  BY <1>1, <1>7, LostInv
<1>8. QED
  BY <1>1, <1>2, <1>3, <1>4, <1>5, <1>6, <1>7

-----------------------------------------------------------------------------
(* A connection begins.                                                    *)

\* Neither end has done anything.
Begins ==
  /\ Init
  /\ link = "none" /\ toServer = << >> /\ toClient = << >>
  /\ snap = C!Fresh /\ pc \in {"none", "start"} /\ out = << >> /\ job \in Jobs
  /\ content = << >> /\ results = << >>

LEMMA BeginsInv == Begins => SystemInv
<1> SUFFICES ASSUME Begins  PROVE SystemInv
  OBVIOUS
<1>1. /\ state \in {"AwaitHello", "Closing"} /\ (state = "Closing" => tcp # "open")
      /\ writes \in {<< >>, <<Error("ServerBusy")>>}
      /\ flushed = 0 /\ readBuf = << >> /\ decoder = NoFrame
      /\ declared = 0 /\ received = 0 /\ fed = 0
  BY DEF Begins, Init, Started, Rejected, AcceptFailed
<1>2. << >> \in Seq(Toks) /\ << >> \in Seq(Files) /\ << >> \in Seq(Arrivals)
      /\ << >> \in Seq(Replies) /\ Len(<< >>) = 0
  BY EmptySeq
<1>3. ClientTypes
  BY <1>2 DEF Begins, ClientTypes, Snaps, C!Fresh, Phases
<1>4. RepliesTrue
  BY <1>2 DEF Begins, RepliesTrue
<1>5. OutFits
  BY DEF Begins, OutFits
<1>6. PhaseFits
  BY DEF Begins, PhaseFits, C!Fresh, Open
<1>7. writes \in Seq(Replies) /\ 0 \in 0 .. Len(writes)
      /\ \A i \in 1 .. Len(writes) : writes[i].type = "ERROR"
  <2> DEFINE e == Error("ServerBusy")
             w == <<e>>
  <2>1. e \in Replies /\ e.type = "ERROR"
    BY DEF Replies, Error, ErrorCodes
  <2> HIDE DEF e
  <2>2. w \in Seq(Replies) /\ Len(w) = 1 /\ w[1] = e
    BY <2>1
  <2> HIDE DEF w
  <2>3. CASE writes = w
    <3>1. 0 \in 0 .. Len(writes) /\ \A i \in 1 .. Len(writes) : i = 1
      BY <2>2, <2>3
    <3>2. QED
      BY <2>1, <2>2, <2>3, <3>1
  <2>4. CASE writes = << >>
    <3>1. Len(writes) = 0
      BY <2>4, <1>2
    <3>2. 0 \in 0 .. Len(writes) /\ \A i \in 1 .. Len(writes) : FALSE
      BY <3>1
    <3>3. QED
      BY <2>4, <1>2, <3>2
  <2>5. QED
    BY <1>1, <2>3, <2>4 DEF w, e
<1>8. SessionTypes
  <2>1. decoder \in Decoders
    BY <1>1 DEF NoFrame, Decoders, FrameTypes
  <2>2. QED
    BY <1>1, <1>2, <1>7, <2>1 DEF Begins, SessionTypes, Files
<1>9. SessionFits
  BY <1>1, <1>2 DEF Begins, SessionFits, NoFrame
<1>10. Unsent = writes
  <2>1. Len(writes) \in Nat
    BY <1>7, LenProperties
  <2>2. SubSeq(writes, 1, Len(writes)) = writes
    BY <1>7, SubSeqFull
  <2>3. QED
    BY <1>1, <2>2 DEF Unsent, DropFirst
<1>11. Frames = Kinds(writes)
  <2>1. Frames = << >> \o Kinds(writes)
    BY <1>10, KindsEmpty DEF Begins, Frames, FramesOf
  <2>2. Kinds(writes) \in Seq(FrameNames)
    BY <1>7, KindsType, ReplyKinds
  <2>3. QED
    BY <2>1, <2>2, ConcatEmptySeq
<1>12. \A i \in 1 .. Len(Frames) : Frames[i] = "ERROR"
  BY <1>7, <1>11, KindsType, ReplyKinds
<1>13. /\ ~Has(Frames, "UPLOAD_BEGIN_ACK") /\ ~Has(Frames, "HELLO_ACK")
       /\ ~Has(Frames, "RESULT_CHUNK") /\ AckLast(Frames)
  BY <1>12 DEF Has, AckLast
<1>14. ~Acked /\ pc \in Early /\ pc \notin Open /\ pc # "beginAck" /\ state # "Uploading"
  BY <1>1, <1>13 DEF Begins, Acked, Early, Open
<1>15. Asked = << >>
  BY <1>1, ConcatEmptySeq, EmptySeq DEF Begins, Asked
<1>16. AckFits
  BY <1>13, <1>14 DEF AckFits
<1>17. BeginFits
  <2>1. ~Carries(Asked, "UPLOAD_BEGIN") /\ BeginLast(Asked, job.size)
    BY <1>15, CarriesNone, NoBegin
  <2>2. QED
    BY <1>1, <1>14, <2>1 DEF BeginFits, NoFrame
<1>18. GreetingFits
  BY <1>13, <1>14 DEF GreetingFits
<1>19. FramingFits /\ ContentFits /\ ResultTrue /\ CancelFits
  BY <1>14 DEF FramingFits, ContentFits, ResultTrue, CancelFits
<1>20. ResultFits
  <2>1. Kinds(Unsent) = Frames
    BY <1>10, <1>11
  <2>2. OneResult(results, Frames)
    BY <1>2, <1>12, <1>13 DEF Begins, OneResult
  <2>3. QED
    BY <1>13, <2>1, <2>2 DEF ResultFits
<1>21. QED
  BY <1>3, <1>4, <1>5, <1>6, <1>8, <1>9, <1>16, <1>17, <1>18, <1>19, <1>20
     DEF SystemInv, Basics, Agreement

LEMMA InitInv == SystemInit => SystemInv
<1> SUFFICES ASSUME SystemInit  PROVE SystemInv
  OBVIOUS
<1>1. job \in Jobs
  <2>1. << >> \in Seq(Files)
    BY EmptySeq
  <2>2. QED
    BY <2>1 DEF SystemInit, C!Init, C!NoJob, Jobs
<1>2. Begins
  BY <1>1 DEF SystemInit, C!Init, Begins
<1>3. QED
  BY <1>2, BeginsInv

LEMMA ClientConnectsInv ==
  ASSUME SystemInv, ClientConnects
  PROVE  SystemInv'
<1>1. pc \in {"none", "ended"} /\ out' = out /\ job' = job /\ Init'
      /\ snap' = C!Fresh /\ pc' = "start"
      /\ link' = "none" /\ toServer' = << >> /\ toClient' = << >>
      /\ content' = << >> /\ results' = << >>
  BY DEF ClientConnects, NewSession, C!ClickConnect
<1>2. out = << >> /\ job \in Jobs
  BY <1>1 DEF SystemInv, Basics, OutFits, ClientTypes, C!Senders
<1>3. Begins'
  BY <1>1, <1>2 DEF Begins
<1>4. Begins' => SystemInv'
  BY BeginsInv, PTL
<1>5. QED
  BY <1>3, <1>4

-----------------------------------------------------------------------------
(* A connection is lost.                                                   *)

LEMMA AckLastPrefix ==
  ASSUME NEW s \in Seq(FrameNames), NEW t \in Seq(FrameNames), AckLast(s \o t)
  PROVE  AckLast(s)
<1> DEFINE u == s \o t
<1>1. /\ Len(u) = Len(s) + Len(t) /\ Len(s) \in Nat /\ Len(t) \in Nat
      /\ \A i \in 1 .. Len(s) + Len(t) : u[i] = IF i <= Len(s) THEN s[i] ELSE t[i - Len(s)]
  BY ConcatProperties, LenProperties
<1>2. AckLast(u)
  OBVIOUS
<1> HIDE DEF u
<1>3. \A i \in 1 .. Len(s) : i \in 1 .. Len(u) /\ u[i] = s[i]
  BY <1>1
<1>4. QED
  BY <1>2, <1>3 DEF AckLast

\* A client that has lost the connection still reads what has arrived.
LEMMA CutInv ==
  ASSUME SystemInv, SessionStill, link \in {"up", "cut"}, link' = "cut",
         toServer' \in Seq(Toks), toClient' \in {toClient, << >>},
         UNCHANGED <<snap, pc, job, out>>
  PROVE  SystemInv'
<1>1. ~Meets' /\ (Live' => Live)
  BY DEF Meets, Live
<1>2. OwnFile' = OwnFile /\ Own' = Own
  BY OwnStays
<1>3. ClientTypes' /\ OutFits'
  BY <1>2 DEF SystemInv, Basics, ClientTypes, OutFits
<1>4. PhaseFits'
  <2>1. pc \notin {"none", "start", "connect"}
    BY DEF SystemInv, Basics, PhaseFits
  <2>2. QED
    BY <1>2, <2>1 DEF SystemInv, Basics, PhaseFits
<1>5. << >> \in Seq(Arrivals) /\ \A i \in 1 .. Len(<< >>) : FALSE
  BY EmptySeq
<1>6. RepliesTrue'
  <2>1. CASE toClient' = toClient
    BY <1>1, <2>1, RepliesStay
  <2>2. CASE toClient' = << >>
    BY <1>5, <2>2 DEF RepliesTrue
  <2>3. QED
    BY <2>1, <2>2
<1>7. SessionTypes' /\ SessionFits'
  BY SessionStays
<1>8. BeginFits' /\ GreetingFits' /\ FramingFits' /\ ContentFits' /\ ResultFits' /\ CancelFits'
  BY <1>1 DEF BeginFits, GreetingFits, FramingFits, ContentFits, ResultFits, CancelFits
<1>9. ResultTrue'
  <2> SUFFICES ASSUME Live', pc' \in Open  PROVE ResultsAre(toClient', OwnFile')
    BY DEF ResultTrue
  <2>1. CASE toClient' = toClient
    BY <1>1, <1>2, <2>1 DEF SystemInv, Agreement, ResultTrue
  <2>2. CASE toClient' = << >>
    BY <1>5, <2>2 DEF ResultsAre
  <2>3. QED
    BY <2>1, <2>2
<1>10. AckFits'
  <2> SUFFICES ASSUME Live'
               PROVE  /\ AckLast(Frames')
                      /\ pc' # "beginAck" => ~Has(Frames', "UPLOAD_BEGIN_ACK")
    BY DEF AckFits, Acked
  <2> DEFINE e == << >>
             l == IF link = "cut" THEN e ELSE Kinds(Unsent)
             k == Kinds(toClient)
  <2>1. toClient \in Seq(Arrivals) /\ Unsent \in Seq(Replies)
    BY <1>1, DropType DEF SystemInv, Basics, RepliesTrue, SessionTypes, Unsent
  <2>2. /\ k \in Seq(FrameNames) /\ l \in Seq(FrameNames) /\ e \in Seq(FrameNames)
        /\ e \o e = e /\ k \o e = k /\ Kinds(e) = e
    BY <2>1, FramesType, EmptySeq, ConcatEmptySeq, KindsEmpty
  <2>3. Frames = k \o l
    BY DEF Frames, FramesOf
  <2>4. Frames' \in {k, e}
    <3>1. Frames' = Kinds(toClient') \o e
      BY DEF Frames, FramesOf
    <3>2. QED
      BY <2>2, <3>1
  <2>5. AckLast(k \o l) /\ (pc # "beginAck" => ~Has(k \o l, "UPLOAD_BEGIN_ACK"))
    BY <1>1, <2>3 DEF SystemInv, Agreement, AckFits, Acked
  <2> HIDE DEF k, l
  <2>6. AckLast(k)
    BY <2>2, <2>5, AckLastPrefix
  <2>7. pc # "beginAck" => ~Has(k, "UPLOAD_BEGIN_ACK")
    BY <2>2, <2>5, HasConcat
  <2>8. AckLast(e) /\ ~Has(e, "UPLOAD_BEGIN_ACK")
    BY DEF AckLast, Has
  <2>9. QED
    BY <2>4, <2>6, <2>7, <2>8
<1>11. QED
  BY <1>3, <1>4, <1>6, <1>7, <1>8, <1>9, <1>10 DEF SystemInv, Basics, Agreement

LEMMA ConnectionInv ==
  ASSUME SystemInv, Connection
  PROVE  SystemInv'
<1>1. SessionStill
  BY DEF Connection, ClosedByServer, ResetByServer, historyVars, SessionStill, sessionVars,
         vars, uploadVars, writeVars, lifeVars, callVars
<1>2. /\ link \in {"up", "cut"} /\ link' = "cut" /\ toServer' \in {toServer, << >>}
      /\ toClient' \in {toClient, << >>} /\ UNCHANGED <<snap, pc, job, out>>
  BY DEF Connection, ClosedByServer, ResetByServer, C!LoseReplies, C!workerVars
<1>3. toServer' \in Seq(Toks)
  BY <1>2, EmptySeq DEF SystemInv, Basics, ClientTypes
<1>4. QED
  BY <1>1, <1>2, <1>3, CutInv

-----------------------------------------------------------------------------
(* A step of the session.                                                  *)

ClientStill == UNCHANGED <<snap, pc, job, out, link, heard, toServer, toClient>>

\* It has looked at k tokens of its read, and has put m on its queue.
Hears(k, m) ==
  /\ ClientStill /\ link = "up"
  /\ k \in 0 .. Len(readBuf) /\ readBuf' = DropFirst(k, readBuf)
  /\ m \in Seq(Replies) /\ writes' = writes \o m
  /\ flushed' = flushed

\* The client does not see it.
LEMMA ClientKept ==
  ASSUME SystemInv, UNCHANGED <<snap, pc, job, out, link, heard>>, toServer' \in Seq(Toks)
  PROVE  /\ ClientTypes' /\ OutFits' /\ PhaseFits'
         /\ OwnFile' = OwnFile /\ Own' = Own
         /\ Live' = Live /\ Meets' = Meets /\ Cancelled' = Cancelled
<1>1. OwnFile' = OwnFile /\ Own' = Own
  BY OwnStays
<1>2. ClientTypes'
  BY DEF SystemInv, Basics, ClientTypes
<1>3. OutFits'
  BY <1>1 DEF SystemInv, Basics, OutFits
<1>4. PhaseFits'
  BY <1>1 DEF SystemInv, Basics, PhaseFits
<1>5. Live' = Live /\ Meets' = Meets /\ Cancelled' = Cancelled
  BY DEF Live, Meets, Cancelled
<1>6. QED
  BY <1>1, <1>2, <1>3, <1>4, <1>5

LEMMA DropNone ==
  ASSUME NEW S, NEW s \in Seq(S)
  PROVE  DropFirst(0, s) = s /\ 0 \in 0 .. Len(s)
<1>1. Len(s) \in Nat
  BY LenProperties
<1>2. SubSeq(s, 1, Len(s)) = s
  BY SubSeqFull
<1>3. QED
  BY <1>1, <1>2 DEF DropFirst

\* The tokens it has still to look at.
LEMMA HearsAsked ==
  ASSUME SystemInv, NEW k, NEW m, Hears(k, m)
  PROVE  /\ Asked \in Seq(Toks) /\ k \in 0 .. Len(Asked) /\ Asked' = DropFirst(k, Asked)
         /\ Stream \in Seq(Toks) /\ k \in 0 .. Len(Stream) /\ Stream' = DropFirst(k, Stream)
         /\ \A i \in 1 .. Len(readBuf) :
              /\ i \in 1 .. Len(Asked) /\ Asked[i] = readBuf[i]
              /\ i \in 1 .. Len(Stream) /\ Stream[i] = readBuf[i]
         /\ readBuf' \in Seq(Toks)
         /\ readBuf # << >> => /\ Asked # << >> /\ Stream # << >> /\ Head(readBuf) \in Toks
                               /\ Head(readBuf) = Asked[1] /\ Head(readBuf) = Stream[1]
         /\ readBuf # << >> /\ Live => ~Acked
<1> DEFINE c == IF pc = "chunk" THEN out ELSE << >>
<1>1. readBuf \in Seq(Toks) /\ toServer \in Seq(Toks) /\ Asked \in Seq(Toks) /\ Stream \in Seq(Toks)
  BY AskedType
<1>2. c \in Seq(Toks)
  BY EmptySeq DEF SystemInv, Basics, ClientTypes
<1>3. Stream = Asked \o c /\ Stream' = Asked' \o c
  BY DEF Stream, Hears, ClientStill
<1> HIDE DEF c
<1>4. k \in 0 .. Len(readBuf) /\ readBuf' = DropFirst(k, readBuf) /\ toServer' = toServer
  BY DEF Hears, ClientStill
<1>5. Asked' = DropFirst(k, Asked)
  BY <1>1, <1>4, DropConcat DEF Asked
<1>6. /\ Len(Asked) = Len(readBuf) + Len(toServer) /\ Len(readBuf) \in Nat /\ Len(toServer) \in Nat
      /\ \A i \in 1 .. Len(readBuf) + Len(toServer) :
           Asked[i] = IF i <= Len(readBuf) THEN readBuf[i] ELSE toServer[i - Len(readBuf)]
  BY <1>1, ConcatProperties, LenProperties DEF Asked
<1>7. /\ Len(Stream) = Len(Asked) + Len(c) /\ Len(c) \in Nat
      /\ \A i \in 1 .. Len(Asked) + Len(c) :
           Stream[i] = IF i <= Len(Asked) THEN Asked[i] ELSE c[i - Len(Asked)]
  BY <1>1, <1>2, <1>3, ConcatProperties, LenProperties
<1>8. k \in 0 .. Len(Asked) /\ k \in 0 .. Len(Stream)
  BY <1>4, <1>6, <1>7
<1>9. Stream' = DropFirst(k, Stream)
  BY <1>1, <1>2, <1>3, <1>5, <1>8, DropConcat
<1>10. ASSUME NEW i \in 1 .. Len(readBuf)
       PROVE  /\ i \in 1 .. Len(Asked) /\ Asked[i] = readBuf[i]
              /\ i \in 1 .. Len(Stream) /\ Stream[i] = readBuf[i]
  <2>1. i \in 1 .. Len(Asked) /\ i \in 1 .. Len(Stream) /\ i <= Len(readBuf)
    BY <1>6, <1>7
  <2>2. QED
    BY <1>6, <1>7, <2>1
<1>11. readBuf' \in Seq(Toks)
  BY <1>1, <1>4, DropType
<1>12. ASSUME readBuf # << >>
       PROVE  /\ Asked # << >> /\ Stream # << >> /\ Head(readBuf) \in Toks
              /\ Head(readBuf) = Asked[1] /\ Head(readBuf) = Stream[1]
  <2>1. Len(readBuf) \in Nat \ {0} /\ Head(readBuf) = readBuf[1] /\ Head(readBuf) \in Toks
    BY <1>1, <1>12, EmptySeq, HeadTailProperties
  <2>2. 1 \in 1 .. Len(readBuf) /\ Len(Asked) # 0 /\ Len(Stream) # 0
    BY <1>6, <1>7, <2>1
  <2>3. Asked[1] = readBuf[1] /\ Stream[1] = readBuf[1]
    BY <1>10, <2>2
  <2>4. Asked # << >> /\ Stream # << >>
    BY <1>1, <2>2, EmptySeq
  <2>5. QED
    BY <2>1, <2>3, <2>4
<1>13. readBuf # << >> /\ Live => ~Acked
  <2> SUFFICES ASSUME readBuf # << >>, Live  PROVE ~Acked
    OBVIOUS
  <2>1. Meets
    BY DEF Meets, Hears
  <2>2. QED
    BY <1>12, <2>1 DEF SystemInv, Agreement, BeginFits
<1>14. QED
  BY <1>1, <1>5, <1>8, <1>9, <1>10, <1>11, <1>12, <1>13

\* The frames the client has still to read.
LEMMA HearsFrames ==
  ASSUME SystemInv, NEW k, NEW m, Hears(k, m)
  PROVE  /\ writes' \in Seq(Replies) /\ flushed' \in 0 .. Len(writes')
         /\ Kinds(Unsent) \in Seq(FrameNames) /\ Kinds(m) \in Seq(FrameNames)
         /\ Kinds(Unsent') = Kinds(Unsent) \o Kinds(m)
         /\ Live => /\ Frames \in Seq(FrameNames)
                    /\ Frames' = Frames \o Kinds(m)
                    /\ \A x : Has(Frames', x) <=> Has(Frames, x) \/ Has(Kinds(m), x)
                    /\ \A x : Has(Kinds(Unsent), x) => Has(Frames, x)
<1>1. /\ writes \in Seq(Replies) /\ flushed \in 0 .. Len(writes) /\ m \in Seq(Replies)
      /\ writes' = writes \o m /\ flushed' = flushed
  BY DEF SystemInv, Basics, SessionTypes, Hears
<1>2. writes \o m \in Seq(Replies) /\ Len(writes \o m) = Len(writes) + Len(m)
      /\ Len(writes) \in Nat /\ Len(m) \in Nat
  BY <1>1, ConcatProperties, LenProperties
<1>3. writes' \in Seq(Replies) /\ flushed' \in 0 .. Len(writes')
  BY <1>1, <1>2
<1>4. DropFirst(flushed, writes \o m) = DropFirst(flushed, writes) \o m
  BY <1>1, DropConcat
<1>5. Unsent \in Seq(Replies) /\ Unsent' = Unsent \o m
  BY <1>1, <1>4, DropType DEF Unsent
<1>6. Kinds(Unsent) \in Seq(FrameNames) /\ Kinds(m) \in Seq(FrameNames)
  BY <1>1, <1>5, KindsType, ReplyKinds
<1>7. Kinds(Unsent') = Kinds(Unsent) \o Kinds(m)
  BY <1>1, <1>5, KindsConcat, ReplyKinds
<1>8. ASSUME Live
      PROVE  /\ Frames \in Seq(FrameNames)
             /\ Frames' = Frames \o Kinds(m)
             /\ \A x : Has(Frames', x) <=> Has(Frames, x) \/ Has(Kinds(m), x)
             /\ \A x : Has(Kinds(Unsent), x) => Has(Frames, x)
  <2>1. toClient \in Seq(Arrivals) /\ toClient' = toClient /\ link = "up" /\ link' = "up"
    BY <1>8 DEF SystemInv, Basics, RepliesTrue, Hears, ClientStill
  <2>2. Frames = FramesOf(toClient, Unsent, "up") /\ Frames' = FramesOf(toClient, Unsent \o m, "up")
    BY <1>5, <2>1 DEF Frames
  <2>3. Frames \in Seq(FrameNames)
    BY <1>5, <2>1, <2>2, FramesType
  <2>4. Frames' = Frames \o Kinds(m)
    <3>1. FramesOf(toClient, Unsent \o m, "up") = FramesOf(toClient, Unsent, "up") \o Kinds(m)
      BY <1>1, <1>5, <2>1, FramesSent
    <3>2. QED
      BY <2>2, <3>1
  <2>5. \A x : Has(Frames', x) <=> Has(Frames, x) \/ Has(Kinds(m), x)
    BY <1>6, <2>3, <2>4, HasConcat
  <2>6. Kinds(toClient) \in Seq(FrameNames) /\ Frames = Kinds(toClient) \o Kinds(Unsent)
    BY <1>5, <2>1, <2>2, FramesType DEF FramesOf
  <2>7. \A x : Has(Kinds(Unsent), x) => Has(Frames, x)
    BY <1>6, <2>6, HasConcat
  <2>8. QED
    BY <2>3, <2>4, <2>5, <2>7
<1>9. QED
  BY <1>3, <1>6, <1>7, <1>8

\* What has to be looked at for the two to stay in agreement.
LEMMA HearsAgrees ==
  ASSUME SystemInv, NEW k, NEW m, Hears(k, m), Live,
         AckLast(Kinds(m)),
         Has(Kinds(m), "UPLOAD_BEGIN_ACK") => pc = "beginAck",
         ~Acked \/ ~(Has(Kinds(m), "UPLOAD_BEGIN_ACK") \/ Has(Kinds(m), "RESULT_CHUNK")),
         state' = "AwaitHello" => state = "AwaitHello" /\ ~Has(Kinds(m), "HELLO_ACK"),
         state' = "Uploading" =>
           \/ state = "Uploading" /\ ~Has(Kinds(m), "RESULT_CHUNK")
           \/ Has(Kinds(m), "UPLOAD_BEGIN_ACK"),
         BeginFits', FramingFits', ContentFits', CancelFits',
         tcp' = "open" => OneResult(results', Kinds(Unsent')),
         pc \in Open /\ tcp' = "open" => tcp = "open" /\ AllAre(results', OwnFile)
  PROVE  Agreement'
<1>1. /\ pc' = pc /\ toClient' = toClient /\ link' = link
      /\ OwnFile' = OwnFile /\ Live' = Live /\ Meets' = Meets /\ Meets
  <2>1. UNCHANGED <<snap, pc, job, out, link, heard, toClient>> /\ toServer' \in Seq(Toks)
        /\ link = "up"
    BY DEF SystemInv, Basics, ClientTypes, Hears, ClientStill
  <2>2. QED
    BY <2>1, ClientKept DEF Meets
<1>2. /\ Frames \in Seq(FrameNames) /\ Kinds(m) \in Seq(FrameNames)
      /\ Frames' = Frames \o Kinds(m)
      /\ \A x : Has(Frames', x) <=> Has(Frames, x) \/ Has(Kinds(m), x)
  BY HearsFrames
<1>3. Acked' <=> Acked \/ Has(Kinds(m), "UPLOAD_BEGIN_ACK")
  BY <1>2 DEF Acked
<1>4. AckFits'
  <2>1. AckLast(Frames) /\ (pc # "beginAck" => ~Acked)
    BY DEF SystemInv, Agreement, AckFits
  <2> DEFINE f == Frames
             n == Kinds(m)
  <2>2. /\ f \in Seq(FrameNames) /\ n \in Seq(FrameNames) /\ AckLast(f) /\ AckLast(n)
        /\ ~Has(f, "UPLOAD_BEGIN_ACK") \/ (~Has(n, "UPLOAD_BEGIN_ACK") /\ ~Has(n, "RESULT_CHUNK"))
    BY <1>2, <2>1 DEF Acked
  <2>3. Frames' = f \o n
    BY <1>2
  <2> HIDE DEF f, n
  <2>4. AckLast(Frames')
    BY <2>2, <2>3, AckLastConcat
  <2>5. QED
    BY <1>1, <1>3, <2>1, <2>4 DEF AckFits
<1>5. GreetingFits'
  BY <1>1, <1>2 DEF SystemInv, Agreement, GreetingFits
<1>6. ResultFits'
  <2>1. state' = "Uploading" /\ ~Acked' => ~Has(Frames', "RESULT_CHUNK")
    BY <1>1, <1>2, <1>3 DEF SystemInv, Agreement, ResultFits
  <2>2. QED
    BY <2>1 DEF ResultFits
<1>7. ResultTrue'
  BY <1>1 DEF SystemInv, Agreement, ResultTrue
<1>8. QED
  BY <1>4, <1>5, <1>6, <1>7 DEF Agreement

\* It has not begun an upload.
LEMMA HearsBegin ==
  ASSUME SystemInv, NEW k, NEW m, Hears(k, m), Live,
         ~Has(Kinds(m), "UPLOAD_BEGIN_ACK"),
         decoder'.type # "UPLOAD_BEGIN",
         Acked => decoder'.phase = "Header"
  PROVE  BeginFits'
<1>1. /\ Asked \in Seq(Toks) /\ k \in 0 .. Len(Asked) /\ Asked' = DropFirst(k, Asked)
  BY HearsAsked
<1>2. Acked' <=> Acked
  BY HearsFrames DEF Acked
<1>3. pc' = pc /\ job' = job /\ Meets
  BY DEF Hears, ClientStill, Meets
<1>4. /\ pc # "beginAck" => ~Carries(Asked, "UPLOAD_BEGIN")
      /\ BeginLast(Asked, job.size)
      /\ Carries(Asked, "UPLOAD_BEGIN") => ~Acked
      /\ Acked => Asked = << >>
  BY <1>3 DEF SystemInv, Agreement, BeginFits
<1>5. BeginLast(Asked', job.size)
  BY <1>1, <1>4, BeginLastDrop
<1>6. Carries(Asked', "UPLOAD_BEGIN") => Carries(Asked, "UPLOAD_BEGIN")
  BY <1>1, CarriesDrop
<1>7. Acked => Asked' = << >>
  <2> SUFFICES ASSUME Asked = << >>  PROVE DropFirst(k, Asked) = << >>
    BY <1>1, <1>4
  <2> DEFINE s == Asked
  <2>1. s \in Seq(Toks) /\ k \in 0 .. Len(s) /\ Len(s) = 0
    BY <1>1, EmptySeq
  <2>2. ~(k < Len(s))
    BY <2>1
  <2> HIDE DEF s
  <2>3. DropFirst(k, s) = << >>
    BY <2>1, <2>2, DropAll
  <2>4. QED
    BY <2>3 DEF s
<1>8. QED
  BY <1>2, <1>3, <1>4, <1>5, <1>6, <1>7 DEF BeginFits

\* It puts no result on its queue.
LEMMA HearsResults ==
  ASSUME SystemInv, NEW k, NEW m, Hears(k, m), Live,
         tcp' = "open" =>
           tcp = "open" /\ results' = results /\ ~Has(Kinds(m), "RESULT_CHUNK")
  PROVE  /\ tcp' = "open" => OneResult(results', Kinds(Unsent'))
         /\ pc \in Open /\ tcp' = "open" => tcp = "open" /\ AllAre(results', OwnFile)
<1>1. Meets /\ link # "cut"
  BY DEF Hears, ClientStill, Meets
<1>2. ASSUME tcp' = "open"  PROVE OneResult(results', Kinds(Unsent'))
  <2> DEFINE u == Kinds(Unsent)
             n == Kinds(m)
  <2>1. u \in Seq(FrameNames) /\ n \in Seq(FrameNames) /\ Kinds(Unsent') = u \o n
    BY HearsFrames
  <2>2. OneResult(results, u) /\ ~Has(n, "RESULT_CHUNK") /\ results' = results
    BY <1>1, <1>2 DEF SystemInv, Agreement, ResultFits
  <2> HIDE DEF u, n
  <2>3. OneResult(results, u \o n)
    BY <2>1, <2>2, OneResultConcat
  <2>4. QED
    BY <2>1, <2>2, <2>3
<1>3. ASSUME pc \in Open, tcp' = "open"  PROVE tcp = "open" /\ AllAre(results', OwnFile)
  BY <1>1, <1>3 DEF SystemInv, Agreement, ResultTrue
<1>4. QED
  BY <1>2, <1>3

\* Outside an upload.
LEMMA HearsOutside ==
  ASSUME state' # "Uploading"
  PROVE  FramingFits' /\ ContentFits' /\ CancelFits'
  BY DEF FramingFits, ContentFits, CancelFits

-----------------------------------------------------------------------------
(* What the session puts on its queue.                                     *)

LEMMA NoMessage ==
  /\ << >> \in Seq(Replies) /\ Len(<< >>) = 0
  /\ Kinds(<< >>) = << >> /\ AckLast(Kinds(<< >>))
  /\ \A x : ~Has(Kinds(<< >>), x)
<1>1. << >> \in Seq(Replies) /\ Len(<< >>) = 0
  BY EmptySeq
<1>2. Kinds(<< >>) = << >>
  BY KindsEmpty
<1>3. AckLast(<< >>) /\ \A x : ~Has(<< >>, x)
  BY DEF AckLast, Has
<1>4. QED
  BY <1>1, <1>2, <1>3

LEMMA OneMessage ==
  ASSUME NEW f \in Replies
  PROVE  /\ <<f>> \in Seq(Replies) /\ Len(<<f>>) = 1
         /\ Kinds(<<f>>) = <<f.type>> /\ AckLast(Kinds(<<f>>))
         /\ \A x : Has(Kinds(<<f>>), x) <=> f.type = x
<1>1. <<f>> \in Seq(Replies) /\ Len(<<f>>) = 1
  OBVIOUS
<1>2. Kinds(<<f>>) = <<f.type>>
  BY DEF Kinds
<1>3. AckLast(<<f.type>>) /\ \A x : Has(<<f.type>>, x) <=> f.type = x
  BY DEF AckLast, Has
<1>4. QED
  BY <1>1, <1>2, <1>3

LEMMA ReplyTypes ==
  /\ \A c \in ErrorCodes : Error(c) \in Replies /\ Error(c).type = "ERROR"
  /\ \A t \in {"HELLO_ACK", "UPLOAD_BEGIN_ACK", "UPLOAD_ACK"} :
       Frame(t) \in Replies /\ Frame(t).type = t
  BY DEF Replies, Error, Frame

\* A frame is sent, or the stream is being closed.
LEMMA SendOne ==
  ASSUME SystemInv, NEW f \in Replies, NEW st, NEW failSt, Send(<<f>>, st, failSt)
  PROVE  /\ flushed' = flushed
         /\ \/ writes' = writes \o <<f>> /\ state' = st /\ tcp = "open" /\ tcp' = "open"
            \/ writes' = writes \o << >> /\ state' = failSt /\ tcp' # "open"
<1>1. writes \in Seq(Replies) /\ writes \o << >> = writes
  BY ConcatEmptySeq DEF SystemInv, Basics, SessionTypes
<1>2. CASE tcp = "open" /\ Enqueue(<<f>>) /\ state' = st /\ UNCHANGED <<lifeVars, ioFailures>>
  BY <1>2 DEF Enqueue, lifeVars
<1>3. CASE SendFails(<<f>>, failSt)
  <2>1. tcp' # "open" /\ state' = failSt
    BY <1>3 DEF SendFails, CloseHandles
  <2>2. writes' = writes \o << >> /\ flushed' = flushed
    <3>1. CASE tcp # "open" /\ UNCHANGED <<writeVars, ioFailures>>
      BY <1>1, <3>1 DEF writeVars
    <3>2. CASE \E n \in 0 .. Len(<<f>>) - 1 : Enqueue(TakeFirst(n, <<f>>))
      <4>1. Len(<<f>>) - 1 = 0
        BY OneMessage
      <4>2. Enqueue(TakeFirst(0, <<f>>))
        BY <3>2, <4>1
      <4>3. TakeFirst(0, <<f>>) = << >>
        <5> DEFINE o == <<f>>
        <5>1. o \in Seq(Replies) /\ Len(o) = 1
          BY OneMessage
        <5> HIDE DEF o
        <5>2. SubSeq(o, 1, 0) = << >>
          BY <5>1, SubSeqEmpty
        <5>3. QED
          BY <5>2 DEF TakeFirst, o
      <4>4. QED
        BY <4>2, <4>3 DEF Enqueue
    <3>3. QED
      BY <1>3, <3>1, <3>2 DEF SendFails
  <2>3. QED
    BY <2>1, <2>2
<1>4. QED
  BY <1>2, <1>3 DEF Send

\* The history of the callback.
LEMMA SameContent ==
  ASSUME SystemInv, Handles, fed' = fed
  PROVE  content' = content
<1>1. Len(content) = fed /\ fed \in Nat /\ content \in Seq(Toks)
  BY DEF SystemInv, Basics, SessionTypes, SessionFits, Files
<1>2. ~(fed' > fed) /\ (fed' = 0 => content = << >>)
  BY <1>1, EmptySeq
<1>3. QED
  BY <1>2 DEF Handles

LEMMA ResultLength == Result \in Seq(Replies) /\ Len(Result) = 4
<1>1. /\ Frame("ANALYZE_DONE") \in Replies /\ Frame("RESULT_BEGIN") \in Replies
      /\ Frame("RESULT_CHUNK") \in Replies /\ Frame("RESULT_END") \in Replies
  BY DEF Replies
<1>2. QED
  BY <1>1 DEF Result

LEMMA ConcatLen ==
  ASSUME NEW S, NEW s \in Seq(S), NEW t \in Seq(S)
  PROVE  s \o t \in Seq(S) /\ Len(s \o t) = Len(s) + Len(t) /\ Len(s) \in Nat /\ Len(t) \in Nat
<1>1. Len(s) \in Nat /\ Len(t) \in Nat
  BY LenProperties
<1>2. s \o t \in Seq(S) /\ Len(s \o t) = Len(s) + Len(t)
  BY ConcatProperties
<1>3. QED
  BY <1>1, <1>2

LEMMA SameResults ==
  ASSUME SystemInv, Handles, NEW m \in Seq(Replies), Len(m) # 4, writes' = writes \o m
  PROVE  results' = results
<1> DEFINE w == writes
           r == Result
<1>1. w \in Seq(Replies)
  BY DEF SystemInv, Basics, SessionTypes
<1>2. r \in Seq(Replies) /\ Len(r) = 4
  BY ResultLength
<1> HIDE DEF w, r
<1>3. Len(w \o m) = Len(w) + Len(m) /\ Len(w) \in Nat /\ Len(m) \in Nat
  BY <1>1, ConcatLen
<1>4. Len(w \o r) = Len(w) + Len(r)
  BY <1>1, <1>2, ConcatLen
<1>5. w \o m # w \o r
  BY <1>2, <1>3, <1>4
<1>6. QED
  BY <1>5 DEF Handles, w, r

\* What every step of a callback leaves.
LEMMA CallbackKeeps ==
  ASSUME Handles
  PROVE  ClientStill /\ link = "up" /\ netVars' = netVars
  BY DEF Handles, SessionStep, clientVars, netVars, ClientStill

\* The types, and what holds between reads.
LEMMA HearsBasics ==
  ASSUME SystemInv, NEW k, NEW m, Hears(k, m),
         state' \in {"AwaitHello", "Ready", "Uploading", "Closing"},
         decoder' \in Decoders, declared' \in Int, received' \in Nat, fed' \in Nat,
         content' \in Files, Len(content') = fed',
         decoder'.phase \in {"Header", "Failed"} => decoder'.type = "NONE",
         decoder'.phase = "Payload" => decoder'.type = "UPLOAD_CHUNK" /\ decoder'.left > 0,
         inRead' \/ (readBuf' = << >> /\ decoder'.phase # "Complete"),
         state' = "Closing" => tcp' # "open",
         state' = "Uploading" => received' = fed',
         Live => Agreement'
  PROVE  SystemInv'
<1>1. UNCHANGED <<snap, pc, job, out, link, heard>> /\ toServer' \in Seq(Toks)
      /\ toClient' = toClient
  BY DEF SystemInv, Basics, ClientTypes, Hears, ClientStill
<1>2. ClientTypes' /\ OutFits' /\ PhaseFits' /\ Live' = Live
  BY <1>1, ClientKept
<1>3. RepliesTrue'
  BY <1>1, <1>2, RepliesStay
<1>4. Agreement'
  <2>1. CASE Live
    BY <2>1
  <2>2. CASE ~Live
    BY <1>2, <2>2, OverAgrees
  <2>3. QED
    BY <2>1, <2>2
<1>5. readBuf' \in Seq(Toks) /\ writes' \in Seq(Replies) /\ flushed' \in 0 .. Len(writes')
  BY HearsAsked, HearsFrames
<1>6. SessionTypes'
  BY <1>5 DEF SessionTypes
<1>7. SessionFits'
  BY DEF SessionFits
<1>8. QED
  BY <1>2, <1>3, <1>4, <1>6, <1>7 DEF SystemInv, Basics

\* It sends one frame at most, which is no acknowledgement of an upload and no
\* result.
Plain(m) ==
  /\ Len(m) <= 1 /\ AckLast(Kinds(m))
  /\ ~Has(Kinds(m), "UPLOAD_BEGIN_ACK") /\ ~Has(Kinds(m), "RESULT_CHUNK")

LEMMA PlainInv ==
  ASSUME SystemInv, Handles, NEW k, NEW m, Hears(k, m), Plain(m),
         inRead' \/ (readBuf' = << >> /\ decoder'.phase # "Complete"),
         state' \in {"AwaitHello", "Ready", "Uploading", "Closing"},
         state' = "AwaitHello" => state = "AwaitHello" /\ ~Has(Kinds(m), "HELLO_ACK"),
         state' = "Uploading" => state = "Uploading" /\ received' = fed',
         state' = "Closing" => tcp' # "open",
         tcp' = "open" => tcp = "open",
         decoder' \in Decoders,
         decoder'.phase \in {"Header", "Failed"} => decoder'.type = "NONE",
         decoder'.phase = "Payload" => decoder'.type = "UPLOAD_CHUNK" /\ decoder'.left > 0,
         declared' \in Int, received' \in Nat, fed' \in Nat,
         content' \in Files, Len(content') = fed',
         Live => BeginFits' /\ FramingFits' /\ ContentFits' /\ CancelFits'
  PROVE  SystemInv'
<1>1. m \in Seq(Replies) /\ writes' = writes \o m
  BY DEF Hears
<1>2. Len(m) # 4
  <2> DEFINE l == Len(m)
  <2>1. l <= 1
    BY DEF Plain
  <2>2. l \in Nat
    BY <1>1, LenProperties
  <2> HIDE DEF l
  <2>3. l # 4
    BY <2>1, <2>2
  <2>4. QED
    BY <2>3 DEF l
<1>3. results' = results
  BY <1>1, <1>2, SameResults
<1>4. ASSUME Live  PROVE Agreement'
  <2>1. AckLast(Kinds(m)) /\ ~Has(Kinds(m), "UPLOAD_BEGIN_ACK") /\ ~Has(Kinds(m), "RESULT_CHUNK")
    BY DEF Plain
  <2>2. /\ tcp' = "open" => OneResult(results', Kinds(Unsent'))
        /\ pc \in Open /\ tcp' = "open" => tcp = "open" /\ AllAre(results', OwnFile)
    BY <1>3, <1>4, <2>1, HearsResults
  <2>3. BeginFits' /\ FramingFits' /\ ContentFits' /\ CancelFits'
    BY <1>4
  <2>4. QED
    BY <1>4, <2>1, <2>2, <2>3, HearsAgrees
<1>5. QED
  BY <1>4, HearsBasics

LEMMA QuietPlain ==
  ASSUME SystemInv, Handles, UNCHANGED <<writes, flushed>>,
         NEW k \in 0 .. Len(readBuf), readBuf' = DropFirst(k, readBuf)
  PROVE  Hears(k, << >>) /\ Plain(<< >>)
<1>1. writes \in Seq(Replies)
  BY DEF SystemInv, Basics, SessionTypes
<1>2. writes \o << >> = writes
  BY <1>1, ConcatEmptySeq
<1>3. << >> \in Seq(Replies) /\ Plain(<< >>)
  BY NoMessage DEF Plain
<1>4. QED
  BY <1>2, <1>3, CallbackKeeps DEF Hears

LEMMA SendPlain ==
  ASSUME SystemInv, Handles, NEW f \in Replies,
         f.type \notin {"UPLOAD_BEGIN_ACK", "RESULT_CHUNK"},
         NEW st, NEW failSt, Send(<<f>>, st, failSt),
         NEW k \in 0 .. Len(readBuf), readBuf' = DropFirst(k, readBuf)
  PROVE  \E m : /\ Hears(k, m) /\ Plain(m)
                /\ \/ m = <<f>> /\ state' = st /\ tcp = "open" /\ tcp' = "open"
                   \/ m = << >> /\ state' = failSt /\ tcp' # "open"
<1>1. ClientStill /\ link = "up"
  BY CallbackKeeps
<1>2. /\ flushed' = flushed
      /\ \/ writes' = writes \o <<f>> /\ state' = st /\ tcp = "open" /\ tcp' = "open"
         \/ writes' = writes \o << >> /\ state' = failSt /\ tcp' # "open"
  BY SendOne
<1>3. << >> \in Seq(Replies) /\ Plain(<< >>)
  BY NoMessage DEF Plain
<1>4. <<f>> \in Seq(Replies) /\ Plain(<<f>>)
  BY OneMessage DEF Plain
<1>5. CASE writes' = writes \o <<f>> /\ state' = st /\ tcp = "open" /\ tcp' = "open"
  <2>1. Hears(k, <<f>>)
    BY <1>1, <1>2, <1>4, <1>5 DEF Hears
  <2>2. QED
    BY <1>4, <1>5, <2>1
<1>6. CASE writes' = writes \o << >> /\ state' = failSt /\ tcp' # "open"
  <2>1. Hears(k, << >>)
    BY <1>1, <1>2, <1>3, <1>6 DEF Hears
  <2>2. QED
    BY <1>3, <1>6, <2>1
<1>7. QED
  BY <1>2, <1>5, <1>6

\* The rest of the read is left, or lost.
LEMMA KeepsRest ==
  ASSUME SystemInv, readBuf' = readBuf
  PROVE  0 \in 0 .. Len(readBuf) /\ readBuf' = DropFirst(0, readBuf)
<1>1. readBuf \in Seq(Toks)
  BY DEF SystemInv, Basics, SessionTypes
<1>2. QED
  BY <1>1, DropNone

LEMMA LosesRest ==
  ASSUME SystemInv, DropRest
  PROVE  Len(readBuf) \in 0 .. Len(readBuf) /\ readBuf' = DropFirst(Len(readBuf), readBuf)
<1>1. readBuf \in Seq(Toks)
  BY DEF SystemInv, Basics, SessionTypes
<1>2. Len(readBuf) \in 0 .. Len(readBuf) /\ ~(Len(readBuf) < Len(readBuf))
  BY <1>1, LenProperties
<1>3. DropFirst(Len(readBuf), readBuf) = << >>
  BY <1>1, <1>2, DropAll
<1>4. QED
  BY <1>2, <1>3 DEF DropRest

\* The history of a callback that splits nothing.
LEMMA NothingSplit ==
  ASSUME SystemInv, Handles, fed' \in {fed, 0}
  PROVE  content' \in Files /\ Len(content') = fed' /\ fed' \in Nat
<1>1. content \in Files /\ Len(content) = fed /\ fed \in Nat
  BY DEF SystemInv, Basics, SessionTypes, SessionFits
<1>2. ~(fed' > fed)
  BY <1>1
<1>3. content' = IF fed' = 0 THEN << >> ELSE content
  BY <1>2 DEF Handles
<1>4. << >> \in Files /\ Len(<< >>) = 0
  BY EmptySeq DEF Files
<1>5. QED
  BY <1>1, <1>3, <1>4

LEMMA NoFrameFits ==
  /\ NoFrame \in Decoders
  /\ NoFrame.phase = "Header" /\ NoFrame.type = "NONE" /\ NoFrame.left = 0
  BY DEF NoFrame, Decoders, FrameTypes

\* A frame is handled, and the session is outside an upload.
LEMMA OutsideInv ==
  ASSUME SystemInv, Handles, NEW k, NEW m, Hears(k, m), Plain(m), inRead',
         decoder' = NoFrame,
         state' \in {"AwaitHello", "Ready", "Closing"},
         state' = "AwaitHello" => state = "AwaitHello" /\ ~Has(Kinds(m), "HELLO_ACK"),
         state' = "Closing" => tcp' # "open",
         tcp' = "open" => tcp = "open",
         declared' \in Int, received' \in Nat, fed' \in {fed, 0}
  PROVE  SystemInv'
<1>1. content' \in Files /\ Len(content') = fed' /\ fed' \in Nat
  BY NothingSplit
<1>2. /\ decoder' \in Decoders /\ decoder'.phase = "Header" /\ decoder'.type = "NONE"
  BY NoFrameFits
<1>3. ~Has(Kinds(m), "UPLOAD_BEGIN_ACK")
  BY DEF Plain
<1>4. Live => BeginFits'
  BY <1>2, <1>3, HearsBegin
<1>5. FramingFits' /\ ContentFits' /\ CancelFits'
  BY HearsOutside
<1>6. QED
  BY <1>1, <1>2, <1>4, <1>5, PlainInv

LEMMA AnswerInv ==
  ASSUME SystemInv, Handles, InCallback, decoder' = NoFrame,
         NEW f \in Replies, f.type \notin {"UPLOAD_BEGIN_ACK", "RESULT_CHUNK"},
         NEW st \in {"AwaitHello", "Ready"},
         st = "AwaitHello" => state = "AwaitHello" /\ f.type # "HELLO_ACK",
         Send(<<f>>, st, "Closing"), readBuf' = readBuf \/ DropRest,
         declared' \in Int, received' \in Nat, fed' \in {fed, 0}
  PROVE  SystemInv'
<1>1. inRead'
  BY DEF InCallback
<1>2. PICK k \in 0 .. Len(readBuf) : readBuf' = DropFirst(k, readBuf)
  BY KeepsRest, LosesRest
<1>3. PICK m : /\ Hears(k, m) /\ Plain(m)
               /\ \/ m = <<f>> /\ state' = st /\ tcp = "open" /\ tcp' = "open"
                  \/ m = << >> /\ state' = "Closing" /\ tcp' # "open"
  BY <1>2, SendPlain
<1>4. /\ state' \in {"AwaitHello", "Ready", "Closing"}
      /\ state' = "Closing" => tcp' # "open"
      /\ tcp' = "open" => tcp = "open"
  BY <1>3
<1>5. Has(Kinds(<<f>>), "HELLO_ACK") <=> f.type = "HELLO_ACK"
  BY OneMessage
<1>6. state' = "AwaitHello" => state = "AwaitHello" /\ ~Has(Kinds(m), "HELLO_ACK")
  BY <1>3, <1>5
<1>7. QED
  BY <1>1, <1>3, <1>4, <1>6, OutsideInv

LEMMA SilentInv ==
  ASSUME SystemInv, Handles, InCallback, decoder' = NoFrame,
         state # "Uploading", state' = state \/ Close, UNCHANGED <<writes, flushed>>,
         tcp' = tcp \/ Close, readBuf' = readBuf \/ DropRest,
         UNCHANGED <<declared, received, fed>>
  PROVE  SystemInv'
<1>1. inRead'
  BY DEF InCallback
<1>2. PICK k \in 0 .. Len(readBuf) : readBuf' = DropFirst(k, readBuf)
  BY KeepsRest, LosesRest
<1>3. Hears(k, << >>) /\ Plain(<< >>)
  BY <1>2, QuietPlain
<1>4. /\ state \in {"AwaitHello", "Ready", "Closing"} /\ (state = "Closing" => tcp # "open")
      /\ declared' \in Int /\ received' \in Nat /\ fed' \in {fed, 0}
  BY DEF SystemInv, Basics, SessionTypes, SessionFits
<1>5. Close => state' = "Closing" /\ tcp' # "open"
  BY <1>4 DEF Close, CloseHandles, lifeVars
<1>6. /\ state' \in {"AwaitHello", "Ready", "Closing"}
      /\ state' = "AwaitHello" => state = "AwaitHello"
      /\ state' = "Closing" => tcp' # "open"
      /\ tcp' = "open" => tcp = "open"
  BY <1>4, <1>5
<1>7. ~Has(Kinds(<< >>), "HELLO_ACK")
  BY NoMessage
<1>8. QED
  BY <1>1, <1>3, <1>4, <1>6, <1>7, OutsideInv

\* The counts are numbers.
LEMMA CountsType ==
  ASSUME SystemInv, UNCHANGED uploadVars
  PROVE  declared' \in Int /\ received' \in Nat /\ fed' \in {fed, 0}
  BY DEF SystemInv, Basics, SessionTypes, uploadVars

LEMMA DispatchAwaitHelloInv ==
  ASSUME SystemInv, Handles, DispatchAwaitHello
  PROVE  SystemInv'
<1>1. InCallback /\ decoder' = NoFrame /\ state = "AwaitHello"
  BY DEF DispatchAwaitHello, Dispatching
<1>2. UNCHANGED uploadVars
  BY DEF DispatchAwaitHello, Violation
<1>3. declared' \in Int /\ received' \in Nat /\ fed' \in {fed, 0}
  BY <1>2, CountsType
<1>4. CASE decoder.type = "HELLO" /\ decoder.arg # Malformed
  <2> DEFINE f == Frame("HELLO_ACK")
  <2>1. f \in Replies /\ f.type = "HELLO_ACK"
    BY ReplyTypes
  <2>2. Send(<<f>>, "Ready", "Closing") /\ readBuf' = readBuf
    BY <1>4 DEF DispatchAwaitHello
  <2> HIDE DEF f
  <2>3. QED
    BY <1>1, <1>3, <2>1, <2>2, AnswerInv
<1>5. CASE ~(decoder.type = "HELLO" /\ decoder.arg # Malformed)
  <2> DEFINE f == Error("UnexpectedType")
  <2>1. f \in Replies /\ f.type = "ERROR"
    BY ReplyTypes DEF ErrorCodes
  <2>2. Send(<<f>>, "AwaitHello", "Closing") /\ DropRest
    BY <1>1, <1>5 DEF DispatchAwaitHello, Violation
  <2> HIDE DEF f
  <2>3. QED
    BY <1>1, <1>3, <2>1, <2>2, AnswerInv
<1>6. QED
  BY <1>4, <1>5

LEMMA DispatchReadyInv ==
  ASSUME SystemInv, Handles, ReadyBye \/ ReadyOther
  PROVE  SystemInv'
<1>1. InCallback /\ decoder' = NoFrame /\ state = "Ready"
  BY DEF ReadyBye, ReadyOther, Dispatching
<1>2. UNCHANGED uploadVars
  BY DEF ReadyBye, ReadyOther
<1>3. declared' \in Int /\ received' \in Nat /\ fed' \in {fed, 0}
  BY <1>2, CountsType
<1>4. CASE ReadyBye \/ (ReadyOther /\ decoder.type = "CANCEL")
  <2>1. /\ state # "Uploading" /\ (state' = state \/ Close) /\ UNCHANGED <<writes, flushed>>
        /\ (tcp' = tcp \/ Close) /\ (readBuf' = readBuf \/ DropRest)
    BY <1>1, <1>4 DEF ReadyBye, ReadyOther, Quietly, writeVars, lifeVars
  <2>2. UNCHANGED <<declared, received, fed>>
    BY <1>2 DEF uploadVars
  <2>3. QED
    BY <1>1, <2>1, <2>2, SilentInv
<1>5. CASE ReadyOther /\ decoder.type # "CANCEL"
  <2> DEFINE f == Error("UnexpectedType")
  <2>1. f \in Replies /\ f.type = "ERROR"
    BY ReplyTypes DEF ErrorCodes
  <2>2. Send(<<f>>, "Ready", "Closing") /\ readBuf' = readBuf
    BY <1>1, <1>5 DEF ReadyOther
  <2> HIDE DEF f
  <2>3. QED
    BY <1>1, <1>3, <2>1, <2>2, AnswerInv
<1>6. QED
  BY <1>4, <1>5

LEMMA DispatchClosingInv ==
  ASSUME SystemInv, Handles, DispatchClosing
  PROVE  SystemInv'
<1>1. InCallback /\ decoder' = NoFrame /\ state = "Closing"
  BY DEF DispatchClosing, Dispatching
<1>2. /\ state # "Uploading" /\ state' = state /\ UNCHANGED <<writes, flushed>>
      /\ tcp' = tcp /\ DropRest /\ UNCHANGED <<declared, received, fed>>
  BY <1>1 DEF DispatchClosing, Quietly, writeVars, lifeVars, uploadVars
<1>3. QED
  BY <1>1, <1>2, SilentInv

\* An upload is given up.
LEMMA AbortInv ==
  ASSUME SystemInv, Handles, InCallback, decoder' = NoFrame,
         NEW code \in ErrorCodes, Send(<<Error(code)>>, "Ready", "Closing"),
         readBuf' = readBuf \/ DropRest,
         declared' \in Int, received' \in Nat, fed' \in {fed, 0}
  PROVE  SystemInv'
<1> DEFINE f == Error(code)
<1>1. f \in Replies /\ f.type = "ERROR" /\ Send(<<f>>, "Ready", "Closing")
  BY ReplyTypes
<1> HIDE DEF f
<1>2. QED
  BY <1>1, AnswerInv

\* What the properties of a step look at, unless it acknowledges an upload.
LEMMA HearsKeeps ==
  ASSUME SystemInv, NEW k, NEW m, Hears(k, m)
  PROVE  /\ pc' = pc /\ job' = job /\ heard' = heard
         /\ Live' = Live /\ Meets' = Meets /\ (Live => Meets)
         /\ Cancelled' = Cancelled /\ Own' = Own
         /\ Live /\ ~Has(Kinds(m), "UPLOAD_BEGIN_ACK") => (Acked' <=> Acked) /\ (Current' <=> Current)
<1>1. UNCHANGED <<snap, pc, job, out, link, heard>> /\ toServer' \in Seq(Toks) /\ link = "up"
  BY DEF SystemInv, Basics, ClientTypes, Hears, ClientStill
<1>2. Live' = Live /\ Meets' = Meets /\ Cancelled' = Cancelled /\ Own' = Own
  BY <1>1, ClientKept
<1>3. Live => Meets
  BY <1>1 DEF Meets
<1>4. ASSUME Live, ~Has(Kinds(m), "UPLOAD_BEGIN_ACK")
      PROVE  (Acked' <=> Acked) /\ (Current' <=> Current)
  <2>1. Acked' <=> Acked
    BY <1>4, HearsFrames DEF Acked
  <2>2. QED
    BY <1>1, <2>1 DEF Current
<1>5. QED
  BY <1>1, <1>2, <1>3, <1>4

\* A frame that is complete is no longer the one asked for before an
\* acknowledgement.
LEMMA CompleteNotAcked ==
  ASSUME SystemInv, Live, link = "up", decoder.phase = "Complete"
  PROVE  ~Acked
<1>1. Meets
  BY DEF Meets
<1>2. QED
  BY <1>1 DEF SystemInv, Agreement, BeginFits

\* Only CANCEL ends a cancelled upload.
LEMMA CancelStays ==
  ASSUME SystemInv, NEW k, NEW m, Hears(k, m), state = "Uploading",
         decoder.type # "CANCEL",
         \/ \A i \in 1 .. k : Asked[i].type # "CANCEL"
         \/ decoder'.type = "CANCEL"
  PROVE  CancelFits'
<1>1. Asked \in Seq(Toks) /\ k \in 0 .. Len(Asked) /\ Asked' = DropFirst(k, Asked)
  BY HearsAsked
<1>2. heard' = heard /\ Meets' = Meets /\ Cancelled' = Cancelled
  BY HearsKeeps
<1>3. Carries(Asked, "CANCEL") /\ (\A i \in 1 .. k : Asked[i].type # "CANCEL")
        => Carries(Asked', "CANCEL")
  BY <1>1, CarriesDrop
<1>4. Meets /\ heard = "yes" /\ Cancelled => Carries(Asked, "CANCEL")
  BY DEF SystemInv, Agreement, CancelFits
<1>5. QED
  BY <1>2, <1>3, <1>4 DEF CancelFits

\* Nothing is read of a stream of which nothing is taken.
LEMMA StreamSame ==
  ASSUME SystemInv, NEW m, Hears(0, m)
  PROVE  Asked' = Asked /\ Stream' = Stream
<1>1. Asked \in Seq(Toks) /\ Asked' = DropFirst(0, Asked)
      /\ Stream \in Seq(Toks) /\ Stream' = DropFirst(0, Stream)
  BY HearsAsked
<1>2. QED
  BY <1>1, DropNone

\* A chunk that was split as it came is done with.
LEMMA ChunkOverInv ==
  ASSUME SystemInv, Handles, UploadChunk, decoder.streamed
  PROVE  SystemInv'
<1>1. /\ inRead' /\ decoder' = NoFrame /\ state = "Uploading" /\ state' = "Uploading"
      /\ decoder.phase = "Complete" /\ decoder.type = "UPLOAD_CHUNK"
      /\ readBuf' = readBuf /\ tcp' = tcp
      /\ UNCHANGED <<declared, received, fed>> /\ UNCHANGED <<writes, flushed>>
  BY DEF UploadChunk, Dispatching, InCallback, Quietly, writeVars, lifeVars, uploadVars
<1>2. 0 \in 0 .. Len(readBuf) /\ readBuf' = DropFirst(0, readBuf)
  BY <1>1, KeepsRest
<1>3. Hears(0, << >>) /\ Plain(<< >>)
  BY <1>1, <1>2, QuietPlain
<1>4. content' = content
  BY <1>1, SameContent
<1>5. content' \in Files /\ Len(content') = fed' /\ fed' \in Nat
  BY <1>1, NothingSplit
<1>6. /\ decoder' \in Decoders /\ decoder'.phase = "Header" /\ decoder'.type = "NONE"
      /\ decoder'.left = 0
  BY <1>1, NoFrameFits
<1>7. declared' \in Int /\ received' \in Nat /\ received' = fed'
  BY <1>1 DEF SystemInv, Basics, SessionTypes, SessionFits
<1>8. ~Has(Kinds(<< >>), "UPLOAD_BEGIN_ACK") /\ ~Has(Kinds(<< >>), "HELLO_ACK")
  BY NoMessage
<1>9. ASSUME Live  PROVE BeginFits' /\ FramingFits' /\ ContentFits' /\ CancelFits'
  <2>1. BeginFits'
    BY <1>3, <1>6, <1>8, <1>9, HearsBegin
  <2>2. Stream' = Stream
    BY <1>3, StreamSame
  <2>3. /\ job' = job /\ heard' = heard /\ Meets' = Meets /\ Own' = Own /\ (Current' <=> Current)
    BY <1>3, <1>8, <1>9, HearsKeeps
  <2>4. FramingFits'
    BY <1>1, <1>6, <2>2, <2>3 DEF SystemInv, Agreement, FramingFits, LeftOf
  <2>5. ContentFits'
    BY <1>1, <1>4, <2>2, <2>3 DEF SystemInv, Agreement, ContentFits
  <2>6. CancelFits'
    BY <1>1, <1>3, CancelStays
  <2>7. QED
    BY <2>1, <2>4, <2>5, <2>6
<1>10. QED
  BY <1>1, <1>3, <1>5, <1>6, <1>7, <1>8, <1>9, PlainInv

LEMMA UploadChunkInv ==
  ASSUME SystemInv, Handles, UploadChunk
  PROVE  SystemInv'
<1>1. InCallback /\ decoder' = NoFrame /\ UNCHANGED uploadVars
  BY DEF UploadChunk, Dispatching
<1>2. CASE ~decoder.streamed
  <2>1. Send(<<Error("PayloadTooLarge")>>, "Ready", "Closing") /\ DropRest
    BY <1>2 DEF UploadChunk, Abort
  <2>2. "PayloadTooLarge" \in ErrorCodes
    BY DEF ErrorCodes
  <2>3. QED
    BY <1>1, <2>1, <2>2, CountsType, AbortInv
<1>3. QED
  BY <1>2, ChunkOverInv

\* An upload that ends in an error, or is cancelled.
LEMMA UploadStopsInv ==
  ASSUME SystemInv, Handles,
         UploadCancel \/ UploadOther \/ (UploadEnd /\ ~(decoder.arg # Malformed /\ SizesAgree))
  PROVE  SystemInv'
<1>1. InCallback /\ decoder' = NoFrame
  BY DEF UploadCancel, UploadOther, UploadEnd, Dispatching
<1>2. PICK code \in ErrorCodes : Send(<<Error(code)>>, "Ready", "Closing")
  BY DEF UploadCancel, UploadOther, UploadEnd, Abort, ErrorCodes
<1>3. readBuf' = readBuf \/ DropRest
  BY DEF UploadCancel, UploadOther, UploadEnd
<1>4. declared' \in Int /\ received' \in Nat /\ fed' \in {fed, 0}
  <2>1. CASE UNCHANGED uploadVars
    BY <2>1, CountsType
  <2>2. CASE declared' = 0 /\ ResetCounts
    BY <2>2 DEF ResetCounts
  <2>3. QED
    BY <2>1, <2>2 DEF UploadCancel, UploadOther, UploadEnd
<1>5. QED
  BY <1>1, <1>2, <1>3, <1>4, AbortInv

\* What happens to an UPLOAD_BEGIN that is refused, or not acknowledged.
LEMMA BeginRefusedInv ==
  ASSUME SystemInv, Handles, UploadBegin, decoder.arg \in {Malformed, 0}
  PROVE  SystemInv'
<1>1. InCallback /\ decoder' = NoFrame /\ state = "Ready"
  BY DEF UploadBegin, Dispatching
<1>2. PICK code \in ErrorCodes : Send(<<Error(code)>>, "Ready", "Closing")
  BY <1>1 DEF UploadBegin, Violation, ErrorCodes
<1>3. UNCHANGED uploadVars /\ (readBuf' = readBuf \/ DropRest)
  BY DEF UploadBegin, Violation
<1>4. declared' \in Int /\ received' \in Nat /\ fed' \in {fed, 0}
  BY <1>3, CountsType
<1>5. QED
  BY <1>1, <1>2, <1>3, <1>4, AbortInv

LEMMA BeginAckedInv ==
  ASSUME SystemInv, Handles, UploadBegin, decoder.arg \notin {Malformed, 0}
  PROVE  SystemInv'
<1> DEFINE f == Frame("UPLOAD_BEGIN_ACK")
<1>1. f \in Replies /\ f.type = "UPLOAD_BEGIN_ACK"
  BY ReplyTypes
<1>2. /\ Send(<<f>>, "Uploading", "Closing")
      /\ inRead' /\ decoder' = NoFrame /\ decoder.type = "UPLOAD_BEGIN"
      /\ declared' = decoder.arg /\ received' = 0 /\ fed' = 0 /\ readBuf' = readBuf
  BY DEF UploadBegin, Dispatching, InCallback, ResetCounts
<1> HIDE DEF f
<1>3. /\ flushed' = flushed
      /\ \/ writes' = writes \o <<f>> /\ state' = "Uploading" /\ tcp = "open" /\ tcp' = "open"
         \/ writes' = writes \o << >> /\ state' = "Closing" /\ tcp' # "open"
  BY <1>1, <1>2, SendOne
<1>4. ClientStill /\ link = "up"
  BY CallbackKeeps
<1>5. 0 \in 0 .. Len(readBuf) /\ readBuf' = DropFirst(0, readBuf)
  BY <1>2, KeepsRest
<1>6. fed' \in {fed, 0} /\ fed' \in Nat /\ received' \in Nat /\ received' = fed' /\ declared' \in Int
  BY <1>2 DEF SystemInv, Basics, SessionTypes, Decoders
<1>7. content' \in Files /\ Len(content') = fed'
  BY <1>6, NothingSplit
<1>8. /\ decoder' \in Decoders /\ decoder'.phase = "Header" /\ decoder'.type = "NONE"
      /\ decoder'.left = 0
  BY <1>2, NoFrameFits
<1>9. CASE writes' = writes \o << >> /\ state' = "Closing" /\ tcp' # "open"
  <2>1. << >> \in Seq(Replies) /\ Plain(<< >>)
    BY NoMessage DEF Plain
  <2>2. Hears(0, << >>)
    BY <1>3, <1>4, <1>5, <1>9, <2>1 DEF Hears
  <2>3. QED
    BY <1>2, <1>6, <1>9, <2>1, <2>2, OutsideInv
<1>10. CASE writes' = writes \o <<f>> /\ state' = "Uploading" /\ tcp = "open" /\ tcp' = "open"
  <2> DEFINE m == <<f>>
  <2>1. /\ m \in Seq(Replies) /\ Len(m) = 1 /\ AckLast(Kinds(m))
        /\ \A x : Has(Kinds(m), x) <=> x = "UPLOAD_BEGIN_ACK"
    BY <1>1, OneMessage
  <2>2. writes' = writes \o m
    BY <1>10
  <2> HIDE DEF m
  <2>3. Hears(0, m)
    BY <1>3, <1>4, <1>5, <2>1, <2>2 DEF Hears
  <2>4. results' = results
    <3>1. Len(m) # 4 /\ m \in Seq(Replies)
      BY <2>1
    <3>2. QED
      BY <2>2, <3>1, SameResults
  <2>5. ASSUME Live  PROVE Agreement'
    <3>1. /\ pc' = pc /\ job' = job /\ Meets' = Meets /\ Meets /\ Cancelled' = Cancelled
          /\ Own' = Own
      BY <2>3, <2>5, HearsKeeps
    <3>2. pc = "beginAck" /\ Asked = << >> /\ decoder.arg = job.size /\ ~Acked
      BY <1>2, <3>1 DEF SystemInv, Agreement, BeginFits
    <3>3. Asked' = << >> /\ Stream' = << >>
      <4>1. Asked' = << >>
        BY <2>3, <3>2, StreamSame
      <4>2. Stream' = Asked' \o << >>
        BY <3>1, <3>2 DEF Stream
      <4>3. QED
        BY <4>1, <4>2
    <3>4. BeginFits'
      <4>1. ~Carries(<< >>, "UPLOAD_BEGIN") /\ BeginLast(<< >>, job.size)
        BY CarriesNone, NoBegin
      <4>2. QED
        BY <1>8, <3>1, <3>3, <4>1 DEF BeginFits
    <3>5. FramingFits'
      BY <1>8, <3>3, FramedEmpty DEF FramingFits, LeftOf
    <3>6. ContentFits'
      <4>1. DataIs(<< >>, Own') /\ AllAre(<< >>, Own')
        BY DEF DataIs, AllAre
      <4>2. content' = << >>
        BY <1>2, <1>7, EmptySeq DEF Files
      <4>3. declared' = job'.size
        BY <1>2, <3>1, <3>2
      <4>4. QED
        BY <3>3, <4>1, <4>2, <4>3 DEF ContentFits
    <3>7. CancelFits'
      BY <3>1, <3>2 DEF CancelFits, Cancelled
    <3>8. /\ tcp' = "open" => OneResult(results', Kinds(Unsent'))
          /\ pc \in Open /\ tcp' = "open" => tcp = "open" /\ AllAre(results', OwnFile)
      BY <1>10, <2>1, <2>3, <2>4, <2>5, HearsResults
    <3>9. QED
      BY <1>10, <2>1, <2>3, <2>5, <3>2, <3>4, <3>5, <3>6, <3>7, <3>8, HearsAgrees
  <2>6. QED
    BY <1>2, <1>6, <1>7, <1>8, <1>10, <2>3, <2>5, HearsBasics
<1>11. QED
  BY <1>3, <1>9, <1>10

-----------------------------------------------------------------------------
(* The end of an upload.                                                   *)

LEMMA TakeType ==
  ASSUME NEW S, NEW s \in Seq(S), NEW n \in 0 .. Len(s)
  PROVE  /\ TakeFirst(n, s) \in Seq(S) /\ Len(TakeFirst(n, s)) = n
         /\ \A i \in 1 .. n : TakeFirst(n, s)[i] = s[i]
<1>1. Len(s) \in Nat /\ n \in Nat /\ n <= Len(s)
  BY LenProperties
<1>2. 1 \in Int /\ n \in Int /\ \A i \in 1 .. n : s[i] \in S
  BY <1>1, ElementOfSeq
<1> DEFINE d == SubSeq(s, 1, n)
<1>3. /\ d \in Seq(S)
      /\ Len(d) = IF 1 <= n THEN n - 1 + 1 ELSE 0
      /\ \A i \in 1 .. n - 1 + 1 : d[i] = s[1 + i - 1]
  BY <1>2, SubSeqProperties
<1> HIDE DEF d
<1>4. Len(d) = n
  BY <1>1, <1>3
<1>5. \A i \in 1 .. n : d[i] = s[i]
  <2>1. TAKE i \in 1 .. n
  <2>2. i \in 1 .. n - 1 + 1 /\ 1 + i - 1 = i
    BY <1>1
  <2>3. QED
    BY <1>3, <2>2
<1>6. QED
  BY <1>3, <1>4, <1>5 DEF TakeFirst, d

LEMMA ResultKinds ==
  /\ \A i \in 1 .. 4 : Result[i].type \notin {"UPLOAD_BEGIN_ACK", "HELLO_ACK"}
  /\ AckLast(Kinds(Result)) /\ ~Has(Kinds(Result), "UPLOAD_BEGIN_ACK")
<1>1. \A i \in 1 .. 4 : Result[i].type \notin {"UPLOAD_BEGIN_ACK", "HELLO_ACK"}
  BY DEF Result, Frame
<1>2. Kinds(Result) = <<"ANALYZE_DONE", "RESULT_BEGIN", "RESULT_CHUNK", "RESULT_END">>
  BY DEF Kinds, Result, Frame
<1>3. QED
  BY <1>1, <1>2 DEF AckLast, Has

\* What of a result is sent before the stream fails.
LEMMA ResultPart ==
  ASSUME NEW n \in 0 .. 3
  PROVE  LET m == TakeFirst(n, Result)
         IN m \in Seq(Replies) /\ Len(m) # 4 /\ AckLast(Kinds(m))
              /\ ~Has(Kinds(m), "UPLOAD_BEGIN_ACK")
<1> DEFINE r == Result
           m == TakeFirst(n, r)
           k == Kinds(m)
<1>1. r \in Seq(Replies) /\ Len(r) = 4 /\ \A i \in 1 .. 4 : r[i].type # "UPLOAD_BEGIN_ACK"
  BY ResultLength, ResultKinds
<1>2. m \in Seq(Replies) /\ Len(m) = n /\ \A i \in 1 .. n : m[i] = r[i]
  <2>1. r \in Seq(Replies) /\ n \in 0 .. Len(r)
    BY <1>1
  <2> HIDE DEF r
  <2>2. QED
    BY <2>1, TakeType
<1> HIDE DEF m, r
<1>3. /\ Len(k) = Len(m)
      /\ \A i \in 1 .. Len(m) : k[i] = m[i].type
  BY <1>2, KindsType, ReplyKinds
<1> HIDE DEF k
<1>4. \A i \in 1 .. Len(k) : k[i] # "UPLOAD_BEGIN_ACK"
  BY <1>1, <1>2, <1>3
<1>5. AckLast(k) /\ ~Has(k, "UPLOAD_BEGIN_ACK")
  BY <1>4 DEF AckLast, Has
<1>6. Len(m) # 4
  BY <1>2
<1>7. QED
  BY <1>2, <1>5, <1>6 DEF k, m, r

LEMMA EndsUpload ==
  ASSUME SystemInv, Handles, UploadEnd, decoder.arg # Malformed, SizesAgree
  PROVE  /\ Send(Result, "Ready", "Ready")
         /\ inRead' /\ decoder' = NoFrame /\ decoder.phase = "Complete"
         /\ state = "Uploading"
         /\ 0 \in 0 .. Len(readBuf) /\ readBuf' = DropFirst(0, readBuf)
         /\ declared' \in Int /\ received' \in Nat /\ fed' = fed /\ fed' \in Nat
         /\ content' = content /\ content' \in Files /\ Len(content') = fed'
         /\ received = declared /\ received = fed /\ Len(content) = fed
<1>1. /\ Send(Result, "Ready", "Ready") /\ readBuf' = readBuf
      /\ inRead' /\ decoder' = NoFrame /\ decoder.phase = "Complete" /\ state = "Uploading"
      /\ UNCHANGED uploadVars
  BY DEF UploadEnd, Dispatching, InCallback
<1>2. declared' \in Int /\ received' \in Nat /\ fed' \in {fed, 0} /\ fed' = fed
  BY <1>1, CountsType DEF uploadVars
<1>3. content' \in Files /\ Len(content') = fed' /\ fed' \in Nat
  BY <1>2, NothingSplit
<1>4. content' = content
  BY <1>2, SameContent
<1>5. received = declared /\ received = fed /\ Len(content) = fed
  BY <1>1 DEF SystemInv, Basics, SessionFits, SizesAgree
<1>6. 0 \in 0 .. Len(readBuf) /\ readBuf' = DropFirst(0, readBuf)
  BY <1>1, KeepsRest
<1>7. QED
  BY <1>1, <1>2, <1>3, <1>4, <1>5, <1>6

\* The content is the file, if the client is in the upload.
LEMMA ContentIsFile ==
  ASSUME SystemInv, link = "up", state = "Uploading", pc \in Open,
         received = declared, received = fed, Len(content) = fed
  PROVE  content = OwnFile
<1>1. Live /\ Meets /\ Current
  BY DEF Live, Over, Open, Meets, Current
<1>2. declared = job.size /\ AllAre(content, Own)
  BY <1>1 DEF SystemInv, Agreement, ContentFits
<1>3. content \in Seq(Toks) /\ job \in Jobs
  BY DEF SystemInv, Basics, SessionTypes, ClientTypes, Files
<1>4. Own \in Toks /\ job.size \in Nat
  BY <1>3 DEF Own, Token, Toks, Jobs
<1> DEFINE own == OwnFile
<1>5. own \in Seq(Toks) /\ Len(own) = job.size /\ \A i \in 1 .. job.size : own[i] = Own
  BY <1>4 DEF OwnFile, Own
<1> HIDE DEF own
<1>6. Len(content) = Len(own) /\ \A i \in 1 .. Len(content) : content[i] = own[i]
  BY <1>2, <1>5 DEF AllAre
<1>7. content = own
  BY <1>3, <1>5, <1>6, SeqEqual
<1>8. QED
  BY <1>7 DEF own

\* The result is sent whole.
LEMMA ResultSentInv ==
  ASSUME SystemInv, Handles, UploadEnd, decoder.arg # Malformed, SizesAgree,
         tcp = "open", Enqueue(Result), state' = "Ready", UNCHANGED lifeVars
  PROVE  SystemInv'
<1> DEFINE m == Result
           x == content
           u == Kinds(Unsent)
           n == Kinds(m)
<1>1. /\ inRead' /\ decoder' = NoFrame /\ decoder.phase = "Complete" /\ state = "Uploading"
      /\ 0 \in 0 .. Len(readBuf) /\ readBuf' = DropFirst(0, readBuf)
      /\ declared' \in Int /\ received' \in Nat /\ fed' \in Nat
      /\ content' \in Files /\ Len(content') = fed'
      /\ received = declared /\ received = fed /\ Len(content) = fed
  BY EndsUpload
<1>2. content' = content /\ x \in Files
  BY EndsUpload DEF SystemInv, Basics, SessionTypes
<1>3. /\ m \in Seq(Replies) /\ AckLast(n) /\ ~Has(n, "UPLOAD_BEGIN_ACK")
  BY ResultLength, ResultKinds
<1>4. writes' = writes \o m /\ flushed' = flushed /\ tcp' = "open"
  BY DEF Enqueue, lifeVars
<1>5. results' = Append(results, x)
  BY <1>4 DEF Handles
<1>6. ClientStill /\ link = "up"
  BY CallbackKeeps
<1>7. Hears(0, m)
  BY <1>1, <1>3, <1>4, <1>6 DEF Hears
<1>8. /\ decoder' \in Decoders /\ decoder'.phase = "Header" /\ decoder'.type = "NONE"
  BY <1>1, NoFrameFits
<1>9. ASSUME Live  PROVE Agreement'
  <2>1. ~Acked /\ Meets
    BY <1>1, <1>6, <1>9, CompleteNotAcked DEF Meets
  <2>2. u \in Seq(FrameNames) /\ Kinds(Unsent') = u \o n /\ (Has(u, "RESULT_CHUNK") => Has(Frames, "RESULT_CHUNK"))
    BY <1>7, <1>9, HearsFrames
  <2>3. ~Has(Frames, "RESULT_CHUNK") /\ OneResult(results, u)
    BY <1>1, <2>1 DEF SystemInv, Agreement, ResultFits
  <2>4. Append(results, x) = <<x>> /\ OneResult(<<x>>, u \o n)
    <3> HIDE DEF x, u
    <3>1. u \in Seq(FrameNames) /\ x \in Files
          /\ OneResult(results, u) /\ ~Has(u, "RESULT_CHUNK")
      BY <1>2, <2>2, <2>3
    <3>2. QED
      BY <3>1, OneResultFirst
  <2>5. OneResult(results', Kinds(Unsent'))
    BY <1>5, <2>2, <2>4
  <2>6. ASSUME pc \in Open  PROVE AllAre(results', OwnFile)
    <3>1. x = OwnFile
      BY <1>1, <1>6, <2>6, ContentIsFile
    <3>2. results' = <<x>>
      BY <1>5, <2>4
    <3> HIDE DEF x
    <3>3. \A i \in 1 .. Len(<<x>>) : <<x>>[i] = x
      OBVIOUS
    <3>4. QED
      BY <3>1, <3>2, <3>3 DEF AllAre
  <2>7. BeginFits'
    BY <1>3, <1>7, <1>8, <1>9, HearsBegin
  <2>8. FramingFits' /\ ContentFits' /\ CancelFits'
    BY HearsOutside
  <2>9. QED
    BY <1>3, <1>7, <1>9, <2>1, <2>5, <2>6, <2>7, <2>8, HearsAgrees
<1>10. QED
  BY <1>1, <1>7, <1>8, <1>9, HearsBasics

\* It is not, and the stream is being closed.
LEMMA ResultLostInv ==
  ASSUME SystemInv, Handles, UploadEnd, decoder.arg # Malformed, SizesAgree,
         SendFails(Result, "Ready")
  PROVE  SystemInv'
<1>1. /\ inRead' /\ decoder' = NoFrame /\ decoder.phase = "Complete" /\ state = "Uploading"
      /\ 0 \in 0 .. Len(readBuf) /\ readBuf' = DropFirst(0, readBuf)
      /\ declared' \in Int /\ received' \in Nat /\ fed' \in Nat
      /\ content' \in Files /\ Len(content') = fed'
  BY EndsUpload
<1>2. tcp' # "open" /\ state' = "Ready"
  BY DEF SendFails, CloseHandles
<1>3. ClientStill /\ link = "up"
  BY CallbackKeeps
<1>4. PICK m : /\ m \in Seq(Replies) /\ Len(m) # 4 /\ AckLast(Kinds(m))
               /\ ~Has(Kinds(m), "UPLOAD_BEGIN_ACK")
               /\ writes' = writes \o m /\ flushed' = flushed
  <2>1. CASE UNCHANGED writeVars
    <3>1. writes \in Seq(Replies)
      BY DEF SystemInv, Basics, SessionTypes
    <3>2. writes' = writes \o << >> /\ flushed' = flushed
      BY <2>1, <3>1, ConcatEmptySeq DEF writeVars
    <3>3. << >> \in Seq(Replies) /\ Len(<< >>) # 4 /\ AckLast(Kinds(<< >>))
          /\ ~Has(Kinds(<< >>), "UPLOAD_BEGIN_ACK")
      BY NoMessage
    <3>4. QED
      BY <3>2, <3>3, Zenon
  <2>2. CASE \E n \in 0 .. Len(Result) - 1 : Enqueue(TakeFirst(n, Result))
    <3>1. Len(Result) - 1 = 3
      BY ResultLength
    <3>2. PICK n \in 0 .. 3 : Enqueue(TakeFirst(n, Result))
      BY <2>2, <3>1
    <3>3. writes' = writes \o TakeFirst(n, Result) /\ flushed' = flushed
      BY <3>2 DEF Enqueue
    <3>4. QED
      BY <3>3, ResultPart
  <2>3. QED
    BY <2>1, <2>2 DEF SendFails, writeVars
<1>5. Hears(0, m)
  BY <1>1, <1>3, <1>4 DEF Hears
<1>6. results' = results
  BY <1>4, SameResults
<1>7. /\ decoder' \in Decoders /\ decoder'.phase = "Header" /\ decoder'.type = "NONE"
  BY <1>1, NoFrameFits
<1>8. ASSUME Live  PROVE Agreement'
  <2>1. ~Acked
    BY <1>1, <1>3, <1>8, CompleteNotAcked
  <2>2. BeginFits'
    BY <1>4, <1>5, <1>7, <1>8, HearsBegin
  <2>3. FramingFits' /\ ContentFits' /\ CancelFits'
    BY <1>2, HearsOutside
  <2>4. QED
    BY <1>2, <1>4, <1>5, <1>8, <2>1, <2>2, <2>3, HearsAgrees
<1>9. QED
  BY <1>1, <1>2, <1>5, <1>7, <1>8, HearsBasics

LEMMA UploadEndInv ==
  ASSUME SystemInv, Handles, UploadEnd
  PROVE  SystemInv'
<1>1. CASE ~(decoder.arg # Malformed /\ SizesAgree)
  BY <1>1, UploadStopsInv
<1>2. CASE decoder.arg # Malformed /\ SizesAgree
  <2>1. Send(Result, "Ready", "Ready")
    BY <1>2, EndsUpload
  <2>2. QED
    BY <1>2, <2>1, ResultSentInv, ResultLostInv DEF Send
<1>3. QED
  BY <1>1, <1>2

LEMMA DispatchInv ==
  ASSUME SystemInv, Handles, Dispatch
  PROVE  SystemInv'
BY DispatchAwaitHelloInv, DispatchReadyInv, BeginRefusedInv, BeginAckedInv, UploadChunkInv,
   UploadEndInv, UploadStopsInv, DispatchClosingInv DEF Dispatch

-----------------------------------------------------------------------------
(* The decoder.                                                            *)

\* The decoder after a header.
LEMMA HeaderTypes ==
  ASSUME SystemInv, FeedHeader
  PROVE  LET tok == Head(readBuf)
         IN /\ tok \in Toks /\ tok.type # "DATA"
            /\ decoder.type = "NONE" /\ LeftOf(decoder) = 0
            /\ decoder' \in Decoders
            /\ decoder'.type = tok.type /\ decoder'.arg = tok.arg
            /\ decoder'.phase \in {"Payload", "Complete"}
            /\ decoder'.phase = "Payload" => decoder'.type = "UPLOAD_CHUNK" /\ decoder'.left > 0
            /\ tok.type = "UPLOAD_CHUNK" /\ tok.arg >= 0 => LeftOf(decoder') = tok.arg
            /\ tok.type # "UPLOAD_CHUNK" => LeftOf(decoder') = 0
<1> DEFINE tok == Head(readBuf)
<1>1. readBuf # << >> /\ decoder.phase = "Header" /\ tok.type # "DATA"
  BY DEF FeedHeader
<1>2. readBuf \in Seq(Toks)
  BY DEF SystemInv, Basics, SessionTypes
<1>3. tok \in Toks
  BY <1>1, <1>2, HeadTailProperties
<1>4. decoder.type = "NONE" /\ LeftOf(decoder) = 0
  BY <1>1 DEF SystemInv, Basics, SessionFits, LeftOf
<1>5. decoder' =
        IF tok.type = "UPLOAD_CHUNK" /\ tok.arg > 0
        THEN [phase |-> "Payload", type |-> tok.type, arg |-> tok.arg,
              left |-> tok.arg, streamed |-> StreamPayload(tok.arg)]
        ELSE [phase |-> "Complete", type |-> tok.type, arg |-> tok.arg,
              left |-> 0, streamed |-> FALSE]
  BY DEF FeedHeader
<1> HIDE DEF tok
<1>6. tok.arg \in Int /\ tok.type \in FrameTypes
  <2>1. /\ tok.arg \in Int
        /\ tok.type \in {"HELLO", "UPLOAD_BEGIN", "UPLOAD_CHUNK", "DATA", "UPLOAD_END", "CANCEL", "BYE"}
    BY <1>3 DEF Toks
  <2>2. tok.type \in {"HELLO", "UPLOAD_BEGIN", "UPLOAD_CHUNK", "UPLOAD_END", "CANCEL", "BYE"}
    BY <1>1, <2>1
  <2>3. QED
    BY <2>1, <2>2 DEF FrameTypes
<1>7. CASE tok.type = "UPLOAD_CHUNK" /\ tok.arg > 0
  <2> DEFINE b == StreamPayload(tok.arg)
  <2>1. b \in BOOLEAN
    BY DEF StreamPayload
  <2>2. decoder' = [phase |-> "Payload", type |-> tok.type, arg |-> tok.arg,
                    left |-> tok.arg, streamed |-> b]
    BY <1>5, <1>7
  <2> HIDE DEF b
  <2>3. tok.arg \in Nat
    BY <1>6, <1>7
  <2>4. decoder' \in Decoders
    BY <1>6, <2>1, <2>2, <2>3 DEF Decoders
  <2>5. /\ decoder'.type = tok.type /\ decoder'.arg = tok.arg /\ decoder'.left = tok.arg
        /\ decoder'.phase = "Payload" /\ LeftOf(decoder') = tok.arg
    BY <2>2 DEF LeftOf
  <2>6. QED
    BY <1>1, <1>3, <1>4, <1>7, <2>4, <2>5 DEF tok
<1>8. CASE ~(tok.type = "UPLOAD_CHUNK" /\ tok.arg > 0)
  <2>1. decoder' = [phase |-> "Complete", type |-> tok.type, arg |-> tok.arg,
                    left |-> 0, streamed |-> FALSE]
    BY <1>5, <1>8
  <2>2. decoder' \in Decoders
    BY <1>6, <2>1 DEF Decoders
  <2>3. /\ decoder'.type = tok.type /\ decoder'.arg = tok.arg
        /\ decoder'.phase = "Complete" /\ LeftOf(decoder') = 0
    BY <2>1 DEF LeftOf
  <2>4. tok.type = "UPLOAD_CHUNK" /\ tok.arg >= 0 => tok.arg = 0
    BY <1>6, <1>8
  <2>5. QED
    BY <1>1, <1>3, <1>4, <2>2, <2>3, <2>4 DEF tok
<1>9. QED
  BY <1>7, <1>8

LEMMA FeedHeaderInv ==
  ASSUME SystemInv, Handles, FeedHeader
  PROVE  SystemInv'
<1> DEFINE tok == Head(readBuf)
<1>1. /\ tok \in Toks /\ tok.type # "DATA"
      /\ decoder.type = "NONE" /\ LeftOf(decoder) = 0
      /\ decoder' \in Decoders
      /\ decoder'.type = tok.type /\ decoder'.arg = tok.arg
      /\ decoder'.phase \in {"Payload", "Complete"}
      /\ decoder'.phase = "Payload" => decoder'.type = "UPLOAD_CHUNK" /\ decoder'.left > 0
      /\ tok.type = "UPLOAD_CHUNK" /\ tok.arg >= 0 => LeftOf(decoder') = tok.arg
      /\ tok.type # "UPLOAD_CHUNK" => LeftOf(decoder') = 0
  BY HeaderTypes
<1>2. /\ inRead' /\ readBuf # << >> /\ readBuf' = Tail(readBuf)
      /\ state' = state /\ tcp' = tcp /\ UNCHANGED <<writes, flushed>>
      /\ UNCHANGED <<declared, received, fed>>
  BY DEF FeedHeader, InCallback, Quietly, writeVars, lifeVars, uploadVars
<1>3. 1 \in 0 .. Len(readBuf) /\ readBuf' = DropFirst(1, readBuf)
  <2>1. readBuf \in Seq(Toks)
    BY DEF SystemInv, Basics, SessionTypes
  <2>2. Len(readBuf) \in Nat \ {0}
    BY <1>2, <2>1, EmptySeq
  <2>3. Tail(readBuf) = SubSeq(readBuf, 2, Len(readBuf))
    BY <1>2, <2>1, TailIsSubSeq
  <2>4. 1 + 1 = 2
    OBVIOUS
  <2>5. QED
    BY <1>2, <2>2, <2>3, <2>4 DEF DropFirst
<1>4. Hears(1, << >>) /\ Plain(<< >>)
  BY <1>2, <1>3, QuietPlain
<1>5. content' = content /\ content' \in Files /\ Len(content') = fed' /\ fed' \in Nat
  BY <1>2, SameContent, NothingSplit
<1>6. /\ state' \in {"AwaitHello", "Ready", "Uploading", "Closing"}
      /\ state' = "Closing" => tcp' # "open"
      /\ state' = "Uploading" => received' = fed'
      /\ declared' \in Int /\ received' \in Nat
  BY <1>2 DEF SystemInv, Basics, SessionTypes, SessionFits
<1>7. ~Has(Kinds(<< >>), "UPLOAD_BEGIN_ACK") /\ ~Has(Kinds(<< >>), "HELLO_ACK")
  BY NoMessage
<1>8. /\ Asked \in Seq(Toks) /\ Asked # << >> /\ tok = Asked[1] /\ Asked' = DropFirst(1, Asked)
      /\ Stream \in Seq(Toks) /\ Stream # << >> /\ tok = Stream[1] /\ Stream' = DropFirst(1, Stream)
      /\ 1 \in 0 .. Len(Stream)
      /\ Live => ~Acked
  BY <1>2, <1>4, HearsAsked
<1> HIDE DEF tok
<1>9. ASSUME Live  PROVE BeginFits' /\ FramingFits' /\ ContentFits' /\ CancelFits'
  <2>1. /\ pc' = pc /\ job' = job /\ heard' = heard /\ Meets' = Meets /\ Meets /\ Own' = Own
        /\ (Acked' <=> Acked) /\ (Current' <=> Current) /\ ~Acked
    BY <1>4, <1>7, <1>8, <1>9, HearsKeeps
  <2>2. BeginFits'
    <3>1. CASE tok.type # "UPLOAD_BEGIN"
      BY <1>1, <1>4, <1>7, <1>9, <2>1, <3>1, HearsBegin
    <3>2. CASE tok.type = "UPLOAD_BEGIN"
      <4>1. Carries(Asked, "UPLOAD_BEGIN")
        <5>1. 1 \in 1 .. Len(Asked)
          BY <1>8, EmptySeq
        <5>2. QED
          BY <1>8, <3>2, <5>1 DEF Carries
      <4>2. pc = "beginAck" /\ BeginLast(Asked, job.size)
        BY <2>1, <4>1 DEF SystemInv, Agreement, BeginFits
      <4>3. Asked' = << >> /\ tok.arg = job.size
        <5>1. DropFirst(1, Asked) = << >> /\ Asked[1].arg = job.size
          BY <1>8, <3>2, <4>2, BeginAlone
        <5>2. QED
          BY <1>8, <5>1
      <4>4. ~Carries(<< >>, "UPLOAD_BEGIN") /\ BeginLast(<< >>, job.size)
        BY CarriesNone, NoBegin
      <4>5. QED
        BY <1>1, <2>1, <4>2, <4>3, <4>4 DEF BeginFits
    <3>3. QED
      BY <3>1, <3>2
  <2>3. FramingFits'
    <3> SUFFICES ASSUME state = "Uploading", Current \/ heard = "yes"
                 PROVE  Framed(Stream', LeftOf(decoder')) /\ decoder'.phase # "Failed"
      BY <1>2, <2>1 DEF FramingFits
    <3>1. Framed(Stream, 0)
      BY <1>1, <2>1 DEF SystemInv, Agreement, FramingFits
    <3>2. /\ tok.type = "UPLOAD_CHUNK" => tok.arg >= 0 /\ Framed(Stream', tok.arg)
          /\ tok.type # "UPLOAD_CHUNK" => Framed(Stream', 0)
      BY <1>8, <3>1, FramedHeader
    <3>3. QED
      BY <1>1, <3>2
  <2>4. ContentFits'
    <3> SUFFICES ASSUME state = "Uploading", Current
                 PROVE  declared = job.size /\ DataIs(Stream', Own) /\ AllAre(content, Own)
      BY <1>2, <1>5, <2>1 DEF ContentFits
    <3>1. declared = job.size /\ DataIs(Stream, Own) /\ AllAre(content, Own)
      BY <2>1 DEF SystemInv, Agreement, ContentFits
    <3>2. DataIs(Stream', Own)
      BY <1>8, <3>1, DataIsDrop
    <3>3. QED
      BY <3>1, <3>2
  <2>5. CancelFits'
    <3>1. CASE state = "Uploading"
      <4>1. decoder'.type = "CANCEL" \/ \A i \in 1 .. 1 : Asked[i].type # "CANCEL"
        <5>1. \A i \in 1 .. 1 : i = 1
          OBVIOUS
        <5>2. decoder'.type = tok.type /\ tok = Asked[1]
          BY <1>1, <1>8
        <5>3. QED
          BY <5>1, <5>2
      <4>2. decoder.type # "CANCEL"
        BY <1>1
      <4>3. QED
        BY <1>4, <3>1, <4>1, <4>2, CancelStays
    <3>2. CASE state # "Uploading"
      BY <1>2, <3>2 DEF CancelFits
    <3>3. QED
      BY <3>1, <3>2
  <2>6. QED
    BY <2>2, <2>3, <2>4, <2>5
<1>10. /\ decoder'.phase \in {"Header", "Failed"} => decoder'.type = "NONE"
  BY <1>1
<1>11. QED
  BY <1>1, <1>2, <1>4, <1>5, <1>6, <1>7, <1>9, <1>10, PlainInv

\* A header is refused: what is no header, or anything once one was.
LEMMA FeedRefusedInv ==
  ASSUME SystemInv, Handles, FeedRefused
  PROVE  SystemInv'
<1> DEFINE f == Error("Violation")
<1>1. f \in Replies /\ f.type = "ERROR"
  BY ReplyTypes DEF ErrorCodes
<1>2. /\ inRead' /\ readBuf # << >> /\ DropRest
      /\ decoder.phase = "Failed" \/ (decoder.phase = "Header" /\ Head(readBuf).type = "DATA")
      /\ decoder' = [decoder EXCEPT !.phase = "Failed"]
      /\ Send(<<f>>, state, "Closing") /\ state # "Closing"
      /\ UNCHANGED <<declared, received, fed>>
  BY DEF FeedRefused, InCallback, Violation, uploadVars
<1> HIDE DEF f
<1> DEFINE k == Len(readBuf)
<1>3. k \in 0 .. Len(readBuf) /\ readBuf' = DropFirst(k, readBuf)
  BY <1>2, LosesRest
<1> HIDE DEF k
<1>4. PICK m : /\ Hears(k, m) /\ Plain(m)
               /\ \/ m = <<f>> /\ state' = state /\ tcp = "open" /\ tcp' = "open"
                  \/ m = << >> /\ state' = "Closing" /\ tcp' # "open"
  BY <1>1, <1>2, <1>3, SendPlain
<1>5. ~Has(Kinds(m), "HELLO_ACK")
  <2>1. ~Has(Kinds(<<f>>), "HELLO_ACK") /\ ~Has(Kinds(<< >>), "HELLO_ACK")
    BY <1>1, OneMessage, NoMessage
  <2>2. QED
    BY <1>4, <2>1
<1>6. content' = content /\ content' \in Files /\ Len(content') = fed' /\ fed' \in Nat
  BY <1>2, SameContent, NothingSplit
<1>7. decoder' \in Decoders /\ decoder'.phase = "Failed" /\ decoder'.type = "NONE"
  <2>1. decoder \in Decoders /\ decoder.type = "NONE"
    BY <1>2 DEF SystemInv, Basics, SessionTypes, SessionFits
  <2>2. QED
    BY <1>2, <2>1 DEF Decoders
<1>8. /\ state' \in {"AwaitHello", "Ready", "Uploading", "Closing"}
      /\ state' = "Closing" => tcp' # "open"
      /\ state' = "Uploading" => state = "Uploading" /\ received' = fed'
      /\ state' = "AwaitHello" => state = "AwaitHello"
      /\ tcp' = "open" => tcp = "open"
      /\ declared' \in Int /\ received' \in Nat
  BY <1>2, <1>4 DEF SystemInv, Basics, SessionTypes, SessionFits
<1>9. /\ Stream # << >> /\ Stream \in Seq(Toks) /\ Head(readBuf) = Stream[1]
      /\ Live => ~Acked
  BY <1>2, <1>4, HearsAsked
<1>10. ~Has(Kinds(m), "UPLOAD_BEGIN_ACK")
  BY <1>4 DEF Plain
<1>11. ASSUME Live  PROVE BeginFits' /\ FramingFits' /\ ContentFits' /\ CancelFits'
  <2>1. BeginFits'
    BY <1>4, <1>7, <1>9, <1>10, <1>11, HearsBegin
  <2>2. /\ heard' = heard /\ Meets /\ Meets' = Meets /\ (Current' <=> Current)
    BY <1>4, <1>10, <1>11, HearsKeeps
  <2>3. state' = "Uploading" => ~(Current \/ heard = "yes")
    <3> SUFFICES ASSUME state = "Uploading", Current \/ heard = "yes"  PROVE FALSE
      BY <1>8
    <3>1. Framed(Stream, LeftOf(decoder)) /\ decoder.phase # "Failed"
      BY <2>2 DEF SystemInv, Agreement, FramingFits
    <3>2. Framed(Stream, 0) /\ Stream[1].type = "DATA"
      BY <1>2, <1>9, <3>1 DEF LeftOf
    <3>3. QED
      BY <1>9, <3>2, FramedHeader
  <2>4. FramingFits' /\ ContentFits' /\ CancelFits'
    BY <2>2, <2>3 DEF FramingFits, ContentFits, CancelFits
  <2>5. QED
    BY <2>1, <2>4
<1>12. QED
  BY <1>2, <1>4, <1>5, <1>6, <1>7, <1>8, <1>11, PlainInv

\* How much of the chunk is taken, and the decoder after it.
LEMMA PayloadTypes ==
  ASSUME SystemInv, FeedPayload
  PROVE  LET k == IF decoder.left < Len(readBuf) THEN decoder.left ELSE Len(readBuf)
         IN /\ k \in 0 .. Len(readBuf) /\ k \in Nat /\ readBuf' = DropFirst(k, readBuf)
            /\ decoder.type = "UPLOAD_CHUNK" /\ LeftOf(decoder) \in Nat
            /\ k \in 0 .. LeftOf(decoder)
            /\ decoder' \in Decoders /\ decoder'.type = "UPLOAD_CHUNK"
            /\ decoder'.phase \in {"Payload", "Complete"}
            /\ decoder'.phase = "Payload" => decoder'.left > 0
            /\ LeftOf(decoder') = LeftOf(decoder) - k
<1> DEFINE k == IF decoder.left < Len(readBuf) THEN decoder.left ELSE Len(readBuf)
<1>1. /\ readBuf # << >> /\ decoder.phase = "Payload" /\ readBuf' = DropFirst(k, readBuf)
      /\ decoder' = [decoder EXCEPT !.left = decoder.left - k,
                                    !.phase = IF k = decoder.left THEN "Complete" ELSE decoder.phase]
  BY DEF FeedPayload
<1>2. decoder \in Decoders /\ readBuf \in Seq(Toks) /\ decoder.type = "UPLOAD_CHUNK"
  BY <1>1 DEF SystemInv, Basics, SessionTypes, SessionFits
<1>3. decoder.left \in Nat /\ Len(readBuf) \in Nat
  BY <1>2, LenProperties DEF Decoders
<1>4. k \in Nat /\ k \in 0 .. Len(readBuf) /\ k \in 0 .. decoder.left
  BY <1>3
<1> DEFINE l == decoder.left - k
           p == IF k = decoder.left THEN "Complete" ELSE decoder.phase
<1>5. l \in Nat /\ p \in {"Payload", "Complete"} /\ (p = "Payload" => l > 0) /\ (p = "Complete" => l = 0)
  BY <1>1, <1>3, <1>4
<1>6. decoder' = [decoder EXCEPT !.left = l, !.phase = p]
  BY <1>1
<1>7. LeftOf(decoder) = decoder.left
  BY <1>1 DEF LeftOf
<1> HIDE DEF l, p, k
<1>8. decoder' \in Decoders
  BY <1>2, <1>5, <1>6 DEF Decoders
<1>9. decoder'.type = decoder.type /\ decoder'.left = l /\ decoder'.phase = p
  BY <1>2, <1>6 DEF Decoders
<1>10. LeftOf(decoder') = l
  BY <1>5, <1>9 DEF LeftOf
<1>11. l = decoder.left - k
  BY DEF l
<1>12. QED
  BY <1>1, <1>2, <1>3, <1>4, <1>5, <1>7, <1>8, <1>9, <1>10, <1>11 DEF k

\* The two agree on what is left of it.
LEMMA PayloadAgrees ==
  ASSUME SystemInv, Live, readBuf # << >>,
         NEW k \in Nat, NEW m, Hears(k, m), ~Has(Kinds(m), "UPLOAD_BEGIN_ACK"),
         decoder.type = "UPLOAD_CHUNK", LeftOf(decoder) \in Nat, k \in 0 .. LeftOf(decoder),
         decoder'.type = "UPLOAD_CHUNK", decoder'.phase \in {"Payload", "Complete"},
         LeftOf(decoder') = LeftOf(decoder) - k,
         state' = "Uploading" => state = "Uploading", declared' = declared,
         content' \in {content, content \o TakeFirst(k, readBuf)}
  PROVE  BeginFits' /\ FramingFits' /\ ContentFits' /\ CancelFits'
<1>1. /\ pc' = pc /\ job' = job /\ heard' = heard /\ Meets' = Meets /\ Meets
      /\ Own' = Own /\ Cancelled' = Cancelled /\ (Current' <=> Current)
  BY HearsKeeps
<1>2. /\ Asked \in Seq(Toks) /\ k \in 0 .. Len(Asked) /\ Asked' = DropFirst(k, Asked)
      /\ Stream \in Seq(Toks) /\ k \in 0 .. Len(Stream) /\ Stream' = DropFirst(k, Stream)
      /\ \A i \in 1 .. Len(readBuf) : Asked[i] = readBuf[i] /\ Stream[i] = readBuf[i]
      /\ ~Acked
  BY HearsAsked
<1>3. k \in 0 .. Len(readBuf) /\ readBuf \in Seq(Toks) /\ content \in Seq(Toks) /\ Len(readBuf) \in Nat
  BY LenProperties DEF Hears, SystemInv, Basics, SessionTypes, Files
<1>4. BeginFits'
  BY <1>2, HearsBegin
<1> DEFINE n == LeftOf(decoder)
<1>5. ASSUME state = "Uploading", Current \/ heard = "yes"
      PROVE  /\ Framed(Stream', n - k)
             /\ \A i \in 1 .. k : Stream[i].type = "DATA"
  <2>1. Framed(Stream, n)
    BY <1>1, <1>5 DEF SystemInv, Agreement, FramingFits
  <2>2. n \in Nat /\ k \in 0 .. n
    OBVIOUS
  <2> HIDE DEF n
  <2>3. QED
    BY <1>2, <2>1, <2>2, FramedDrop
<1>6. FramingFits'
  BY <1>1, <1>5 DEF FramingFits
<1>7. ContentFits'
  <2> SUFFICES ASSUME state = "Uploading", Current
               PROVE  declared = job.size /\ DataIs(Stream', Own) /\ AllAre(content', Own)
    BY <1>1 DEF ContentFits
  <2>1. declared = job.size /\ DataIs(Stream, Own) /\ AllAre(content, Own)
    BY <1>1 DEF SystemInv, Agreement, ContentFits
  <2>2. DataIs(Stream', Own)
    BY <1>2, <2>1, DataIsDrop
  <2>3. AllAre(content \o TakeFirst(k, readBuf), Own)
    <3> DEFINE t == TakeFirst(k, readBuf)
               o == Own
    <3>1. t \in Seq(Toks) /\ Len(t) = k /\ \A i \in 1 .. k : t[i] = readBuf[i]
      BY <1>3, TakeType
    <3>2. \A i \in 1 .. k : Stream[i] = o
      <4> TAKE i \in 1 .. k
      <4>1. i \in 1 .. Len(Stream)
        BY <1>2, LenProperties
      <4>2. Stream[i].type = "DATA"
        BY <1>5
      <4>3. QED
        BY <2>1, <4>1, <4>2 DEF DataIs
    <3>3. \A i \in 1 .. k : i \in 1 .. Len(readBuf)
      BY <1>3
    <3>4. AllAre(content, o)
      BY <2>1
    <3> HIDE DEF t, o
    <3>5. AllAre(t, o)
      BY <1>2, <3>1, <3>2, <3>3 DEF AllAre
    <3>6. AllAre(content \o t, o)
      BY <1>3, <3>1, <3>4, <3>5, AllAreConcat
    <3>7. QED
      BY <3>6 DEF t, o
  <2>4. QED
    BY <2>1, <2>2, <2>3
<1>8. CancelFits'
  <2> SUFFICES ASSUME state = "Uploading", heard = "yes"  PROVE CancelFits'
    BY <1>1 DEF CancelFits
  <2>1. \A i \in 1 .. k : Asked[i].type = "DATA"
    <3>1. \A i \in 1 .. k : i \in 1 .. Len(readBuf)
      BY <1>3
    <3>2. QED
      BY <1>2, <1>5, <3>1
  <2>2. decoder.type # "CANCEL" /\ \A i \in 1 .. k : Asked[i].type # "CANCEL"
    BY <2>1
  <2>3. QED
    BY <2>2, CancelStays
<1>9. QED
  BY <1>4, <1>6, <1>7, <1>8

\* What a step of FeedPayload has to show.
LEMMA PayloadInv ==
  ASSUME SystemInv, Handles, FeedPayload, NEW m, Plain(m), ~Has(Kinds(m), "HELLO_ACK"),
         Hears(IF decoder.left < Len(readBuf) THEN decoder.left ELSE Len(readBuf), m),
         state' \in {"AwaitHello", "Ready", "Uploading", "Closing"},
         state' = "AwaitHello" => state = "AwaitHello",
         state' = "Uploading" => state = "Uploading" /\ received' = fed',
         state' = "Closing" => tcp' # "open",
         tcp' = "open" => tcp = "open",
         declared' = declared, received' \in Nat,
         \/ fed' = fed
         \/ fed' = fed + (IF decoder.left < Len(readBuf) THEN decoder.left ELSE Len(readBuf))
  PROVE  SystemInv'
<1> DEFINE k == IF decoder.left < Len(readBuf) THEN decoder.left ELSE Len(readBuf)
<1>1. /\ k \in 0 .. Len(readBuf) /\ k \in Nat
      /\ decoder.type = "UPLOAD_CHUNK" /\ LeftOf(decoder) \in Nat
      /\ k \in 0 .. LeftOf(decoder)
      /\ decoder' \in Decoders /\ decoder'.type = "UPLOAD_CHUNK"
      /\ decoder'.phase \in {"Payload", "Complete"}
      /\ decoder'.phase = "Payload" => decoder'.left > 0
      /\ LeftOf(decoder') = LeftOf(decoder) - k
  BY PayloadTypes
<1>2. Hears(k, m) /\ (fed' = fed \/ fed' = fed + k)
  OBVIOUS
<1> HIDE DEF k
<1>3. inRead' /\ readBuf # << >>
  BY DEF FeedPayload, InCallback
<1>4. /\ content \in Files /\ Len(content) = fed /\ fed \in Nat /\ readBuf \in Seq(Toks)
      /\ declared' \in Int
  BY DEF SystemInv, Basics, SessionTypes, SessionFits
<1>5. /\ content' \in {content, content \o TakeFirst(k, readBuf)}
      /\ content' \in Files /\ Len(content') = fed' /\ fed' \in Nat
  <2>1. CASE fed' = fed
    BY <1>4, <2>1, SameContent
  <2>2. CASE fed' = fed + k /\ k # 0
    <3> DEFINE t == TakeFirst(k, readBuf)
    <3>1. t \in Seq(Toks) /\ Len(t) = k
      BY <1>1, <1>4, TakeType
    <3>2. fed' > fed /\ fed' - fed = k /\ fed' \in Nat
      BY <1>1, <1>4, <2>2
    <3>3. content' = content \o t
      BY <3>2 DEF Handles
    <3> HIDE DEF t
    <3>4. content \in Seq(Toks)
      BY <1>4 DEF Files
    <3>5. content \o t \in Seq(Toks) /\ Len(content \o t) = Len(content) + Len(t)
      BY <3>1, <3>4, ConcatLen
    <3>6. content' \in Files /\ Len(content') = fed'
      BY <1>4, <2>2, <3>1, <3>3, <3>5 DEF Files
    <3>7. QED
      BY <3>2, <3>3, <3>6 DEF t
  <2>3. CASE fed' = fed + k /\ k = 0
    <3>1. fed' = fed
      BY <1>4, <2>3
    <3>2. QED
      BY <1>4, <3>1, SameContent
  <2>4. QED
    BY <1>2, <2>1, <2>2, <2>3
<1>6. ~Has(Kinds(m), "UPLOAD_BEGIN_ACK")
  BY DEF Plain
<1>7. Live => BeginFits' /\ FramingFits' /\ ContentFits' /\ CancelFits'
  BY <1>1, <1>2, <1>3, <1>5, <1>6, PayloadAgrees
<1>8. /\ decoder'.phase \in {"Header", "Failed"} => decoder'.type = "NONE"
      /\ decoder'.phase = "Payload" => decoder'.type = "UPLOAD_CHUNK" /\ decoder'.left > 0
  BY <1>1
<1>9. QED
  BY <1>1, <1>2, <1>3, <1>4, <1>5, <1>7, <1>8, PlainInv

LEMMA FeedPayloadInv ==
  ASSUME SystemInv, Handles, FeedPayload
  PROVE  SystemInv'
<1> DEFINE k == IF decoder.left < Len(readBuf) THEN decoder.left ELSE Len(readBuf)
<1>1. k \in 0 .. Len(readBuf) /\ k \in Nat /\ readBuf' = DropFirst(k, readBuf)
  BY PayloadTypes
<1>2. \/ Quietly /\ UNCHANGED uploadVars
      \/ decoder.streamed /\ state = "Uploading" /\ PayloadChunk(k)
  BY DEF FeedPayload, PayloadChunk
<1>3. /\ state \in {"AwaitHello", "Ready", "Uploading", "Closing"}
      /\ state = "Closing" => tcp # "open"
      /\ state = "Uploading" => received = fed
      /\ declared \in Int /\ received \in Nat /\ fed \in Nat
  BY DEF SystemInv, Basics, SessionTypes, SessionFits
<1>4. CASE Quietly /\ UNCHANGED uploadVars
  <2>1. /\ UNCHANGED <<writes, flushed>> /\ state' = state /\ tcp' = tcp
        /\ UNCHANGED <<declared, received, fed>>
    BY <1>4 DEF Quietly, writeVars, lifeVars, uploadVars
  <2> HIDE DEF k
  <2>2. Hears(k, << >>) /\ Plain(<< >>)
    BY <1>1, <2>1, QuietPlain
  <2>3. ~Has(Kinds(<< >>), "HELLO_ACK")
    BY NoMessage
  <2>4. QED
    BY <1>3, <2>1, <2>2, <2>3, PayloadInv DEF k
<1>5. CASE state = "Uploading" /\ received + k > declared /\ PayloadChunk(k)
  <2> DEFINE f == Error("SizeMismatch")
  <2>1. f \in Replies /\ f.type = "ERROR"
    BY ReplyTypes DEF ErrorCodes
  <2>2. /\ Send(<<f>>, "Ready", "Closing")
        /\ received' = received + k /\ declared' = declared /\ fed' = fed
    BY <1>5 DEF PayloadChunk, Abort
  <2> HIDE DEF k, f
  <2>3. PICK m : /\ Hears(k, m) /\ Plain(m)
                 /\ \/ m = <<f>> /\ state' = "Ready" /\ tcp = "open" /\ tcp' = "open"
                    \/ m = << >> /\ state' = "Closing" /\ tcp' # "open"
    BY <1>1, <2>1, <2>2, SendPlain
  <2>4. ~Has(Kinds(m), "HELLO_ACK")
    <3>1. ~Has(Kinds(<<f>>), "HELLO_ACK") /\ ~Has(Kinds(<< >>), "HELLO_ACK")
      BY <2>1, OneMessage, NoMessage
    <3>2. QED
      BY <2>3, <3>1
  <2>5. received' \in Nat
    BY <1>1, <1>3, <2>2
  <2>6. QED
    BY <2>2, <2>3, <2>4, <2>5, PayloadInv DEF k
<1>6. CASE state = "Uploading" /\ ~(received + k > declared) /\ PayloadChunk(k)
  <2>1. received' = received + k /\ declared' = declared /\ fed' = fed + k
    BY <1>6 DEF PayloadChunk
  <2>2. received' \in Nat /\ received' = fed'
    BY <1>1, <1>3, <1>6, <2>1
  <2>3. Quietly \/ Send(<<Frame("UPLOAD_ACK")>>, state, "Closing")
    BY <1>6 DEF PayloadChunk
  <2>4. CASE Quietly
    <3>1. UNCHANGED <<writes, flushed>> /\ state' = state /\ tcp' = tcp
      BY <2>4 DEF Quietly, writeVars, lifeVars
    <3> HIDE DEF k
    <3>2. Hears(k, << >>) /\ Plain(<< >>)
      BY <1>1, <3>1, QuietPlain
    <3>3. ~Has(Kinds(<< >>), "HELLO_ACK")
      BY NoMessage
    <3>4. QED
      BY <1>3, <1>6, <2>1, <2>2, <3>1, <3>2, <3>3, PayloadInv DEF k
  <2>5. CASE Send(<<Frame("UPLOAD_ACK")>>, state, "Closing")
    <3> DEFINE f == Frame("UPLOAD_ACK")
    <3>1. f \in Replies /\ f.type = "UPLOAD_ACK" /\ Send(<<f>>, state, "Closing")
      BY <2>5, ReplyTypes
    <3> HIDE DEF k, f
    <3>2. PICK m : /\ Hears(k, m) /\ Plain(m)
                   /\ \/ m = <<f>> /\ state' = state /\ tcp = "open" /\ tcp' = "open"
                      \/ m = << >> /\ state' = "Closing" /\ tcp' # "open"
      BY <1>1, <3>1, SendPlain
    <3>3. ~Has(Kinds(m), "HELLO_ACK")
      <4>1. ~Has(Kinds(<<f>>), "HELLO_ACK") /\ ~Has(Kinds(<< >>), "HELLO_ACK")
        BY <3>1, OneMessage, NoMessage
      <4>2. QED
        BY <3>2, <4>1
    <3>4. QED
      BY <1>6, <2>1, <2>2, <3>2, <3>3, PayloadInv DEF k
  <2>6. QED
    BY <2>3, <2>4, <2>5
<1>7. QED
  BY <1>2, <1>4, <1>5, <1>6

LEMMA FeedInv ==
  ASSUME SystemInv, Handles, Feed
  PROVE  SystemInv'
BY FeedHeaderInv, FeedRefusedInv, FeedPayloadInv DEF Feed

\* A decoder that stays where it is, of a session that has read nothing.
LEMMA DecoderStays ==
  ASSUME SystemInv, Live, NEW m, Hears(0, m), ~Has(Kinds(m), "UPLOAD_BEGIN_ACK"),
         decoder' = decoder, decoder.phase # "Complete",
         state' = "Uploading" => state = "Uploading", declared' = declared, content' = content
  PROVE  BeginFits' /\ FramingFits' /\ ContentFits' /\ CancelFits'
<1>1. /\ pc' = pc /\ job' = job /\ heard' = heard /\ Meets' = Meets /\ Meets
      /\ Own' = Own /\ Cancelled' = Cancelled /\ (Current' <=> Current)
  BY HearsKeeps
<1>2. Asked' = Asked /\ Stream' = Stream
  BY StreamSame
<1>3. decoder.type \in {"NONE", "UPLOAD_CHUNK"}
  BY DEF SystemInv, Basics, SessionTypes, SessionFits, Decoders
<1>4. BeginFits'
  <2>1. Acked => decoder'.phase = "Header"
    BY <1>1 DEF SystemInv, Agreement, BeginFits
  <2>2. decoder'.type # "UPLOAD_BEGIN"
    BY <1>3
  <2>3. QED
    BY <2>1, <2>2, HearsBegin
<1>5. FramingFits'
  BY <1>1, <1>2 DEF SystemInv, Agreement, FramingFits
<1>6. ContentFits'
  BY <1>1, <1>2 DEF SystemInv, Agreement, ContentFits
<1>7. CancelFits'
  BY <1>1, <1>2 DEF SystemInv, Agreement, CancelFits
<1>8. QED
  BY <1>4, <1>5, <1>6, <1>7

LEMMA EndReadInv ==
  ASSUME SystemInv, Handles, EndRead
  PROVE  SystemInv'
<1>1. /\ readBuf' = << >> /\ decoder' = decoder /\ decoder.phase # "Complete"
      /\ readBuf = << >> \/ state = "Closing"
      /\ state' = state /\ tcp' = tcp /\ UNCHANGED <<writes, flushed>>
      /\ UNCHANGED <<declared, received, fed>>
  BY DEF EndRead, writeVars, uploadVars
<1>2. content' = content /\ content' \in Files /\ Len(content') = fed' /\ fed' \in Nat
  BY <1>1, SameContent, NothingSplit
<1>3. PICK k \in 0 .. Len(readBuf) :
        readBuf' = DropFirst(k, readBuf) /\ (state # "Closing" => k = 0)
  <2>1. CASE readBuf = << >>
    BY <1>1, <2>1, KeepsRest
  <2>2. CASE state = "Closing"
    BY <1>1, <2>2, LosesRest DEF DropRest
  <2>3. QED
    BY <1>1, <2>1, <2>2
<1>4. Hears(k, << >>) /\ Plain(<< >>)
  BY <1>1, <1>3, QuietPlain
<1>5. ~Has(Kinds(<< >>), "UPLOAD_BEGIN_ACK") /\ ~Has(Kinds(<< >>), "HELLO_ACK")
  BY NoMessage
<1>6. /\ state' \in {"AwaitHello", "Ready", "Uploading", "Closing"}
      /\ state' = "Closing" => tcp' # "open"
      /\ state' = "Uploading" => received' = fed'
      /\ decoder' \in Decoders
      /\ decoder'.phase \in {"Header", "Failed"} => decoder'.type = "NONE"
      /\ decoder'.phase = "Payload" => decoder'.type = "UPLOAD_CHUNK" /\ decoder'.left > 0
      /\ declared' \in Int /\ received' \in Nat
  BY <1>1 DEF SystemInv, Basics, SessionTypes, SessionFits
<1>7. ASSUME Live  PROVE BeginFits' /\ FramingFits' /\ ContentFits' /\ CancelFits'
  <2>1. CASE state # "Closing"
    BY <1>1, <1>2, <1>3, <1>4, <1>5, <1>7, <2>1, DecoderStays
  <2>2. CASE state = "Closing"
    <3>1. decoder'.type # "UPLOAD_BEGIN"
      BY <1>1, <1>6 DEF Decoders
    <3>2. Meets
      BY <1>4, <1>7, HearsKeeps
    <3>3. Acked => decoder'.phase = "Header"
      BY <1>1, <3>2 DEF SystemInv, Agreement, BeginFits
    <3>4. BeginFits'
      BY <1>4, <1>5, <1>7, <3>1, <3>3, HearsBegin
    <3>5. FramingFits' /\ ContentFits' /\ CancelFits'
      BY <1>1, <2>2, HearsOutside
    <3>6. QED
      BY <3>4, <3>5
  <2>3. QED
    BY <2>1, <2>2
<1>8. QED
  BY <1>1, <1>2, <1>4, <1>5, <1>6, <1>7, PlainInv

LEMMA HandlesInv ==
  ASSUME SystemInv, Handles
  PROVE  SystemInv'
BY FeedInv, DispatchInv, EndReadInv DEF Handles, SessionStep, Callback

-----------------------------------------------------------------------------
(* The steps of the session's loop.                                        *)

\* What one leaves that brings nothing new to either side.
LEMMA SameAgrees ==
  ASSUME SystemInv, Live, UNCHANGED <<snap, pc, job, heard, link, decoder, declared, content>>,
         state' \in {state, "Closing"},
         Asked' = Asked, Stream' = Stream, Frames' = Frames,
         Live /\ pc \in Open =>
           /\ ResultsAre(toClient', OwnFile)
           /\ link # "cut" /\ tcp' = "open" => AllAre(results', OwnFile),
         Meets /\ tcp' = "open" => OneResult(results', Kinds(Unsent'))
  PROVE  Agreement'
<1>1. Live' = Live /\ Meets' = Meets /\ Cancelled' = Cancelled /\ Own' = Own /\ OwnFile' = OwnFile
  BY DEF Live, Meets, Cancelled, Own, OwnFile
<1>2. Acked' = Acked /\ (Current' <=> Current)
  BY DEF Acked, Current
<1>3. AckFits'
  BY <1>1, <1>2 DEF SystemInv, Agreement, AckFits
<1>4. BeginFits'
  BY <1>1, <1>2 DEF SystemInv, Agreement, BeginFits
<1>5. GreetingFits'
  BY <1>1 DEF SystemInv, Agreement, GreetingFits
<1>6. FramingFits'
  BY <1>1, <1>2 DEF SystemInv, Agreement, FramingFits
<1>7. ContentFits'
  BY <1>1, <1>2 DEF SystemInv, Agreement, ContentFits
<1>8. ResultFits'
  <2>1. Meets' /\ state' = "Uploading" /\ ~Acked' => ~Has(Frames', "RESULT_CHUNK")
    BY <1>1, <1>2 DEF SystemInv, Agreement, ResultFits
  <2>2. QED
    BY <1>1, <2>1 DEF ResultFits
<1>9. ResultTrue'
  BY <1>1 DEF ResultTrue
<1>10. CancelFits'
  BY <1>1 DEF SystemInv, Agreement, CancelFits
<1>11. QED
  BY <1>3, <1>4, <1>5, <1>6, <1>7, <1>8, <1>9, <1>10 DEF Agreement

LEMMA SameBasics ==
  ASSUME SystemInv, UNCHANGED <<snap, pc, job, out, heard, link>>,
         UNCHANGED <<decoder, declared, received, fed, content>>,
         state' \in {state, "Closing"}, state' = "Closing" => tcp' # "open",
         toServer' \in Seq(Toks), readBuf' \in Seq(Toks),
         inRead' \/ (readBuf' = << >> /\ decoder.phase # "Complete"),
         writes' \in Seq(Replies), flushed' \in 0 .. Len(writes'),
         RepliesTrue', Live => Agreement'
  PROVE  SystemInv'
<1>1. ClientTypes' /\ OutFits' /\ PhaseFits' /\ Live' = Live
  BY ClientKept
<1>2. Agreement'
  <2>1. CASE ~Live
    BY <1>1, <2>1, OverAgrees
  <2>2. QED
    BY <2>1
<1>3. SessionTypes'
  BY DEF SystemInv, Basics, SessionTypes
<1>4. SessionFits'
  BY DEF SystemInv, Basics, SessionFits
<1>5. QED
  BY <1>1, <1>2, <1>3, <1>4 DEF SystemInv, Basics

\* The next read.
LEMMA TakeDrop ==
  ASSUME NEW S, NEW s \in Seq(S), NEW n \in 0 .. Len(s)
  PROVE  TakeFirst(n, s) \o DropFirst(n, s) = s
<1>1. Len(s) \in Nat
  BY LenProperties
<1>2. 1 \in 1 .. Len(s) + 1 /\ n \in 1 - 1 .. Len(s) /\ Len(s) \in n .. Len(s)
  BY <1>1
<1>3. SubSeq(s, 1, n) \o SubSeq(s, n + 1, Len(s)) = SubSeq(s, 1, Len(s))
  BY <1>2, ConcatAdjacentSubSeq
<1>4. SubSeq(s, 1, Len(s)) = s
  BY SubSeqFull
<1>5. QED
  BY <1>3, <1>4 DEF TakeFirst, DropFirst

LEMMA DeliverInv ==
  ASSUME SystemInv, Deliver
  PROVE  SystemInv'
<1>1. PICK n \in 1 .. C!Smaller(MaxBatch, Len(toServer)) :
         /\ SessionStep(OnRead(TakeFirst(n, toServer)))
         /\ toServer' = DropFirst(n, toServer)
  BY DEF Deliver
<1>2. /\ UNCHANGED <<snap, pc, job, out, link, heard, toClient, content, results>>
      /\ ~inRead /\ inRead' /\ readBuf' = TakeFirst(n, toServer)
      /\ UNCHANGED <<state, declared, received, fed, writes, flushed, tcp, decoder>>
  BY <1>1 DEF Deliver, SessionStep, OnRead, clientVars, uploadVars, writeVars, lifeVars
<1>3. toServer \in Seq(Toks) /\ readBuf = << >>
  BY <1>2 DEF SystemInv, Basics, ClientTypes, SessionFits
<1>4. n \in 0 .. Len(toServer)
  <2>1. Len(toServer) \in Nat /\ MaxBatch \in Nat
    BY <1>3, LenProperties, SessionAssumption
  <2>2. QED
    BY <2>1 DEF C!Smaller
<1>5. /\ readBuf' \in Seq(Toks) /\ toServer' \in Seq(Toks)
      /\ readBuf' \o toServer' = toServer
  BY <1>1, <1>2, <1>3, <1>4, TakeType, DropType, TakeDrop
<1>6. Asked' = Asked
  <2>1. << >> \o toServer = toServer
    BY <1>3, ConcatEmptySeq
  <2>2. QED
    BY <1>3, <1>5, <2>1 DEF Asked
<1>7. Stream' = Stream
  BY <1>2, <1>6 DEF Stream
<1>8. Frames' = Frames /\ Unsent' = Unsent
  BY <1>2 DEF Frames, Unsent
<1>9. RepliesTrue'
  BY <1>2 DEF SystemInv, Basics, RepliesTrue, Live
<1>10. ASSUME Live  PROVE Agreement'
  <2>1. /\ Live /\ pc \in Open =>
             /\ ResultsAre(toClient', OwnFile)
             /\ link # "cut" /\ tcp' = "open" => AllAre(results', OwnFile)
        /\ Meets /\ tcp' = "open" => OneResult(results', Kinds(Unsent'))
    BY <1>2, <1>8 DEF SystemInv, Agreement, ResultTrue, ResultFits
  <2>2. QED
    BY <1>2, <1>6, <1>7, <1>8, <1>10, <2>1, SameAgrees
<1>11. /\ writes' \in Seq(Replies) /\ flushed' \in 0 .. Len(writes')
       /\ state' = "Closing" => tcp' # "open"
  BY <1>2 DEF SystemInv, Basics, SessionTypes, SessionFits
<1>12. QED
  BY <1>2, <1>5, <1>9, <1>10, <1>11, SameBasics

\* What the client reads of a frame.
LEMMA ReplyRead ==
  ASSUME NEW frame \in Replies, frame.type = "RESULT_CHUNK" => Head(results) \in Files
  PROVE  /\ AsReply(frame) \in Arrivals /\ AsReply(frame).type = frame.type
         /\ frame.type = "RESULT_CHUNK" => AsReply(frame).body = <<Head(results)>>
         /\ frame.type \in {"ANALYZE_DONE", "RESULT_BEGIN"} => AsReply(frame).arg = 1
<1>1. frame.type \in FrameNames
  BY ReplyKinds
<1>2. CASE frame.type = "RESULT_CHUNK"
  <2> DEFINE b == <<Head(results)>>
             x == AsReply(frame)
  <2>1. b \in Seq(Files)
    BY <1>2
  <2> HIDE DEF b
  <2>2. x = [type |-> frame.type, arg |-> 0, body |-> b]
    BY <1>2 DEF AsReply, C!Reply, b
  <2> HIDE DEF x
  <2>3. x \in Arrivals /\ x.type = frame.type /\ x.body = b
    BY <1>1, <2>1, <2>2 DEF Arrivals
  <2>4. QED
    BY <1>2, <2>3 DEF x, b
<1>3. CASE frame.type # "RESULT_CHUNK"
  <2> DEFINE n == IF frame.type \in {"ANALYZE_DONE", "RESULT_BEGIN"} THEN 1 ELSE 0
             x == AsReply(frame)
  <2>1. n \in Int /\ << >> \in Seq(Files)
    BY EmptySeq
  <2>2. x = [type |-> frame.type, arg |-> n, body |-> << >>]
    BY <1>3 DEF AsReply, C!Reply
  <2>3. frame.type \in {"ANALYZE_DONE", "RESULT_BEGIN"} => n = 1
    OBVIOUS
  <2> HIDE DEF x, n
  <2>4. x \in Arrivals /\ x.type = frame.type /\ x.arg = n
    BY <1>1, <2>1, <2>2 DEF Arrivals
  <2>5. QED
    BY <1>3, <2>3, <2>4 DEF x
<1>4. QED
  BY <1>2, <1>3

LEMMA TransmitReplyInv ==
  ASSUME SystemInv, TransmitReply
  PROVE  SystemInv'
<1> DEFINE frame == writes[1]
           x == AsReply(frame)
           u == Unsent
           k == Kinds(u)
<1>1. /\ UNCHANGED <<snap, pc, job, out, link, heard, toServer, content>>
      /\ UNCHANGED <<state, declared, received, fed, decoder, inRead, readBuf>>
      /\ ~inRead /\ link = "up" /\ tcp = "open" /\ tcp' = tcp
      /\ flushed = 0 /\ flushed < Len(writes) /\ flushed' = flushed + 1 /\ writes' = writes
  BY DEF TransmitReply, SessionStep, Transmit, clientVars, uploadVars, lifeVars, callVars
<1>2. flushed + 1 = 1
  BY <1>1
<1>3. /\ toClient' = Append(toClient, x)
      /\ results' = IF frame.type = "RESULT_CHUNK" THEN Tail(results) ELSE results
  BY <1>2 DEF TransmitReply
<1>4. writes \in Seq(Replies) /\ Len(writes) \in Nat /\ 0 \in 0 .. Len(writes) /\ 0 < Len(writes)
      /\ 1 \in 1 .. Len(writes)
  BY <1>1, LenProperties DEF SystemInv, Basics, SessionTypes
<1>5. frame \in Replies
  BY <1>4, ElementOfSeq
<1>6. /\ u \in Seq(Replies) /\ u # << >> /\ Head(u) = frame /\ Unsent' = Tail(u)
  <2>1. DropFirst(0, writes) # << >> /\ Head(DropFirst(0, writes)) = writes[0 + 1]
        /\ Tail(DropFirst(0, writes)) = DropFirst(0 + 1, writes)
    BY <1>4, DropTail
  <2>2. DropFirst(0, writes) \in Seq(Replies)
    BY <1>4, DropType
  <2>3. 0 + 1 = 1
    OBVIOUS
  <2>4. u = DropFirst(0, writes) /\ Unsent' = DropFirst(1, writes)
    BY <1>1, <1>2 DEF Unsent
  <2>5. QED
    BY <2>1, <2>2, <2>3, <2>4
<1> HIDE DEF frame, u
<1>7. Kinds(Tail(u)) = Tail(k) /\ k # << >> /\ Head(k) = frame.type /\ k \in Seq(FrameNames)
  BY <1>6, KindsTail, KindsType, ReplyKinds
<1> HIDE DEF k
<1>8. Live => OneResult(results, k) /\ toClient \in Seq(Arrivals)
  BY <1>1 DEF SystemInv, Basics, Agreement, ResultFits, RepliesTrue, Meets, k, u
<1>9. ASSUME Live
      PROVE  /\ frame.type = "RESULT_CHUNK" =>
                  results # << >> /\ Head(results) = results[1] /\ Head(results) \in Files
             /\ OneResult(results', Kinds(Unsent'))
  <2>1. /\ frame.type = "RESULT_CHUNK" =>
             /\ results # << >> /\ Head(results) = results[1] /\ Head(results) \in Files
             /\ OneResult(Tail(results), Tail(k))
        /\ frame.type # "RESULT_CHUNK" => OneResult(results, Tail(k))
    BY <1>7, <1>8, <1>9, OneResultTail
  <2>2. Kinds(Unsent') = Tail(k)
    BY <1>6, <1>7
  <2>3. QED
    BY <1>3, <2>1, <2>2
<1>10. ASSUME Live
       PROVE  /\ x \in Arrivals /\ x.type = frame.type
              /\ frame.type = "RESULT_CHUNK" => x.body = <<Head(results)>>
              /\ frame.type \in {"ANALYZE_DONE", "RESULT_BEGIN"} => x.arg = 1
  BY <1>5, <1>9, <1>10, ReplyRead
<1> HIDE DEF x
<1>11. RepliesTrue'
  <2> SUFFICES ASSUME Live
               PROVE  /\ toClient' \in Seq(Arrivals)
                      /\ \A i \in 1 .. Len(toClient') :
                           toClient'[i].type \in {"RESULT_BEGIN", "ANALYZE_DONE"} => toClient'[i].arg = 1
    BY <1>1 DEF RepliesTrue, Live
  <2> DEFINE t == Append(toClient, x)
  <2>1. /\ t \in Seq(Arrivals) /\ Len(t) = Len(toClient) + 1 /\ Len(toClient) \in Nat
        /\ \A i \in 1 .. Len(toClient) : t[i] = toClient[i]
        /\ t[Len(toClient) + 1] = x
    BY <1>8, <1>10, AppendProperties, LenProperties
  <2>2. t = toClient'
    BY <1>3
  <2> HIDE DEF t
  <2>3. \A i \in 1 .. Len(t) : i \in 1 .. Len(toClient) \/ i = Len(toClient) + 1
    BY <2>1
  <2>4. \A i \in 1 .. Len(toClient) :
          toClient[i].type \in {"RESULT_BEGIN", "ANALYZE_DONE"} => toClient[i].arg = 1
    BY DEF SystemInv, Basics, RepliesTrue
  <2>5. \A i \in 1 .. Len(t) : t[i].type \in {"RESULT_BEGIN", "ANALYZE_DONE"} => t[i].arg = 1
    BY <1>10, <2>1, <2>3, <2>4
  <2>6. QED
    BY <2>1, <2>2, <2>5
<1>12. ASSUME Live  PROVE Agreement'
  <2>1. Asked' = Asked /\ Stream' = Stream
    BY <1>1 DEF Asked, Stream
  <2>2. Frames' = Frames
    <3>1. Frames = FramesOf(toClient, u, "up") /\ Frames' = FramesOf(Append(toClient, x), Tail(u), "up")
      BY <1>1, <1>3, <1>6 DEF Frames, u
    <3>2. x.type = Head(u).type
      BY <1>6, <1>10, <1>12
    <3>3. QED
      BY <1>6, <1>8, <1>10, <1>12, <3>1, <3>2, FramesTransmitted
  <2>3. ASSUME pc \in Open
        PROVE  ResultsAre(toClient', OwnFile) /\ AllAre(results', OwnFile)
    <3> DEFINE o == OwnFile
    <3>1. ResultsAre(toClient, o) /\ AllAre(results, o)
      BY <1>1, <1>12, <2>3 DEF SystemInv, Agreement, ResultTrue
    <3> HIDE DEF o
    <3>2. results \in Seq(Files)
      BY <1>8, <1>12 DEF OneResult
    <3>3. frame.type = "RESULT_CHUNK" => results[1] = o
      <4> SUFFICES ASSUME frame.type = "RESULT_CHUNK"  PROVE results[1] = o
        OBVIOUS
      <4>1. Len(results) \in Nat \ {0}
        BY <1>9, <1>12, <3>2, EmptySeq
      <4>2. 1 \in 1 .. Len(results)
        BY <4>1
      <4>3. QED
        BY <3>1, <4>2 DEF AllAre
    <3>4. ResultsAre(Append(toClient, x), o)
      <4>1. x.type = "RESULT_CHUNK" => x.body = <<o>>
        BY <1>9, <1>10, <1>12, <3>3
      <4>2. toClient \in Seq(Arrivals) /\ x \in Arrivals
        BY <1>8, <1>10, <1>12
      <4>3. QED
        BY <3>1, <4>1, <4>2, ResultsAppend
    <3>5. frame.type = "RESULT_CHUNK" => AllAre(Tail(results), o)
      <4> SUFFICES ASSUME frame.type = "RESULT_CHUNK"  PROVE AllAre(Tail(results), o)
        OBVIOUS
      <4> DEFINE t == Tail(results)
      <4>1. Len(t) = Len(results) - 1 /\ \A i \in 1 .. Len(t) : t[i] = results[i + 1]
        BY <1>9, <1>12, <3>2, HeadTailProperties
      <4>2. Len(results) \in Nat
        BY <3>2, LenProperties
      <4> HIDE DEF t
      <4>3. \A i \in 1 .. Len(t) : i + 1 \in 1 .. Len(results)
        BY <4>1, <4>2
      <4>4. AllAre(t, o)
        BY <3>1, <4>1, <4>3 DEF AllAre
      <4>5. QED
        BY <4>4 DEF t
    <3>6. QED
      BY <1>3, <3>1, <3>4, <3>5 DEF o
  <2>4. OneResult(results', Kinds(Unsent'))
    BY <1>9, <1>12
  <2>5. QED
    BY <1>1, <1>12, <2>1, <2>2, <2>3, <2>4, SameAgrees
<1>13. /\ flushed' \in 0 .. Len(writes') /\ writes' \in Seq(Replies)
       /\ toServer' \in Seq(Toks) /\ readBuf' \in Seq(Toks) /\ readBuf' = << >>
       /\ decoder.phase # "Complete" /\ state' # "Closing"
  BY <1>1, <1>2, <1>4 DEF SystemInv, Basics, ClientTypes, SessionTypes, SessionFits
<1>14. QED
  BY <1>1, <1>11, <1>12, <1>13, SameBasics

LEMMA WrittenInv ==
  ASSUME SystemInv, Written
  PROVE  SystemInv'
<1>1. /\ UNCHANGED <<snap, pc, job, out, link, heard, toServer, toClient, content, results>>
      /\ UNCHANGED <<declared, received, fed, decoder, inRead, readBuf>> /\ ~inRead
      /\ writes' = Tail(writes) /\ flushed > 0 /\ flushed' = flushed - 1
      /\ Close \/ UNCHANGED <<state, tcp>>
  BY DEF Written, SessionStep, OnWriteDone, clientVars, netVars, uploadVars, lifeVars, callVars
<1>2. /\ state' \in {state, "Closing"} /\ (state' = "Closing" => tcp' # "open")
      /\ tcp' = "open" => tcp = "open"
  BY <1>1 DEF Close, CloseHandles, lifeVars, SystemInv, Basics, SessionFits
<1>3. writes \in Seq(Replies) /\ flushed \in 0 .. Len(writes)
  BY DEF SystemInv, Basics, SessionTypes
<1>4. DropFirst(flushed - 1, Tail(writes)) = DropFirst(flushed, writes)
      /\ flushed - 1 \in 0 .. Len(Tail(writes))
  BY <1>1, <1>3, DropOfTail
<1>5. Unsent' = Unsent /\ Frames' = Frames
  BY <1>1, <1>4 DEF Unsent, Frames
<1>6. writes' \in Seq(Replies) /\ flushed' \in 0 .. Len(writes')
  <2>1. Len(writes) # 0
    BY <1>1, <1>3
  <2>2. writes # << >>
    BY <1>3, <2>1, EmptySeq
  <2>3. Tail(writes) \in Seq(Replies)
    BY <1>3, <2>2, HeadTailProperties
  <2>4. QED
    BY <1>1, <1>4, <2>3
<1>7. Asked' = Asked /\ Stream' = Stream
  BY <1>1 DEF Asked, Stream
<1>8. RepliesTrue'
  BY <1>1 DEF SystemInv, Basics, RepliesTrue, Live
<1>9. ASSUME Live  PROVE Agreement'
  <2>1. /\ Live /\ pc \in Open =>
             /\ ResultsAre(toClient', OwnFile)
             /\ link # "cut" /\ tcp' = "open" => AllAre(results', OwnFile)
        /\ Meets /\ tcp' = "open" => OneResult(results', Kinds(Unsent'))
    BY <1>1, <1>2, <1>5 DEF SystemInv, Agreement, ResultTrue, ResultFits
  <2>2. QED
    BY <1>1, <1>2, <1>5, <1>7, <1>9, <2>1, SameAgrees
<1>10. /\ toServer' \in Seq(Toks) /\ readBuf' \in Seq(Toks) /\ readBuf' = << >>
       /\ decoder.phase # "Complete"
  BY <1>1 DEF SystemInv, Basics, ClientTypes, SessionTypes, SessionFits
<1>11. QED
  BY <1>1, <1>2, <1>6, <1>8, <1>9, <1>10, SameBasics

\* What the timer puts on the queue.
LEMMA TimerHears ==
  ASSUME SystemInv, SessionTroubled
  PROVE  /\ UNCHANGED <<declared, received, fed, decoder, inRead, readBuf, content, results>>
         /\ ~inRead
         /\ \E m : /\ Hears(0, m) /\ Plain(m) /\ ~Has(Kinds(m), "HELLO_ACK")
                   /\ state' \in {state, "Closing"}
                   /\ state' = "Closing" => tcp' # "open"
                   /\ tcp' = "open" => tcp = "open"
<1> DEFINE f == Error("IdleTimeout")
<1>1. /\ ClientStill /\ link = "up" /\ ~inRead
      /\ UNCHANGED <<declared, received, fed, decoder, inRead, readBuf, content, results>>
  BY DEF SessionTroubled, SessionStep, OnIdleTimeout, StallWarning, NetworkStall, IdleTimeout,
         TimerFires, clientVars, netVars, uploadVars, callVars, ClientStill
<1>2. writes \in Seq(Replies) /\ (state = "Closing" => tcp # "open")
  BY DEF SystemInv, Basics, SessionTypes, SessionFits
<1>3. 0 \in 0 .. Len(readBuf) /\ readBuf' = DropFirst(0, readBuf)
  BY <1>1, KeepsRest
<1>4. f \in Replies /\ f.type = "ERROR"
  BY ReplyTypes DEF ErrorCodes
<1> HIDE DEF f
<1>5. <<f>> \in Seq(Replies) /\ Plain(<<f>>) /\ ~Has(Kinds(<<f>>), "HELLO_ACK")
  BY <1>4, OneMessage DEF Plain
<1>6. << >> \in Seq(Replies) /\ Plain(<< >>) /\ ~Has(Kinds(<< >>), "HELLO_ACK")
  BY NoMessage DEF Plain
<1>7. writes \o << >> = writes
  BY <1>2, ConcatEmptySeq
<1>8. writes' = writes \o <<f>> /\ flushed' = flushed => Hears(0, <<f>>)
  BY <1>1, <1>3, <1>5 DEF Hears
<1>9. writes' = writes \o << >> /\ flushed' = flushed => Hears(0, << >>)
  BY <1>1, <1>3, <1>6 DEF Hears
<1>10. CASE StallWarning
  <2>1. writes' = writes \o << >> /\ flushed' = flushed /\ state' = state /\ tcp' = tcp
    BY <1>7, <1>10 DEF StallWarning, writeVars
  <2>2. QED
    BY <1>1, <1>2, <1>6, <1>9, <2>1
<1>11. CASE NetworkStall
  <2>1. state' = "Closing" /\ tcp' # "open"
    BY <1>11 DEF NetworkStall, CloseHandles
  <2>2. Enqueue(<<f>>) \/ UNCHANGED writeVars
    BY <1>11 DEF NetworkStall, f
  <2>3. flushed' = flushed /\ (writes' = writes \o <<f>> \/ writes' = writes \o << >>)
    BY <1>7, <2>2 DEF Enqueue, writeVars
  <2>4. QED
    BY <1>1, <1>5, <1>6, <1>8, <1>9, <2>1, <2>3
<1>12. CASE IdleTimeout
  <2>1. CASE tcp = "open" /\ Enqueue(<<f>>) /\ UNCHANGED <<state, tcp>>
    <3>1. writes' = writes \o <<f>> /\ flushed' = flushed
      BY <2>1 DEF Enqueue
    <3>2. QED
      BY <1>1, <1>2, <1>5, <1>8, <2>1, <3>1
  <2>2. CASE SendFails(<<f>>, "Closing")
    <3>1. Send(<<f>>, "Closing", "Closing")
      BY <2>2 DEF Send
    <3>2. flushed' = flushed /\ (writes' = writes \o <<f>> \/ writes' = writes \o << >>)
      BY <1>4, <3>1, SendOne
    <3>3. state' = "Closing" /\ tcp' # "open"
      BY <2>2 DEF SendFails, CloseHandles
    <3>4. QED
      BY <1>1, <1>5, <1>6, <1>8, <1>9, <3>2, <3>3
  <2>3. QED
    BY <1>12, <2>1, <2>2 DEF IdleTimeout, f
<1>13. QED
  BY <1>10, <1>11, <1>12 DEF SessionTroubled, SessionStep, OnIdleTimeout

LEMMA SessionTroubledInv ==
  ASSUME SystemInv, SessionTroubled
  PROVE  SystemInv'
<1>1. /\ UNCHANGED <<declared, received, fed, decoder, inRead, readBuf, content, results>>
      /\ ~inRead
  BY TimerHears
<1>2. PICK m : /\ Hears(0, m) /\ Plain(m) /\ ~Has(Kinds(m), "HELLO_ACK")
               /\ state' \in {state, "Closing"}
               /\ state' = "Closing" => tcp' # "open"
               /\ tcp' = "open" => tcp = "open"
  BY TimerHears
<1>3. /\ readBuf = << >> /\ decoder.phase # "Complete"
      /\ state' \in {"AwaitHello", "Ready", "Uploading", "Closing"}
      /\ decoder' \in Decoders
      /\ decoder'.phase \in {"Header", "Failed"} => decoder'.type = "NONE"
      /\ decoder'.phase = "Payload" => decoder'.type = "UPLOAD_CHUNK" /\ decoder'.left > 0
      /\ declared' \in Int /\ received' \in Nat /\ fed' \in Nat
      /\ content' \in Files /\ Len(content') = fed'
      /\ state' = "Uploading" => received' = fed'
  BY <1>1, <1>2 DEF SystemInv, Basics, SessionTypes, SessionFits
<1>4. inRead' \/ (readBuf' = << >> /\ decoder'.phase # "Complete")
  BY <1>1, <1>3
<1>5. ASSUME Live  PROVE Agreement'
  <2>1. AckLast(Kinds(m)) /\ ~Has(Kinds(m), "UPLOAD_BEGIN_ACK") /\ ~Has(Kinds(m), "RESULT_CHUNK")
    BY <1>2 DEF Plain
  <2>2. /\ state' = "Uploading" => state = "Uploading"
        /\ state' = "AwaitHello" => state = "AwaitHello" /\ ~Has(Kinds(m), "HELLO_ACK")
    BY <1>2
  <2>3. BeginFits' /\ FramingFits' /\ ContentFits' /\ CancelFits'
    BY <1>1, <1>2, <1>3, <1>5, <2>1, <2>2, DecoderStays
  <2>4. /\ tcp' = "open" => OneResult(results', Kinds(Unsent'))
        /\ pc \in Open /\ tcp' = "open" => tcp = "open" /\ AllAre(results', OwnFile)
    BY <1>1, <1>2, <1>5, <2>1, HearsResults
  <2>5. QED
    BY <1>2, <1>5, <2>1, <2>2, <2>3, <2>4, HearsAgrees
<1>6. QED
  BY <1>2, <1>3, <1>4, <1>5, HearsBasics

-----------------------------------------------------------------------------
(* The system.                                                             *)

LEMMA StutterInv ==
  ASSUME SystemInv, UNCHANGED allVars
  PROVE  SystemInv'
<1>1. SessionStill
  BY DEF allVars, sessionVars, vars, uploadVars, writeVars, lifeVars, callVars, historyVars,
         SessionStill
<1>2. /\ UNCHANGED <<snap, pc, job, out, link, heard, toServer, toClient>>
  BY DEF allVars, clientVars, netVars, historyVars
<1>3. /\ UNCHANGED <<state, tcp, readBuf, inRead, writes, flushed, decoder, declared, received,
                     fed, content, results>>
  BY <1>1 DEF SessionStill
<1>4. Asked' = Asked /\ Stream' = Stream /\ Frames' = Frames /\ Unsent' = Unsent
  BY <1>2, <1>3 DEF Asked, Stream, Frames, Unsent
<1>5. RepliesTrue'
  BY <1>2 DEF SystemInv, Basics, RepliesTrue, Live
<1>6. ASSUME Live  PROVE Agreement'
  <2>1. /\ Live /\ pc \in Open =>
             /\ ResultsAre(toClient', OwnFile)
             /\ link # "cut" /\ tcp' = "open" => AllAre(results', OwnFile)
        /\ Meets /\ tcp' = "open" => OneResult(results', Kinds(Unsent'))
    BY <1>2, <1>3, <1>4 DEF SystemInv, Agreement, ResultTrue, ResultFits
  <2>2. QED
    BY <1>2, <1>3, <1>4, <1>6, <2>1, SameAgrees
<1>7. /\ toServer' \in Seq(Toks) /\ readBuf' \in Seq(Toks)
      /\ inRead' \/ (readBuf' = << >> /\ decoder.phase # "Complete")
      /\ writes' \in Seq(Replies) /\ flushed' \in 0 .. Len(writes')
      /\ state' = "Closing" => tcp' # "open"
  BY <1>2, <1>3 DEF SystemInv, Basics, ClientTypes, SessionTypes, SessionFits
<1>8. QED
  BY <1>2, <1>3, <1>5, <1>6, <1>7, SameBasics

LEMMA NextInv ==
  ASSUME SystemInv, [SystemNext]_allVars
  PROVE  SystemInv'
<1>1. CASE ClientConnects
  BY <1>1, ClientConnectsInv
<1>2. CASE ClientRuns \/ ClientWorks \/ ClientTroubled
  BY <1>2, ClientRunsInv
<1>3. CASE Handles
  BY <1>3, HandlesInv
<1>4. CASE Deliver
  BY <1>4, DeliverInv
<1>5. CASE TransmitReply
  BY <1>5, TransmitReplyInv
<1>6. CASE Written
  BY <1>6, WrittenInv
<1>7. CASE SessionTroubled
  BY <1>7, SessionTroubledInv
<1>8. CASE Connection
  BY <1>8, ConnectionInv
<1>9. CASE UNCHANGED allVars
  BY <1>9, StutterInv
<1>10. QED
  BY <1>1, <1>2, <1>3, <1>4, <1>5, <1>6, <1>7, <1>8, <1>9 DEF SystemNext

\* What the client and its session have of one another fits together in every
\* state: of what is under way between them the session makes out the frames the
\* client means, and the client takes no frame that answers an earlier question
\* (Transfer.cpp, do_upload; TcpSession.cpp, process and dispatch_frame).
THEOREM SystemInvariant == SystemSpec => []SystemInv
<1>1. SystemInit => SystemInv
  BY InitInv
<1>2. SystemInv /\ [SystemNext]_allVars => SystemInv'
  BY NextInv
<1>3. QED
  BY <1>1, <1>2, PTL DEF SystemSpec

LEMMA InvResultIsOwn ==
  ASSUME SystemInv
  PROVE  ResultIsOwn
BY DEF SystemInv, Basics, PhaseFits, ResultIsOwn

\* A client that shows an upload as done has the result of exactly the file it
\* sent, whatever was cancelled before and however late the answers came
\* (Transfer.cpp, do_upload; TcpSession.cpp, handle_upload_begin, abort_upload).
THEOREM ResultsAreOwn == SystemSpec => []ResultIsOwn
<1>1. SystemInv => ResultIsOwn
  BY InvResultIsOwn
<1>2. QED
  BY <1>1, SystemInvariant, PTL

LEMMA InvHeardCancel ==
  ASSUME SystemInv
  PROVE  HeardCancelReturnsToReady
<1> SUFFICES ASSUME CancelSettled, heard = "yes"  PROVE state = "Ready"
  BY DEF HeardCancelReturnsToReady
<1>1. /\ snap.phase = "Cancelled" /\ pc = "idle" /\ link = "up" /\ tcp = "open"
      /\ toServer = << >> /\ ~inRead
  BY DEF CancelSettled, NothingUnderWay
<1>2. Meets /\ Cancelled
  BY <1>1 DEF Meets, Live, Over, Cancelled
<1>3. state # "AwaitHello"
  BY <1>1, <1>2 DEF SystemInv, Agreement, GreetingFits, Early
<1>4. state # "Closing"
  BY <1>1 DEF SystemInv, Basics, SessionFits
<1>5. state # "Uploading"
  <2>1. ~Carries(Asked, "CANCEL")
    <3>1. readBuf = << >>
      BY <1>1 DEF SystemInv, Basics, SessionFits
    <3>2. Asked = << >>
      BY <1>1, <3>1, ConcatEmptySeq, EmptySeq DEF Asked
    <3>3. QED
      BY <3>2, CarriesNone
  <2>2. decoder.type # "CANCEL"
    BY <1>1 DEF SystemInv, Basics, SessionTypes, SessionFits, Decoders
  <2>3. QED
    BY <1>2, <2>1, <2>2 DEF SystemInv, Agreement, CancelFits
<1>6. state \in {"AwaitHello", "Ready", "Uploading", "Closing"}
  BY DEF SystemInv, Basics, SessionTypes
<1>7. QED
  BY <1>3, <1>4, <1>5, <1>6

\* When an upload has been cancelled and nothing is under way any more, the
\* session is ready for the next one, if the CANCEL was sent between two frames:
\* even if it was answered after the client had given up waiting (Transfer.cpp,
\* send_cancel_and_wait; TcpSession.cpp, abort_upload).
THEOREM HeardCancelReady == SystemSpec => []HeardCancelReturnsToReady
<1>1. SystemInv => HeardCancelReturnsToReady
  BY InvHeardCancel
<1>2. QED
  BY <1>1, SystemInvariant, PTL

================================================================================
