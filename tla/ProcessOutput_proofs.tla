------------------------ MODULE ProcessOutput_proofs ------------------------
(***************************************************************************)
(* Safety of ProcessOutput, for chunks of any size and any limits of the   *)
(* retained output, the history, the channel and the pages.                *)
(***************************************************************************)
EXTENDS ProcessOutput, TLAPS, NaturalsInduction, WellFoundedInduction, SequenceTheorems

-----------------------------------------------------------------------------
(* The inductive invariant.                                                *)

Away == gone \cup skipped
Covered(s) == s \in Away \/ \E i \in DOMAIN got : got[i] = s

Reading == pc \in {"served", "apply"}

\* Nothing follows Closed.
LogInv == \A s \in DOMAIN log : log[s].kind = "closed" => s = Len(log) /\ Exited

\* The event log has the events in their order, and a failure at the end.
SentInv ==
    /\ failure => reader = "done" \/ pc = "failed"
    /\ pc # "failed" => /\ Len(sent) = IF failure THEN published + 1 ELSE published
                        /\ \A i \in 1..published : sent[i] = i
                        /\ failure => sent[published + 1] = Failed

\* What is left of an answer comes after the cursor and before its next_seq.
ReplyInv ==
    Reading => /\ response.chunks \subseteq Chunks
               /\ \A c \in response.chunks : cursor < c /\ c < response.next_seq
               /\ cursor < response.next_seq /\ response.next_seq <= Len(log) + 1
               /\ response.closed => Closed

\* What a consumer took is behind it.
OrderInv ==
    /\ OnceInOrder
    /\ pc \in {"new", "recv", "wait", "read", "served"} \/ (consumer = "push" /\ pc = "apply")
       => \A i \in DOMAIN got : got[i] <= cursor
    /\ pc = "apply" => \A i \in DOMAIN got : /\ got[i] < response.next_seq
                                             /\ \A c \in response.chunks : got[i] < c

\* What it has behind it, it took, unless that was gone or skipped.
CoverInv ==
    /\ pc \in {"new", "recv"} => consumer = "push"
    /\ pc = "new" => cursor = 0
    /\ pc \in {"recv", "wait", "read"} => \A s \in Chunks : s <= cursor => Covered(s)
    /\ pc = "recv" => \A s \in Chunks : s <= position /\ s <= published => Covered(s)
    /\ Reading => \A s \in Chunks :
            \/ s < response.next_seq
            \/ consumer = "push" /\ s <= position /\ s <= published
            \/ response.closed /\ (consumer = "page" => pc = "served" /\ response.chunks = {})
         => Covered(s) \/ s \in response.chunks
    /\ pc = "closed" => Closed /\ \A s \in Chunks : Covered(s)

IInv == TypeOK /\ LogInv /\ SentInv /\ ReplyInv /\ OrderInv /\ CoverInv

USE OutputAssumption

-----------------------------------------------------------------------------
(* Sets of numbers, sums and sequences.                                    *)

(* A set of numbers that is not empty has a least one.                     *)
LEMMA MinIn ==
    ASSUME NEW S \in SUBSET Nat, S # {}
    PROVE  Min(S) \in S /\ \A k \in S : Min(S) <= k
<1>1. PICK m \in S : \A k \in S : ~(<<k, m>> \in OpToRel(<, Nat))
  BY NatLessThanWellFounded, WFMin
<1>2. \A k \in S : ~(k < m)
  BY <1>1 DEF OpToRel
<1>3. \A k \in S : m <= k
  BY <1>2
<1>. QED  BY <1>3 DEF Min

(* A bounded one has a greatest one.                                       *)
LEMMA MaxIn ==
    ASSUME NEW n \in Nat, NEW S \in SUBSET (0..n), S # {}
    PROVE  Max(S) \in S /\ \A k \in S : k <= Max(S)
<1>. DEFINE D == {d \in 0..n : n - d \in S}
<1>1. PICK k \in S : TRUE
  OBVIOUS
<1>2. n - k \in D
  OBVIOUS
<1>3. PICK m \in D : \A d \in D : m <= d
  <2>1. D \in SUBSET Nat
    OBVIOUS
  <2>. HIDE DEF D
  <2>. QED  BY <1>2, <2>1, MinIn
<1>4. n - m \in S /\ \A j \in S : j <= n - m
  <2>1. \A j \in S : n - j \in D
    OBVIOUS
  <2>. QED  BY <1>3, <2>1
<1>. QED  BY <1>4 DEF Max

(* The sum over no index is 0.                                             *)
LEMMA EmptySum ==
    ASSUME NEW f
    PROVE  SumFunctionOnSet(f, {}) = 0
<1>. DEFINE body(g) == [s \in SUBSET {} |->
                          IF s = {} THEN 0
                          ELSE LET x == CHOOSE x \in s : TRUE IN f[x] + g[s \ {x}]]
            sum == CHOOSE g : g = body(g)
            zero == [s \in SUBSET {} |-> 0]
<1>1. SumFunctionOnSet(f, {}) = sum[{}]
  BY DEF SumFunctionOnSet, FoldFunctionOnSet, MapThenFoldSet
<1>2. zero = body(zero)
  OBVIOUS
<1>3. sum = body(sum)
  BY <1>2
<1>4. body(sum)[{}] = 0
  OBVIOUS
<1>. QED  BY <1>1, <1>3, <1>4

(* A sequence over a set is one over any larger set.                       *)
LEMMA SeqMono ==
    ASSUME NEW S, NEW T, S \subseteq T, NEW q \in Seq(S)
    PROVE  q \in Seq(T)
<1>1. q \in [1..Len(q) -> T] /\ Len(q) \in Nat
  OBVIOUS
<1>. QED  BY <1>1, SeqDef

-----------------------------------------------------------------------------
(* The log and the history.                                                *)

(* An event that is numbered comes after the others.                       *)
LEMMA Numbered ==
    ASSUME TypeOK, NEW e \in Events, Number(e)
    PROVE  /\ log' \in Seq(Events) /\ Len(log') = Len(log) + 1
           /\ DOMAIN log = 1..Len(log) /\ DOMAIN log' = 1..(Len(log) + 1)
           /\ log'[Len(log) + 1] = e /\ \A s \in DOMAIN log : log'[s] = log[s]
           /\ wire' \in {wire, Len(log) + 1} /\ Len(log) \in Nat
BY DEF TypeOK, Number

(* The numbers of chunks are numbers of events.                            *)
LEMMA ChunkNumbers ==
    ASSUME TypeOK
    PROVE  Len(log) \in Nat /\ Chunks \subseteq 1..Len(log) /\ \A s \in Chunks : s \in Nat \ {0}
BY DEF TypeOK, Chunks

(* publish keeps the order of events, and leaves no more than all of them. *)
LEMMA Published ==
    ASSUME TypeOK, NEW e, publish(e)
    PROVE  /\ Len(sent') = Len(sent) + 1 /\ Len(sent) \in Nat
           /\ evicted' \in evicted..Len(sent')
           /\ sent'[Len(sent) + 1] = e /\ \A i \in 1..Len(sent) : sent'[i] = sent[i]
<1>. DEFINE all == Append(sent, e)
            bytes == [i \in DOMAIN all |-> EventBytes(all[i])]
            lows == {low \in evicted..Len(all) :
                        /\ Len(all) - low <= EventCapacity
                        /\ SumFunctionOnSet(bytes, (low + 1)..Len(all)) <= ByteCapacity}
<1>1. /\ Len(all) = Len(sent) + 1 /\ Len(sent) \in Nat /\ evicted \in 0..Len(sent)
      /\ all[Len(sent) + 1] = e /\ \A i \in 1..Len(sent) : all[i] = sent[i]
  BY DEF TypeOK
<1>2. sent' = all /\ evicted' = Min(lows)
  BY DEF publish, HistoryStart
<1>. HIDE DEF all, bytes
<1>3. SumFunctionOnSet(bytes, (Len(all) + 1)..Len(all)) = 0
  <2>1. (Len(all) + 1)..Len(all) = {}
    BY <1>1
  <2>. QED  BY <2>1, EmptySum
<1>4. Len(all) \in lows
  BY <1>1, <1>3
<1>5. Min(lows) \in lows
  <2>1. lows \in SUBSET Nat /\ lows # {}
    BY <1>1, <1>4
  <2>. HIDE DEF lows
  <2>. QED  BY <2>1, MinIn
<1>. QED  BY <1>1, <1>2, <1>5

(* A page ends where the chunks no longer fit, and has one if there is one. *)
LEMMA PageIsPrefix ==
    ASSUME TypeOK, NEW b
    PROVE  /\ Page(cursor, b) \subseteq Newer(cursor)
           /\ \A s \in Page(cursor, b), r \in Newer(cursor) : r <= s => r \in Page(cursor, b)
           /\ Page(cursor, b) = {} => Newer(cursor) = {}
<1>. DEFINE Upto(s) == {r \in Newer(cursor) : r <= s}
            Fits(s) == Upto(s) = {s} \/ Bytes(Upto(s)) <= b
<1>1. Page(cursor, b) = {s \in Newer(cursor) : \A r \in Upto(s) : Fits(r)}
  BY DEF Page
<1>2. Newer(cursor) \in SUBSET Nat
  BY ChunkNumbers DEF Newer, TypeOK
<1>3. ASSUME NEW s \in Page(cursor, b), NEW r \in Newer(cursor), r <= s
      PROVE  r \in Page(cursor, b)
  <2>1. Upto(r) \subseteq Upto(s)
    BY <1>1, <1>2, <1>3
  <2>. HIDE DEF Fits
  <2>. QED  BY <1>1, <2>1
<1>4. ASSUME Newer(cursor) # {} PROVE Page(cursor, b) # {}
  <2>. DEFINE m == Min(Newer(cursor))
  <2>1. m \in Newer(cursor) /\ \A k \in Newer(cursor) : m <= k
    BY <1>2, <1>4, MinIn
  <2>. HIDE DEF m
  <2>2. Upto(m) = {m}
    BY <1>2, <2>1
  <2>. QED  BY <1>1, <2>1, <2>2
<1>. QED  BY <1>1, <1>3, <1>4

-----------------------------------------------------------------------------
(* Types.                                                                  *)

Flags == failure \in BOOLEAN /\ woken \in BOOLEAN

(* Every step keeps the flags Boolean.                                     *)
LEMMA FlagsNext ==
    ASSUME Flags, [Next]_vars
    PROVE  Flags'
<1>. USE DEF Flags, Number, serverVars, clientVars, consumerVars, note_change, set_failure
<1>1. ASSUME NEW size \in Sizes, stream_output(size) PROVE Flags'
  BY <1>1 DEF stream_output
<1>2. CASE watch_exit \/ maybe_emit_closed \/ Cleanup \/ LoseLink
  BY <1>2 DEF watch_exit, maybe_emit_closed, Cleanup, LoseLink
<1>3. CASE Deliver \/ NoteChange
  BY <1>3 DEF Deliver, NoteChange
<1>4. CASE Disconnected
  BY <1>4 DEF Disconnected
<1>5. CASE FailedRead
  BY <1>5 DEF FailedRead
<1>6. CASE exec_read \/ TakeChunk \/ FinishRead \/ Wake
  BY <1>6 DEF exec_read, TakeChunk, FinishRead, Wake
<1>7. CASE subscribe \/ Receive \/ Lagged
  BY <1>7 DEF subscribe, Receive, Lagged
<1>8. CASE UNCHANGED vars
  BY <1>8 DEF vars
<1>. QED
  BY <1>1, <1>2, <1>3, <1>4, <1>5, <1>6, <1>7, <1>8
  DEF Next, Server, ReaderTask, Read, Transport

(* Only the server's steps change the log.                                 *)
LEMMA SameLog ==
    ASSUME UNCHANGED log
    PROVE  Chunks' = Chunks /\ (Closed <=> Closed') /\ (Exited <=> Exited')
BY DEF Chunks, Closed, Exited

(* An answer has the chunks it should, and its next_seq comes after them.  *)
LEMMA Answers ==
    ASSUME TypeOK, NEW chunks \in SUBSET Newer(cursor)
    PROVE  /\ chunks \subseteq Chunks /\ (\A c \in chunks : c > cursor)
           /\ ReadResponse(chunks).chunks = chunks
           /\ ReadResponse(chunks).closed = Closed
           /\ ReadResponse(chunks).next_seq \in (cursor + 1)..(Len(log) + 1)
           /\ \A c \in chunks : c < ReadResponse(chunks).next_seq
           /\ chunks = {} => ReadResponse(chunks).next_seq = Len(log) + 1
           /\ chunks # {} => \E c \in chunks : ReadResponse(chunks).next_seq = c + 1
           /\ ReadResponse(chunks) \in Responses
<1>1. Len(log) \in Nat /\ Chunks \subseteq 1..Len(log) /\ cursor \in 0..Len(log)
  BY ChunkNumbers DEF TypeOK
<1>2. chunks \subseteq Chunks /\ \A c \in chunks : c > cursor
  BY DEF Newer, TypeOK
<1>3. CASE chunks = {}
  BY <1>1, <1>2, <1>3 DEF ReadResponse, Responses, Closed
<1>4. CASE chunks # {}
  <2>1. chunks \in SUBSET (0..Len(log))
    BY <1>1, <1>2
  <2>2. Max(chunks) \in chunks /\ \A c \in chunks : c <= Max(chunks)
    BY <1>1, <1>4, <2>1, MaxIn
  <2>3. ReadResponse(chunks) = [chunks |-> chunks, next_seq |-> Max(chunks) + 1, closed |-> Closed]
    BY <1>4 DEF ReadResponse
  <2>4. Closed \in BOOLEAN
    BY DEF Closed
  <2>5. Max(chunks) \in 0..Len(log)
    BY <2>1, <2>2
  <2>. HIDE DEF Closed
  <2>. QED  BY <1>1, <1>2, <1>4, <2>1, <2>2, <2>3, <2>4, <2>5 DEF Responses
<1>. QED  BY <1>3, <1>4

(* A chunk that a consumer takes comes after the others.                   *)
LEMMA Taken ==
    ASSUME TypeOK, NEW s \in Chunks, got' = Append(got, s)
    PROVE  /\ got' \in Seq(Chunks) /\ Len(got) \in Nat
           /\ DOMAIN got = 1..Len(got) /\ DOMAIN got' = 1..(Len(got) + 1)
           /\ got'[Len(got) + 1] = s /\ \A i \in DOMAIN got : got'[i] = got[i]
<1>1. got \in Seq(Chunks)
  BY DEF TypeOK
<1>2. got' \in Seq(Chunks) /\ Len(got') = Len(got) + 1
  BY <1>1, AppendProperties
<1>. QED  BY <1>1, <1>2, AppendProperties

(* Every step keeps the types.                                             *)
LEMMA TypeNext ==
    ASSUME TypeOK, SentInv, ReplyInv, [Next]_vars
    PROVE  TypeOK'
<1>f. Flags'
  BY FlagsNext DEF Flags, TypeOK
<1>c. Len(log) \in Nat /\ Chunks \subseteq 1..Len(log) /\ Len(sent) \in Nat
  BY ChunkNumbers DEF TypeOK
<1>. USE <1>f, <1>c DEF TypeOK, Flags, Reading, serverVars, clientVars, consumerVars
<1>1. ASSUME NEW size \in Sizes, stream_output(size) PROVE TypeOK'
  <2>. DEFINE n == Len(log) + 1
            e == [kind |-> "output", bytes |-> size]
            bytes == [s \in output \cup {n} |-> IF s = n THEN size ELSE log[s].bytes]
  <2>1. /\ Number(e) /\ output' = Retain(bytes)
        /\ UNCHANGED <<entry, link, clientVars, reader, consumerVars>>
    BY <1>1 DEF stream_output
  <2>2. e \in Events
    BY DEF Events
  <2>3. /\ log' \in Seq(Events) /\ Len(log') = n /\ DOMAIN log = 1..Len(log) /\ DOMAIN log' = 1..n
        /\ log'[n] = e /\ (\A s \in DOMAIN log : log'[s] = log[s]) /\ wire' \in {wire, n}
    BY <2>1, <2>2, Numbered
  <2>4. Chunks' = Chunks \cup {n}
    BY <2>3 DEF Chunks
  <2>5. output' \subseteq output \cup {n}
    <3>1. Retain(bytes) \subseteq DOMAIN bytes
      BY DEF Retain
    <3>. QED  BY <2>1, <3>1
  <2>6. got \in Seq(Chunks \cup {n})
    BY SeqMono
  <2>. HIDE DEF n, e, bytes
  <2>7. n = Len(log) + 1
    BY DEF n
  <2>8. wire' \in 0..Len(log') /\ published' \in 0..wire'
    BY <2>1, <2>3, <2>7
  <2>9. cursor' \in 0..Len(log')
    BY <2>1, <2>3, <2>7
  <2>10. output' \subseteq Chunks'
    BY <2>4, <2>5
  <2>11. got' \in Seq(Chunks')
    BY <2>1, <2>4, <2>6
  <2>. QED  BY <2>1, <2>3, <2>8, <2>9, <2>10, <2>11
<1>2. CASE watch_exit \/ maybe_emit_closed
  <2>1. PICK e \in Events : Number(e) /\ e.kind \in {"exited", "closed"}
    <3>1. [kind |-> "exited", bytes |-> 0] \in Events /\ [kind |-> "closed", bytes |-> 0] \in Events
      BY DEF Events
    <3>. QED  BY <1>2, <3>1 DEF watch_exit, maybe_emit_closed
  <2>2. UNCHANGED <<output, entry, link, clientVars, reader, consumerVars>>
    BY <1>2 DEF watch_exit, maybe_emit_closed
  <2>3. /\ log' \in Seq(Events) /\ Len(log') = Len(log) + 1
        /\ DOMAIN log = 1..Len(log) /\ DOMAIN log' = 1..(Len(log) + 1)
        /\ log'[Len(log) + 1] = e /\ (\A s \in DOMAIN log : log'[s] = log[s])
        /\ wire' \in {wire, Len(log) + 1}
    BY <2>1, Numbered
  <2>4. Chunks' = Chunks
    BY <2>1, <2>3 DEF Chunks
  <2>5. wire' \in 0..Len(log') /\ published' \in 0..wire'
    BY <2>2, <2>3
  <2>. QED  BY <2>2, <2>3, <2>4, <2>5
<1>3. CASE Cleanup
  BY <1>3, SameLog DEF Cleanup
<1>4. CASE LoseLink
  BY <1>4, SameLog DEF LoseLink
<1>5. CASE NoteChange
  BY <1>5, SameLog DEF NoteChange
<1>6. CASE Deliver
  <2>1. /\ published < wire /\ published' = published + 1 /\ publish(published + 1)
        /\ UNCHANGED <<serverVars, link, wire, reader, consumerVars>>
    BY <1>6 DEF Deliver
  <2>2. Len(sent') = Len(sent) + 1 /\ evicted' \in evicted..Len(sent')
    BY <2>1, Published
  <2>3. sent' \in Seq(0..(published + 1))
    <3>1. sent \in Seq(0..(published + 1))
      BY SeqMono
    <3>. QED  BY <2>1, <3>1 DEF publish
  <2>. QED  BY <2>1, <2>2, <2>3, SameLog
<1>7. CASE Disconnected
  <2>1. UNCHANGED <<serverVars, link, wire, published, consumerVars>> /\ reader' = "done"
    BY <1>7 DEF Disconnected
  <2>2. /\ sent' \in Seq(0..published) /\ evicted' \in 0..Len(sent')
        /\ Len(sent') \in Nat /\ Len(sent) <= Len(sent')
    <3>1. CASE publish(Failed)
      <4>1. Len(sent') = Len(sent) + 1 /\ evicted' \in evicted..Len(sent')
        BY <3>1, Published
      <4>2. sent' \in Seq(0..published)
        BY <3>1 DEF publish, Failed
      <4>. QED  BY <4>1, <4>2
    <3>2. CASE UNCHANGED <<sent, evicted>>
      BY <3>2
    <3>. QED  BY <1>7, <3>1, <3>2 DEF Disconnected, set_failure
  <2>3. position' \in 0..Len(sent') /\ live' \in 0..Len(sent')
    BY <2>1, <2>2
  <2>. QED  BY <2>1, <2>2, <2>3, SameLog
<1>8. CASE exec_read
  <2>1. /\ UNCHANGED <<serverVars, link, wire, clientVars, reader, consumer, cursor, got>>
        /\ UNCHANGED <<position, live>>
    BY <1>8 DEF exec_read
  <2>2. response' \in Responses
    <3>1. CASE entry = "running"
      <4>1. PICK chunks \in SUBSET Newer(cursor) : response' = ReadResponse(chunks)
        BY <1>8, <3>1, PageIsPrefix DEF exec_read
      <4>. QED  BY <4>1, Answers
    <3>2. CASE entry # "running"
      BY <1>8, <3>2 DEF exec_read
    <3>. QED  BY <3>1, <3>2
  <2>3. gone' \subseteq Nat /\ skipped' \subseteq Nat /\ pc' \in {"served", "failed"}
    <3>1. CASE entry = "running"
      <4>1. /\ gone' = gone \cup (Evicted \ ToCome) /\ pc' = "served"
            /\ skipped' = skipped \cup (Evicted \cap ToCome)
        BY <1>8, <3>1, Zenon DEF exec_read
      <4>2. Evicted \subseteq Nat /\ gone \subseteq Nat /\ skipped \subseteq Nat
        BY ChunkNumbers DEF Evicted, TypeOK
      <4>. QED  BY <4>1, <4>2
    <3>2. CASE entry # "running"
      BY <1>8, <3>2 DEF exec_read
    <3>. QED  BY <3>1, <3>2
  <2>. QED  BY <2>1, <2>2, <2>3, SameLog
<1>9. CASE FailedRead
  <2>1. /\ UNCHANGED <<serverVars, link, wire, published, reader, consumer, cursor, response, got>>
        /\ UNCHANGED <<position, live, gone, skipped>> /\ pc' = "failed"
    BY <1>9 DEF FailedRead
  <2>2. /\ sent' \in Seq(0..published) /\ evicted' \in 0..Len(sent')
        /\ Len(sent') \in Nat /\ Len(sent) <= Len(sent')
    <3>1. CASE publish(Failed)
      <4>1. Len(sent') = Len(sent) + 1 /\ evicted' \in evicted..Len(sent')
        BY <3>1, Published
      <4>2. sent' \in Seq(0..published)
        BY <3>1 DEF publish, Failed
      <4>. QED  BY <4>1, <4>2
    <3>2. CASE UNCHANGED <<sent, evicted>>
      BY <3>2
    <3>. QED  BY <1>9, <3>1, <3>2 DEF FailedRead, set_failure
  <2>3. position' \in 0..Len(sent') /\ live' \in 0..Len(sent')
    BY <2>1, <2>2
  <2>. QED  BY <2>1, <2>2, <2>3, SameLog
<1>10. CASE TakeChunk
  <2>. DEFINE s == Min(response.chunks)
  <2>1. s \in response.chunks /\ s \in Chunks
    BY <1>10, MinIn DEF TakeChunk, Responses, ReplyInv
  <2>2. /\ UNCHANGED <<serverVars, link, wire, clientVars, reader, consumer, position, live, gone, skipped>>
        /\ response' = [response EXCEPT !.chunks = @ \ {s}] /\ pc' = "apply"
        /\ got' \in {got, Append(got, s)} /\ cursor' \in {cursor, s}
    BY <1>10 DEF TakeChunk
  <2>. HIDE DEF s
  <2>3. response' \in Responses
    BY <2>2 DEF Responses
  <2>4. got' \in Seq(Chunks)
    <3>1. CASE got' = got
      BY <3>1
    <3>2. CASE got' = Append(got, s)
      BY <2>1, <3>2, Taken
    <3>. QED  BY <2>2, <3>1, <3>2
  <2>5. cursor' \in 0..Len(log)
    BY <2>1, <2>2
  <2>. QED  BY <2>2, <2>3, <2>4, <2>5, SameLog
<1>11. CASE FinishRead
  <2>1. /\ UNCHANGED <<serverVars, link, wire, clientVars, reader, consumer, got>>
        /\ UNCHANGED <<position, live, gone, skipped>>
        /\ pc \in {"served", "apply"} /\ cursor' \in {cursor, response.next_seq - 1}
        /\ pc' = AfterRead /\ response' = NoResponse
    BY <1>11 DEF FinishRead
  <2>2. response.next_seq \in Nat /\ cursor < response.next_seq /\ response.next_seq <= Len(log) + 1
    BY <2>1 DEF ReplyInv, Responses
  <2>3. cursor' \in 0..Len(log)
    BY <2>1, <2>2
  <2>4. response' \in Responses
    BY <2>1 DEF NoResponse, Responses
  <2>5. pc' \in {"closed", "recv", "wait", "read"}
    BY <2>1 DEF AfterRead
  <2>. QED  BY <2>1, <2>3, <2>4, <2>5, SameLog
<1>12. CASE Wake
  BY <1>12, SameLog DEF Wake
<1>13. CASE subscribe
  <2>1. \A i \in 1..evicted : sent[i] \in Nat
    OBVIOUS
  <2>. QED  BY <1>13, <2>1, SameLog DEF subscribe
<1>14. CASE Receive
  <2>. DEFINE e == sent[position + 1]
  <2>1. /\ UNCHANGED <<serverVars, link, wire, clientVars, reader, consumer, response, live, gone, skipped>>
        /\ position < Len(sent) /\ position' = position + 1 /\ cursor' \in {cursor, e}
        /\ pc' = AfterEvent(e) /\ (got' = got \/ (e \in Chunks /\ got' = Append(got, e)))
    BY <1>14 DEF Receive
  <2>2. e \in 0..published
    BY <2>1
  <2>. HIDE DEF e
  <2>3. got' \in Seq(Chunks)
    <3>1. CASE got' = got
      BY <3>1
    <3>2. CASE e \in Chunks /\ got' = Append(got, e)
      BY <3>2, Taken
    <3>. QED  BY <2>1, <3>1, <3>2
  <2>4. cursor' \in 0..Len(log) /\ position' \in 0..Len(sent)
    BY <2>1, <2>2
  <2>5. pc' \in {"failed", "closed", "recv"}
    BY <2>1 DEF AfterEvent
  <2>. QED  BY <2>1, <2>3, <2>4, <2>5, SameLog
<1>15. CASE Lagged
  <2>1. Len(sent) - EventCapacity \in 0..Len(sent)
    <3>1. Len(sent) - position > EventCapacity
      BY <1>15 DEF Lagged, HasLagged
    <3>2. position \in Nat /\ EventCapacity \in Nat
      OBVIOUS
    <3>. QED  BY <3>1, <3>2
  <2>. QED  BY <1>15, <2>1, SameLog DEF Lagged
<1>16. CASE UNCHANGED vars
  BY <1>16, SameLog DEF vars
<1>. QED
  BY <1>1, <1>2, <1>3, <1>4, <1>5, <1>6, <1>7, <1>8, <1>9, <1>10, <1>11, <1>12, <1>13,
     <1>14, <1>15, <1>16
  DEF Next, Server, ReaderTask, Read, Transport

-----------------------------------------------------------------------------
(* The server and the event log.                                           *)

Produce == (\E size \in Sizes : stream_output(size)) \/ watch_exit \/ maybe_emit_closed

(* What the process does: one more event, and none after Closed.           *)
LEMMA Produces ==
    ASSUME TypeOK, LogInv, Produce
    PROVE  /\ ~Closed /\ Len(log) \in Nat /\ Len(log') = Len(log) + 1
           /\ DOMAIN log = 1..Len(log) /\ DOMAIN log' = 1..(Len(log) + 1)
           /\ \A s \in DOMAIN log : log'[s] = log[s]
           /\ Chunks \subseteq Chunks' /\ Chunks' \subseteq Chunks \cup {Len(log) + 1}
           /\ log'[Len(log) + 1].kind = "closed" => Exited
           /\ UNCHANGED <<clientVars, reader, consumerVars>>
<1>1. PICK e \in Events : Number(e) /\ (e.kind = "closed" => Exited)
  <2>1. ASSUME NEW size \in Sizes, stream_output(size)
        PROVE  \E e \in Events : Number(e) /\ e.kind # "closed"
    <3>1. [kind |-> "output", bytes |-> size] \in Events
      BY DEF Events
    <3>. QED  BY <2>1, <3>1 DEF stream_output
  <2>2. [kind |-> "exited", bytes |-> 0] \in Events /\ [kind |-> "closed", bytes |-> 0] \in Events
    BY DEF Events
  <2>. QED  BY <2>1, <2>2 DEF Produce, watch_exit, maybe_emit_closed
<1>2. UNCHANGED <<clientVars, reader, consumerVars>>
  BY DEF Produce, stream_output, watch_exit, maybe_emit_closed
<1>3. ~Closed
  BY DEF Produce, stream_output, watch_exit, maybe_emit_closed, LogInv, Closed
<1>4. /\ Len(log) \in Nat /\ Len(log') = Len(log) + 1 /\ log'[Len(log) + 1] = e
      /\ DOMAIN log = 1..Len(log) /\ DOMAIN log' = 1..(Len(log) + 1)
      /\ \A s \in DOMAIN log : log'[s] = log[s]
  BY <1>1, Numbered
<1>5. Chunks \subseteq Chunks' /\ Chunks' \subseteq Chunks \cup {Len(log) + 1}
  BY <1>4 DEF Chunks
<1>. QED  BY <1>1, <1>2, <1>3, <1>4, <1>5

(* Every step leaves Closed the last event.                                *)
LEMMA LogNext ==
    ASSUME TypeOK, LogInv, [Next]_vars
    PROVE  LogInv'
<1>1. CASE Produce
  <2>1. /\ ~Closed /\ Len(log) \in Nat /\ Len(log') = Len(log) + 1
        /\ DOMAIN log = 1..Len(log) /\ DOMAIN log' = 1..(Len(log) + 1)
        /\ \A s \in DOMAIN log : log'[s] = log[s]
        /\ log'[Len(log) + 1].kind = "closed" => Exited
    BY <1>1, Produces
  <2>2. Exited => Exited'
    BY <2>1 DEF Exited
  <2>. QED  BY <2>1, <2>2 DEF LogInv, Closed
<1>2. CASE UNCHANGED log
  BY <1>2, SameLog DEF LogInv
<1>. QED
  BY <1>1, <1>2
  DEF Next, Produce, Server, ReaderTask, Read, Transport, vars, serverVars, Cleanup, LoseLink, Deliver,
      Disconnected, NoteChange, exec_read, FailedRead, TakeChunk, FinishRead, Wake, subscribe,
      Receive, Lagged

(* Every step leaves the event log in order.                               *)
LEMMA SentNext ==
    ASSUME TypeOK, SentInv, [Next]_vars
    PROVE  SentInv'
<1>c. published \in Nat /\ Len(sent) \in Nat
  BY DEF TypeOK
<1>1. CASE pc' = "failed"
  BY <1>1 DEF SentInv
<1>2. ASSUME pc # "failed" \/ pc' = pc, UNCHANGED <<clientVars, reader>> PROVE SentInv'
  BY <1>2 DEF SentInv, clientVars
<1>3. CASE pc' # "failed" /\ Deliver
  <2>1. /\ reader = "run" /\ published' = published + 1 /\ publish(published + 1)
        /\ UNCHANGED <<failure, reader, pc>>
    BY <1>3 DEF Deliver, consumerVars
  <2>2. ~failure /\ Len(sent) = published /\ \A i \in 1..published : sent[i] = i
    BY <1>3, <2>1 DEF SentInv
  <2>3. /\ Len(sent') = Len(sent) + 1 /\ sent'[Len(sent) + 1] = published + 1
        /\ \A i \in 1..Len(sent) : sent'[i] = sent[i]
    BY <2>1, Published
  <2>. QED  BY <1>c, <2>1, <2>2, <2>3 DEF SentInv
<1>4. CASE pc' # "failed" /\ Disconnected
  <2>1. reader = "run" /\ reader' = "done" /\ UNCHANGED <<published, pc>>
    BY <1>4 DEF Disconnected, consumerVars
  <2>2. ~failure /\ Len(sent) = published /\ \A i \in 1..published : sent[i] = i
    BY <1>4, <2>1 DEF SentInv
  <2>3. CASE UNCHANGED <<failure, sent>>
    BY <2>1, <2>2, <2>3 DEF SentInv
  <2>4. CASE failure' = TRUE /\ publish(Failed)
    <3>1. /\ Len(sent') = Len(sent) + 1 /\ sent'[Len(sent) + 1] = Failed
          /\ \A i \in 1..Len(sent) : sent'[i] = sent[i]
      BY <2>4, Published
    <3>. QED  BY <1>c, <2>1, <2>2, <2>4, <3>1 DEF SentInv
  <2>. QED  BY <1>4, <2>2, <2>3, <2>4 DEF Disconnected, set_failure
<1>5. CASE FailedRead
  BY <1>1, <1>5 DEF FailedRead
<1>6. CASE Produce
  BY <1>2, <1>6 DEF Produce, stream_output, watch_exit, maybe_emit_closed, consumerVars
<1>7. CASE Cleanup \/ LoseLink \/ NoteChange
  BY <1>2, <1>7 DEF Cleanup, LoseLink, NoteChange, consumerVars
<1>8. CASE exec_read \/ TakeChunk \/ FinishRead \/ Wake \/ subscribe \/ Receive \/ Lagged
  <2>1. pc # "failed" /\ UNCHANGED <<clientVars, reader>>
    BY <1>8 DEF exec_read, TakeChunk, FinishRead, Wake, subscribe, Receive, Lagged
  <2>. QED  BY <1>2, <2>1
<1>9. CASE UNCHANGED vars
  BY <1>2, <1>9 DEF vars, consumerVars
<1>. QED
  BY <1>1, <1>3, <1>4, <1>5, <1>6, <1>7, <1>8, <1>9
  DEF Next, Produce, Server, ReaderTask, Read, Transport

-----------------------------------------------------------------------------
(* What each step of a consumer does.                                      *)

(* A read that is served answers with the retained chunks that are newer   *)
(* than the cursor, all of them or the first ones; the others are gone, or *)
(* skipped.                                                                *)
LEMMA Serves ==
    ASSUME TypeOK, exec_read, pc' # "failed"
    PROVE  /\ pc = "read" /\ pc' = "served"
           /\ Away' = Away \cup {s \in Chunks : s > cursor /\ s \notin output}
           /\ UNCHANGED <<log, consumer, cursor, got, position, published>>
           /\ \E chunks \in SUBSET Newer(cursor) :
                 /\ response' = ReadResponse(chunks)
                 /\ consumer # "page" => chunks = Newer(cursor)
                 /\ \A c \in chunks, r \in Newer(cursor) : r <= c => r \in chunks
                 /\ chunks = {} => Newer(cursor) = {}
<1>1. entry = "running"
  BY DEF exec_read
<1>2. /\ pc = "read" /\ pc' = "served"
      /\ Away' = Away \cup {s \in Chunks : s > cursor /\ s \notin output}
  <2>1. /\ pc = "read" /\ pc' = "served"
        /\ gone' = gone \cup (Evicted \ ToCome)
        /\ skipped' = skipped \cup (Evicted \cap ToCome)
    BY <1>1, Zenon DEF exec_read
  <2>. QED  BY <2>1, Zenon DEF Away, Evicted
<1>3. UNCHANGED <<log, consumer, cursor, got, position, published>>
  BY DEF exec_read, serverVars, clientVars
<1>4. CASE consumer = "page"
  <2>1. PICK b \in Budgets : response' = ReadResponse(Page(cursor, b))
    BY <1>1, <1>4 DEF exec_read
  <2>. QED  BY <1>2, <1>3, <1>4, <2>1, PageIsPrefix
<1>5. CASE consumer # "page"
  <2>1. response' = ReadResponse(Newer(cursor))
    BY <1>1, <1>5 DEF exec_read
  <2>. QED  BY <1>2, <1>3, <2>1
<1>. QED  BY <1>4, <1>5

(* The next chunk of an answer is taken: it is newer than the cursor.      *)
LEMMA Takes ==
    ASSUME TypeOK, ReplyInv, TakeChunk
    PROVE  /\ Reading /\ pc' = "apply"
           /\ UNCHANGED <<log, consumer, gone, skipped, position, published>>
           /\ \E s \in response.chunks :
                 /\ s \in Chunks /\ cursor < s /\ s < response.next_seq
                 /\ \A c \in response.chunks \ {s} : s < c
                 /\ got' = Append(got, s)
                 /\ cursor' = IF consumer = "push" THEN s ELSE cursor
                 /\ response' = [response EXCEPT !.chunks = @ \ {s}]
<1>. DEFINE s == Min(response.chunks)
<1>1. pc \in {"served", "apply"} /\ response.chunks # {}
  BY DEF TakeChunk
<1>2. /\ response.chunks \in SUBSET Nat /\ response.chunks \subseteq Chunks
      /\ \A c \in response.chunks : cursor < c /\ c < response.next_seq
  BY <1>1 DEF ReplyInv, Reading, TypeOK, Responses
<1>3. s \in response.chunks /\ \A c \in response.chunks : s <= c
  BY <1>1, <1>2, MinIn
<1>4. /\ response' = [response EXCEPT !.chunks = @ \ {s}] /\ pc' = "apply"
      /\ got' = IF consumer # "push" \/ s > cursor THEN Append(got, s) ELSE got
      /\ cursor' = IF consumer = "push" /\ s > cursor THEN s ELSE cursor
      /\ UNCHANGED <<log, consumer, gone, skipped, position, published>>
  BY DEF TakeChunk, serverVars, clientVars
<1>. HIDE DEF s
<1>5. s \in Chunks /\ cursor < s /\ s < response.next_seq /\ s > cursor
  BY <1>2, <1>3 DEF TypeOK
<1>6. \A c \in response.chunks \ {s} : s < c
  BY <1>2, <1>3
<1>7. got' = Append(got, s) /\ cursor' = IF consumer = "push" THEN s ELSE cursor
  BY <1>4, <1>5
<1>. QED  BY <1>1, <1>3, <1>4, <1>5, <1>6, <1>7 DEF Reading

(* At the end of an answer the cursor is the last number it accounts for.  *)
LEMMA Finishes ==
    ASSUME TypeOK, ReplyInv, FinishRead
    PROVE  /\ Reading /\ response.chunks = {} /\ pc' = AfterRead
           /\ cursor' = response.next_seq - 1 /\ response.next_seq \in Nat \ {0}
           /\ UNCHANGED <<log, consumer, gone, skipped, got, position, published>>
<1>1. /\ pc \in {"served", "apply"} /\ response.chunks = {} /\ pc' = AfterRead
      /\ cursor' = IF consumer = "push" /\ cursor > response.next_seq - 1 THEN cursor
                   ELSE response.next_seq - 1
      /\ UNCHANGED <<log, consumer, gone, skipped, got, position, published>>
  BY DEF FinishRead, serverVars, clientVars
<1>2. response.next_seq \in Nat /\ cursor \in Nat /\ cursor < response.next_seq
  BY <1>1 DEF ReplyInv, Reading, TypeOK, Responses
<1>. QED  BY <1>1, <1>2 DEF Reading

(* The transport receives the event that follows, unless it fails.         *)
LEMMA Receives ==
    ASSUME TypeOK, SentInv, Receive, pc' # "failed"
    PROVE  LET e == position + 1
           IN  /\ pc = "recv" /\ e <= published /\ position' = e
               /\ pc' = IF log[e].kind = "closed" THEN "closed" ELSE "recv"
               /\ cursor' = IF e > cursor THEN e ELSE cursor
               /\ got' = IF e > cursor /\ e \in Chunks THEN Append(got, e) ELSE got
               /\ UNCHANGED <<log, consumer, gone, skipped, published>>
<1>. DEFINE e == sent[position + 1]
<1>1. /\ pc = "recv" /\ position < Len(sent) /\ position' = position + 1
      /\ cursor' = IF e > cursor THEN e ELSE cursor
      /\ got' = IF e > cursor /\ e \in Chunks THEN Append(got, e) ELSE got
      /\ pc' = AfterEvent(e)
      /\ UNCHANGED <<log, consumer, gone, skipped, published>>
  BY DEF Receive, serverVars, clientVars
<1>2. e # Failed
  BY <1>1 DEF AfterEvent
<1>3. position \in Nat /\ published \in Nat /\ Len(sent) \in Nat
  BY DEF TypeOK
<1>4. position + 1 <= published /\ e = position + 1
  <2>1. /\ Len(sent) = IF failure THEN published + 1 ELSE published
        /\ \A i \in 1..published : sent[i] = i
        /\ failure => sent[published + 1] = Failed
    BY <1>1 DEF SentInv
  <2>2. position + 1 <= published
    BY <1>1, <1>2, <1>3, <2>1
  <2>. QED  BY <1>3, <2>1, <2>2
<1>5. pc' = IF log[e].kind = "closed" THEN "closed" ELSE "recv"
  BY <1>1, <1>2 DEF AfterEvent
<1>. HIDE DEF e
<1>. QED  BY <1>1, <1>4, <1>5

(* The steps, as a consumer sees them.                                     *)
LEMMA Steps ==
    ASSUME TypeOK, [Next]_vars
    PROVE  \/ Produce
           \/ Deliver
           \/ UNCHANGED <<log, published, consumerVars>>
           \/ pc' = "failed" /\ UNCHANGED <<log, got>>
           \/ exec_read /\ pc' # "failed"
           \/ TakeChunk \/ FinishRead \/ Wake \/ subscribe \/ Lagged
           \/ Receive /\ pc' # "failed"
<1>1. CASE Cleanup \/ LoseLink \/ Disconnected \/ NoteChange \/ UNCHANGED vars
  <2>1. UNCHANGED <<log, published, consumerVars>>
    BY <1>1 DEF Cleanup, LoseLink, Disconnected, NoteChange, vars, serverVars, clientVars
  <2>. QED  BY <2>1
<1>2. CASE FailedRead \/ exec_read
  BY <1>2 DEF FailedRead, exec_read, serverVars
<1>3. CASE Receive
  <2>1. ASSUME pc' = "failed" PROVE UNCHANGED <<log, got>>
    <3>1. pc' = AfterEvent(sent[position + 1]) /\ UNCHANGED log
      BY <1>3 DEF Receive, serverVars
    <3>2. sent[position + 1] = 0
      BY <2>1, <3>1 DEF AfterEvent, Failed
    <3>. QED  BY <1>3, <3>1, <3>2 DEF Receive, TypeOK
  <2>. QED  BY <1>3, <2>1
<1>. QED
  BY <1>1, <1>2, <1>3 DEF Next, Produce, Server, ReaderTask, Read, Transport

-----------------------------------------------------------------------------
(* What a consumer has.                                                    *)

(* Every step leaves an answer newer than the cursor.                      *)
LEMMA ReplyNext ==
    ASSUME TypeOK, LogInv, SentInv, ReplyInv, [Next]_vars
    PROVE  ReplyInv'
<1>1. CASE Produce
  <2>1. /\ Len(log) \in Nat /\ Len(log') = Len(log) + 1 /\ Chunks \subseteq Chunks'
        /\ UNCHANGED consumerVars /\ ~Closed
    BY <1>1, Produces
  <2>2. response.next_seq \in Nat
    BY DEF TypeOK, Responses
  <2>. QED  BY <2>1, <2>2 DEF ReplyInv, Reading, consumerVars
<1>2. CASE Deliver \/ UNCHANGED <<log, published, consumerVars>>
  <2>1. UNCHANGED <<log, consumerVars>>
    BY <1>2 DEF Deliver, serverVars
  <2>. QED  BY <2>1, SameLog DEF ReplyInv, Reading, consumerVars
<1>3. CASE exec_read /\ pc' # "failed"
  <2>1. UNCHANGED <<log, cursor>>
    BY <1>3, Serves
  <2>2. PICK chunks \in SUBSET Newer(cursor) : response' = ReadResponse(chunks)
    BY <1>3, Serves
  <2>3. /\ response'.chunks \subseteq Chunks
        /\ \A c \in response'.chunks : c > cursor /\ c < response'.next_seq
        /\ response'.next_seq \in (cursor + 1)..(Len(log) + 1)
        /\ response'.closed = Closed
    BY <2>2, Answers
  <2>4. cursor \in Nat /\ Len(log) \in Nat
    BY DEF TypeOK
  <2>. QED  BY <2>1, <2>3, <2>4, SameLog DEF ReplyInv
<1>4. CASE TakeChunk
  <2>1. Reading /\ UNCHANGED log
    BY <1>4, Takes
  <2>2. PICK s \in response.chunks :
           /\ s < response.next_seq
           /\ \A c \in response.chunks \ {s} : s < c
           /\ cursor' = IF consumer = "push" THEN s ELSE cursor
           /\ response' = [response EXCEPT !.chunks = @ \ {s}]
    BY <1>4, Takes
  <2>3. /\ response'.chunks = response.chunks \ {s} /\ response'.next_seq = response.next_seq
        /\ response'.closed = response.closed
    BY <2>2 DEF TypeOK, Responses
  <2>. QED  BY <2>1, <2>2, <2>3, SameLog DEF ReplyInv
<1>5. ASSUME ~Reading' PROVE ReplyInv'
  BY <1>5 DEF ReplyInv
<1>6. CASE FinishRead
  BY <1>5, <1>6 DEF FinishRead, AfterRead, Reading
<1>7. CASE Wake \/ subscribe \/ Lagged
  BY <1>5, <1>7 DEF Wake, subscribe, Lagged, Reading
<1>8. CASE Receive /\ pc' # "failed"
  <2>1. pc' \in {"closed", "recv"}
    BY <1>8, Receives
  <2>. QED  BY <1>5, <2>1 DEF Reading
<1>9. CASE pc' = "failed"
  BY <1>5, <1>9 DEF Reading
<1>. QED  BY <1>1, <1>2, <1>3, <1>4, <1>6, <1>7, <1>8, <1>9, Steps

(* Every step leaves the chunks in order, and those to come after them.    *)
LEMMA OrderNext ==
    ASSUME TypeOK, SentInv, ReplyInv, OrderInv, [Next]_vars
    PROVE  OrderInv'
<1>g. /\ cursor \in Nat /\ (\A i \in DOMAIN got : got[i] \in Nat)
      /\ DOMAIN got = 1..Len(got) /\ Len(got) \in Nat
  BY ChunkNumbers DEF TypeOK
<1>1. CASE Produce \/ Deliver \/ UNCHANGED <<log, published, consumerVars>>
  <2>1. UNCHANGED consumerVars
    BY <1>1 DEF Produce, stream_output, watch_exit, maybe_emit_closed, Deliver
  <2>. QED  BY <2>1 DEF OrderInv, OnceInOrder, consumerVars
<1>2. CASE pc' = "failed" /\ UNCHANGED <<log, got>>
  BY <1>2 DEF OrderInv, OnceInOrder
<1>3. CASE exec_read /\ pc' # "failed"
  <2>1. pc = "read" /\ pc' = "served" /\ UNCHANGED <<got, cursor>>
    BY <1>3, Serves
  <2>. QED  BY <2>1 DEF OrderInv, OnceInOrder
<1>4. CASE TakeChunk
  <2>1. Reading /\ pc' = "apply" /\ UNCHANGED consumer
    BY <1>4, Takes
  <2>2. PICK s \in response.chunks :
           /\ s \in Chunks /\ cursor < s /\ s < response.next_seq
           /\ \A c \in response.chunks \ {s} : s < c
           /\ got' = Append(got, s)
           /\ cursor' = IF consumer = "push" THEN s ELSE cursor
           /\ response' = [response EXCEPT !.chunks = @ \ {s}]
    BY <1>4, Takes
  <2>3. /\ response'.chunks = response.chunks \ {s} /\ response'.next_seq = response.next_seq
        /\ s \in Nat /\ response.next_seq \in Nat /\ response.chunks \subseteq Nat
    BY <2>2 DEF TypeOK, Responses
  <2>4. \A i \in DOMAIN got : got[i] < s
    BY <1>g, <2>1, <2>2, <2>3 DEF OrderInv, Reading
  <2>5. /\ DOMAIN got' = 1..(Len(got) + 1) /\ got'[Len(got) + 1] = s
        /\ \A i \in DOMAIN got : got'[i] = got[i]
    BY <2>2, Taken
  <2>6. OnceInOrder'
    BY <1>g, <2>4, <2>5 DEF OrderInv, OnceInOrder
  <2>7. \A i \in DOMAIN got' : got'[i] <= s
    BY <1>g, <2>3, <2>4, <2>5
  <2>8. \A i \in DOMAIN got' : got'[i] \in Nat
    BY <1>g, <2>3, <2>5
  <2>9. \A i \in DOMAIN got' : /\ got'[i] < response'.next_seq
                               /\ \A c \in response'.chunks : got'[i] < c
    BY <2>2, <2>3, <2>7, <2>8
  <2>. QED  BY <2>1, <2>2, <2>6, <2>7, <2>9 DEF OrderInv
<1>5. CASE FinishRead
  <2>1. /\ Reading /\ cursor' = response.next_seq - 1 /\ response.next_seq \in Nat \ {0}
        /\ pc' = AfterRead /\ UNCHANGED got
    BY <1>5, Finishes
  <2>2. \A i \in DOMAIN got : got[i] < response.next_seq
    BY <1>g, <2>1 DEF OrderInv, ReplyInv, Reading
  <2>3. \A i \in DOMAIN got : got[i] <= cursor'
    BY <1>g, <2>1, <2>2
  <2>4. pc' # "apply"
    BY <2>1 DEF AfterRead
  <2>. QED  BY <2>1, <2>3, <2>4 DEF OrderInv, OnceInOrder
<1>6. CASE Wake \/ subscribe \/ Lagged
  <2>1. pc \in {"new", "recv", "wait"} /\ pc' \in {"recv", "read"} /\ UNCHANGED <<got, cursor>>
    BY <1>6 DEF Wake, subscribe, Lagged
  <2>. QED  BY <2>1 DEF OrderInv, OnceInOrder
<1>7. CASE Receive /\ pc' # "failed"
  <2>. DEFINE e == position + 1
  <2>1. /\ pc = "recv" /\ pc' \in {"closed", "recv"}
        /\ cursor' = IF e > cursor THEN e ELSE cursor
        /\ got' = IF e > cursor /\ e \in Chunks THEN Append(got, e) ELSE got
    BY <1>7, Receives
  <2>2. (\A i \in DOMAIN got : got[i] <= cursor) /\ OnceInOrder /\ e \in Nat
    BY <2>1 DEF OrderInv, TypeOK
  <2>. HIDE DEF e
  <2>3. CASE e > cursor /\ e \in Chunks
    <3>1. /\ DOMAIN got' = 1..(Len(got) + 1) /\ got'[Len(got) + 1] = e
          /\ \A i \in DOMAIN got : got'[i] = got[i]
      BY <2>1, <2>3, Taken
    <3>2. OnceInOrder'
      BY <1>g, <2>2, <2>3, <3>1 DEF OnceInOrder
    <3>3. \A i \in DOMAIN got' : got'[i] <= cursor'
      BY <1>g, <2>1, <2>2, <2>3, <3>1
    <3>. QED  BY <2>1, <3>2, <3>3 DEF OrderInv
  <2>4. CASE ~(e > cursor /\ e \in Chunks)
    <3>1. got' = got
      BY <2>1, <2>4
    <3>2. cursor <= cursor' /\ cursor' \in Nat
      BY <1>g, <2>1, <2>2
    <3>3. \A i \in DOMAIN got' : got'[i] <= cursor'
      BY <1>g, <2>2, <3>1, <3>2
    <3>. QED  BY <2>1, <2>2, <3>1, <3>3 DEF OrderInv, OnceInOrder
  <2>. QED  BY <2>3, <2>4
<1>. QED  BY <1>1, <1>2, <1>3, <1>4, <1>5, <1>6, <1>7, Steps

(* Every step leaves nothing behind the cursor that was not taken, gone or *)
(* skipped.                                                                *)
LEMMA CoverNext ==
    ASSUME TypeOK, LogInv, SentInv, ReplyInv, CoverInv, [Next]_vars
    PROVE  CoverInv'
<1>n. /\ Len(log) \in Nat /\ Chunks \subseteq 1..Len(log) /\ cursor \in 0..Len(log)
      /\ published \in 0..Len(log) /\ position \in Nat /\ response.next_seq \in Nat
  BY ChunkNumbers DEF TypeOK, Responses
<1>1. CASE Produce
  <2>1. /\ ~Closed /\ Chunks' \subseteq Chunks \cup {Len(log) + 1}
        /\ UNCHANGED <<clientVars, consumerVars>>
    BY <1>1, Produces
  <2>2. \A s : Covered(s) => Covered(s)'
    BY <2>1 DEF Covered, Away, consumerVars
  <2>3. Reading => response.next_seq <= Len(log) + 1 /\ ~response.closed
    BY <2>1 DEF ReplyInv
  <2>4. pc # "closed"
    BY <2>1 DEF CoverInv
  <2>5. \A s \in Chunks' : s \in Chunks \/ (s > cursor /\ s > published /\ s >= response.next_seq)
                           \/ (s > cursor /\ s > published /\ ~Reading)
    BY <1>n, <2>1, <2>3
  <2>. QED  BY <1>n, <2>1, <2>2, <2>3, <2>4, <2>5 DEF CoverInv, Reading, consumerVars, clientVars
<1>2. CASE Deliver
  <2>1. /\ reader = "run" /\ published' = published + 1 /\ UNCHANGED <<log, consumerVars>>
    BY <1>2 DEF Deliver, serverVars
  <2>2. \A s : Covered(s) <=> Covered(s)'
    BY <2>1 DEF Covered, Away, consumerVars
  <2>3. pc # "failed" => position <= published
    BY <2>1 DEF SentInv, TypeOK
  <2>4. pc # "failed" => \A s \in Chunks : s <= position /\ s <= published' => s <= published
    BY <1>n, <2>3
  <2>. QED  BY <2>1, <2>2, <2>4, SameLog DEF CoverInv, Reading, consumerVars
<1>3. CASE UNCHANGED <<log, published, consumerVars>>
  <2>1. \A s : Covered(s) <=> Covered(s)'
    BY <1>3 DEF Covered, Away, consumerVars
  <2>. QED  BY <1>3, <2>1, SameLog DEF CoverInv, Reading, consumerVars
<1>4. CASE pc' = "failed"
  BY <1>4 DEF CoverInv, Reading
<1>5. CASE exec_read /\ pc' # "failed"
  <2>1. /\ pc = "read" /\ pc' = "served"
        /\ Away' = Away \cup {s \in Chunks : s > cursor /\ s \notin output}
        /\ UNCHANGED <<log, consumer, cursor, got, position, published>>
    BY <1>5, Serves
  <2>2. PICK chunks \in SUBSET Newer(cursor) :
           /\ response' = ReadResponse(chunks)
           /\ consumer # "page" => chunks = Newer(cursor)
           /\ \A c \in chunks, r \in Newer(cursor) : r <= c => r \in chunks
           /\ chunks = {} => Newer(cursor) = {}
    BY <1>5, Serves
  <2>3. /\ response'.chunks = chunks /\ chunks \subseteq Chunks
        /\ chunks # {} => \E c \in chunks : response'.next_seq = c + 1
    BY <2>2, Answers
  <2>4. ASSUME NEW s \in Chunks PROVE Covered(s)' \/ s \in Newer(cursor)
    <3>1. CASE s <= cursor
      BY <2>1, <3>1 DEF CoverInv, Covered, Away
    <3>2. CASE s > cursor
      BY <2>1, <3>2 DEF Covered, Away, Newer
    <3>. QED  BY <1>n, <3>1, <3>2
  <2>5. ASSUME NEW s \in Chunks, s < response'.next_seq PROVE Covered(s)' \/ s \in chunks
    <3>1. CASE chunks = {}
      BY <2>2, <2>4, <3>1
    <3>2. CASE chunks # {}
      <4>1. PICK c \in chunks : response'.next_seq = c + 1
        BY <2>3, <3>2
      <4>2. s <= c
        BY <1>n, <2>3, <2>5, <4>1
      <4>. QED  BY <2>2, <2>4, <4>1, <4>2
    <3>. QED  BY <3>1, <3>2
  <2>6. ASSUME consumer # "page" \/ chunks = {}, NEW s \in Chunks
        PROVE  Covered(s)' \/ s \in chunks
    BY <2>2, <2>4, <2>6
  <2>. QED  BY <2>1, <2>3, <2>5, <2>6, SameLog DEF CoverInv, Reading
<1>6. CASE TakeChunk
  <2>1. Reading /\ pc' = "apply" /\ UNCHANGED <<log, consumer, gone, skipped, position, published>>
    BY <1>6, Takes
  <2>2. PICK s \in response.chunks :
           s \in Chunks /\ got' = Append(got, s) /\ response' = [response EXCEPT !.chunks = @ \ {s}]
    BY <1>6, Takes
  <2>3. /\ response'.chunks = response.chunks \ {s} /\ response'.next_seq = response.next_seq
        /\ response'.closed = response.closed
    BY <2>2 DEF TypeOK, Responses
  <2>4. /\ Len(got) \in Nat /\ DOMAIN got = 1..Len(got) /\ DOMAIN got' = 1..(Len(got) + 1)
        /\ got'[Len(got) + 1] = s /\ \A i \in DOMAIN got : got'[i] = got[i]
    BY <2>2, Taken
  <2>5. Covered(s)' /\ \A r : Covered(r) => Covered(r)'
    BY <2>1, <2>4 DEF Covered, Away
  <2>6. \A r \in Chunks : Covered(r) \/ r \in response.chunks
                          => Covered(r)' \/ r \in response'.chunks
    BY <2>3, <2>5
  <2>. QED  BY <2>1, <2>3, <2>6, SameLog DEF CoverInv, Reading
<1>7. CASE FinishRead
  <2>1. /\ Reading /\ response.chunks = {} /\ pc' = AfterRead
        /\ cursor' = response.next_seq - 1
        /\ UNCHANGED <<log, consumer, gone, skipped, got, position, published>>
    BY <1>7, Finishes
  <2>2. \A s : Covered(s) <=> Covered(s)'
    BY <2>1 DEF Covered, Away
  <2>3. \A s \in Chunks : s <= cursor' => Covered(s)
    BY <1>n, <2>1 DEF CoverInv
  <2>4. ASSUME pc' = "closed" PROVE Closed /\ \A s \in Chunks : Covered(s)
    <3>1. response.closed /\ (consumer = "page" => pc = "served")
      BY <2>1, <2>4 DEF AfterRead
    <3>. QED  BY <2>1, <3>1 DEF CoverInv, ReplyInv
  <2>5. ASSUME pc' = "recv"
        PROVE  consumer = "push" /\ \A s \in Chunks : s <= position /\ s <= published => Covered(s)
    <3>1. consumer = "push"
      BY <2>1, <2>5 DEF AfterRead
    <3>. QED  BY <2>1, <3>1 DEF CoverInv
  <2>6. pc' \in {"closed", "recv", "wait", "read"}
    BY <2>1 DEF AfterRead
  <2>. QED  BY <2>1, <2>2, <2>3, <2>4, <2>5, <2>6, SameLog DEF CoverInv, Reading
<1>8. CASE Wake \/ Lagged
  <2>1. /\ pc \in {"wait", "recv"} /\ pc' = "read"
        /\ UNCHANGED <<log, consumer, cursor, gone, skipped, got, published>>
    BY <1>8 DEF Wake, Lagged, serverVars, clientVars
  <2>2. \A s : Covered(s) <=> Covered(s)'
    BY <2>1 DEF Covered, Away
  <2>. QED  BY <2>1, <2>2, SameLog DEF CoverInv, Reading
<1>9. CASE subscribe
  <2>1. /\ consumer = "push" /\ pc = "new" /\ pc' = "recv" /\ position' = evicted
        /\ gone' = {sent[i] : i \in 1..evicted} /\ UNCHANGED <<log, consumer, cursor, skipped, published>>
    BY <1>9 DEF subscribe, serverVars, clientVars
  <2>2. cursor = 0 /\ \A i \in 1..published : sent[i] = i
    BY <2>1 DEF CoverInv, SentInv
  <2>3. ASSUME NEW s \in Chunks, s <= evicted, s <= published PROVE Covered(s)'
    <3>1. s \in 1..evicted /\ s \in 1..published
      BY <1>n, <2>3 DEF TypeOK
    <3>. QED  BY <2>1, <2>2, <3>1 DEF Covered, Away
  <2>4. \A s \in Chunks : ~(s <= cursor)
    BY <1>n, <2>2
  <2>. QED  BY <2>1, <2>3, <2>4, SameLog DEF CoverInv, Reading
<1>10. CASE Receive /\ pc' # "failed"
  <2>e. PICK e \in Nat : e = position + 1
    BY <1>n
  <2>1. /\ pc = "recv" /\ e <= published /\ position' = e
        /\ pc' = IF log[e].kind = "closed" THEN "closed" ELSE "recv"
        /\ cursor' = IF e > cursor THEN e ELSE cursor
        /\ got' = IF e > cursor /\ e \in Chunks THEN Append(got, e) ELSE got
        /\ UNCHANGED <<log, consumer, gone, skipped, published>>
    BY <1>10, <2>e, Receives
  <2>2. (\A s : Covered(s) => Covered(s)') /\ (e > cursor /\ e \in Chunks => Covered(e)')
    <3>1. CASE e > cursor /\ e \in Chunks
      <4>1. got' = Append(got, e)
        BY <2>1, <3>1
      <4>2. /\ Len(got) \in Nat /\ DOMAIN got = 1..Len(got) /\ DOMAIN got' = 1..(Len(got) + 1)
            /\ got'[Len(got) + 1] = e /\ \A i \in DOMAIN got : got'[i] = got[i]
        BY <3>1, <4>1, Taken
      <4>. QED  BY <2>1, <4>2 DEF Covered, Away
    <3>2. CASE ~(e > cursor /\ e \in Chunks)
      BY <2>1, <3>2 DEF Covered, Away
    <3>. QED  BY <3>1, <3>2
  <2>3. ASSUME NEW s \in Chunks, s <= e PROVE Covered(s)'
    <3>1. CASE s = e
      BY <1>n, <2>1, <2>2, <3>1 DEF CoverInv
    <3>2. CASE s # e
      <4>1. s <= position /\ s <= published
        BY <1>n, <2>e, <2>1, <2>3, <3>2
      <4>. QED  BY <2>1, <2>2, <4>1 DEF CoverInv
    <3>. QED  BY <3>1, <3>2
  <2>4. ASSUME NEW s \in Chunks, s <= cursor' PROVE Covered(s)'
    <3>1. CASE s <= cursor
      BY <2>1, <2>2, <3>1 DEF CoverInv
    <3>2. CASE ~(s <= cursor)
      BY <2>1, <2>3, <2>4, <3>2
    <3>. QED  BY <3>1, <3>2
  <2>5. ASSUME pc' = "closed" PROVE Closed /\ \A s \in Chunks : Covered(s)'
    <3>1. log[e].kind = "closed" /\ e \in DOMAIN log
      BY <1>n, <2>e, <2>1, <2>5 DEF TypeOK
    <3>2. e = Len(log) /\ Closed
      BY <3>1 DEF LogInv, Closed
    <3>. QED  BY <1>n, <2>3, <3>2
  <2>6. consumer = "push" /\ pc' \in {"closed", "recv"}
    BY <2>1 DEF CoverInv
  <2>. QED  BY <2>1, <2>3, <2>4, <2>5, <2>6, SameLog DEF CoverInv, Reading
<1>. QED  BY <1>1, <1>2, <1>3, <1>4, <1>5, <1>6, <1>7, <1>8, <1>9, <1>10, Steps

-----------------------------------------------------------------------------
(* The theorems.                                                           *)

(* The invariant holds at the start.                                       *)
LEMMA InvInit == Init => IInv
<1>. SUFFICES ASSUME Init PROVE IInv
  OBVIOUS
<1>. USE DEF Init
<1>1. Len(log) = 0 /\ Len(sent) = 0 /\ DOMAIN log = {} /\ DOMAIN got = {}
  OBVIOUS
<1>2. Chunks = {}
  BY <1>1 DEF Chunks
<1>3. response \in Responses
  BY DEF NoResponse, Responses
<1>f. Flags
  BY DEF Flags
<1>4. TypeOK
  BY <1>1, <1>2, <1>3, <1>f DEF TypeOK, Flags
<1>5. LogInv /\ SentInv /\ ReplyInv
  BY <1>1 DEF LogInv, SentInv, ReplyInv, Reading
<1>6. OrderInv
  BY <1>1 DEF OrderInv, OnceInOrder
<1>7. CoverInv
  BY <1>2 DEF CoverInv, Reading
<1>. QED  BY <1>4, <1>5, <1>6, <1>7 DEF IInv

(* Every step preserves it.                                                *)
LEMMA InvNext == IInv /\ [Next]_vars => IInv'
BY TypeNext, LogNext, SentNext, ReplyNext, OrderNext, CoverNext DEF IInv

(* It is an invariant of every behaviour.                                  *)
LEMMA Invariance == Safety => []IInv
BY InvInit, InvNext, PTL DEF Safety

(* The server's, the client's and the consumer's state keeps its type; in  *)
(* particular no cursor gets ahead of the numbers that were given.         *)
THEOREM TypeCorrect == Safety => []TypeOK
<1>1. IInv => TypeOK
  BY DEF IInv
<1>. QED  BY Invariance, <1>1, PTL

(* push_process_output_if_new and the output task: no chunk twice, none    *)
(* out of order, whatever the limits and however far a consumer is behind. *)
THEOREM TakenInOrder == Safety => []OnceInOrder
<1>1. IInv => OnceInOrder
  BY DEF IInv, OrderInv
<1>. QED  BY Invariance, <1>1, PTL

(* recover_lagged_events, the replay and the paging of exec_read: at the   *)
(* end of the process a consumer has all that was not evicted before it    *)
(* could look, and that its recovery did not make it pass over.            *)
THEOREM AllTakenAtEnd == Safety => []NothingLostAtEnd
<1>1. IInv => NothingLostAtEnd
  BY DEF IInv, CoverInv, Covered, Away, NothingLostAtEnd
<1>. QED  BY Invariance, <1>1, PTL
=============================================================================
