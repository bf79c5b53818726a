-------------------------- MODULE RequestLogProofs --------------------------
(***************************************************************************)
(* Proofs about RequestLog: for every cap and every way of cutting a body  *)
(* into chunks, the copy is the body up to the cap, its text reads as that *)
(* of the whole body, and the entry agrees with what the client gets.      *)
(***************************************************************************)
EXTENDS RequestLog, SequenceTheorems, TLAPS

(* The length and the elements of a slice whose bound is not negative.     *)
LEMMA SliceProperties ==
  ASSUME NEW b \in Seq(Bytes), NEW n \in Nat
  PROVE  /\ Slice(b, n) \in Seq(Bytes)
         /\ Len(Slice(b, n)) = IF n <= Len(b) THEN n ELSE Len(b)
         /\ \A i \in 1..Len(Slice(b, n)) : Slice(b, n)[i] = b[i]
<1> DEFINE k == IF n <= Len(b) THEN n ELSE Len(b)
<1>1. k \in Nat /\ k <= Len(b)
  BY LenProperties
<1>2. Slice(b, n) = SubSeq(b, 1, k)
  BY DEF Slice
<1>3. \A i \in 1..k : b[i] \in Bytes
  BY <1>1, ElementOfSeq
<1> HIDE DEF k
<1>4. /\ SubSeq(b, 1, k) \in Seq(Bytes)
      /\ Len(SubSeq(b, 1, k)) = k
      /\ \A i \in 1..k : SubSeq(b, 1, k)[i] = b[i]
  BY <1>1, <1>3, SubSeqProperties
<1> QED
  BY <1>2, <1>4 DEF k

(* A body that is no longer than the bound is its own slice.               *)
LEMMA SliceOfShort ==
  ASSUME NEW b \in Seq(Bytes), NEW n \in Nat, Len(b) <= n
  PROVE  Slice(b, n) = b
<1>1. Len(b) \in Nat
  BY LenProperties
<1>2. Len(Slice(b, n)) = Len(b)
  BY <1>1, SliceProperties
<1> QED
  BY <1>2, SliceProperties, SeqEqual

(* Extending the copy of a body by a chunk gives the copy of the extended  *)
(* body (api_request_log_middleware.py:67, 74).                            *)
LEMMA ExtendedIsPrefix ==
  ASSUME NEW b \in Seq(Bytes), NEW c \in Seq(Bytes)
  PROVE  /\ b \o c \in Seq(Bytes)
         /\ Extended(Slice(b, MaxBodyBytes), c) = Slice(b \o c, MaxBodyBytes)
<1> DEFINE cap == MaxBodyBytes
           copy == Slice(b, cap)
           left == cap - Len(copy)
           extended == copy \o Slice(c, left)
           whole == b \o c
<1>1. cap \in Nat /\ Len(b) \in Nat /\ Len(c) \in Nat
  BY CapAssumption, LenProperties
<1>2. /\ whole \in Seq(Bytes)
      /\ Len(whole) = Len(b) + Len(c)
      /\ \A i \in 1..(Len(b) + Len(c)) :
           whole[i] = IF i <= Len(b) THEN b[i] ELSE c[i - Len(b)]
  BY ConcatProperties
<1>3. /\ copy \in Seq(Bytes)
      /\ Len(copy) = IF cap <= Len(b) THEN cap ELSE Len(b)
      /\ \A i \in 1..Len(copy) : copy[i] = b[i]
  BY <1>1, SliceProperties
<1>4. left \in Nat
  BY <1>1, <1>3
<1> HIDE DEF cap, whole
<1>5. /\ Slice(c, left) \in Seq(Bytes)
      /\ Len(Slice(c, left)) = IF left <= Len(c) THEN left ELSE Len(c)
      /\ \A i \in 1..Len(Slice(c, left)) : Slice(c, left)[i] = c[i]
  BY <1>4, SliceProperties
<1> HIDE DEF copy
<1>6. /\ extended \in Seq(Bytes)
      /\ Len(extended) = Len(copy) + Len(Slice(c, left))
      /\ \A i \in 1..(Len(copy) + Len(Slice(c, left))) :
           extended[i] = IF i <= Len(copy) THEN copy[i]
                                           ELSE Slice(c, left)[i - Len(copy)]
  BY <1>3, <1>5, ConcatProperties
<1>7. /\ Slice(whole, cap) \in Seq(Bytes)
      /\ Len(Slice(whole, cap)) = IF cap <= Len(whole) THEN cap ELSE Len(whole)
      /\ \A i \in 1..Len(Slice(whole, cap)) : Slice(whole, cap)[i] = whole[i]
  BY <1>1, <1>2, SliceProperties
<1>8. Len(extended) = Len(Slice(whole, cap))
  BY <1>1, <1>2, <1>3, <1>5, <1>6, <1>7
<1>9. ASSUME NEW i \in 1..Len(extended)
      PROVE  extended[i] = Slice(whole, cap)[i]
  <2>1. Slice(whole, cap)[i] = whole[i] /\ i \in 1..(Len(b) + Len(c))
    BY <1>1, <1>2, <1>7, <1>8
  <2>2. CASE i <= Len(copy)
    <3>1. extended[i] = b[i]
      BY <1>3, <1>6, <2>2
    <3>2. whole[i] = b[i]
      BY <1>1, <1>2, <1>3, <2>1, <2>2
    <3> QED
      BY <2>1, <3>1, <3>2
  <2>3. CASE i > Len(copy)
    <3>1. /\ i - Len(copy) \in 1..Len(Slice(c, left))
          /\ Len(copy) = Len(b)
      BY <1>1, <1>3, <1>5, <1>6, <2>3
    <3>2. extended[i] = c[i - Len(b)]
      BY <1>1, <1>5, <1>6, <2>3, <3>1
    <3>3. whole[i] = c[i - Len(b)]
      BY <1>1, <1>2, <2>1, <2>3, <3>1
    <3> QED
      BY <2>1, <3>2, <3>3
  <2> QED
    BY <1>1, <1>3, <2>2, <2>3
<1>10. extended = Slice(whole, cap)
  BY <1>6, <1>7, <1>8, <1>9, SeqEqual
<1> QED
  BY <1>2, <1>10 DEF Extended, cap, copy, whole

(* The length, the type and the glyphs of a text.                          *)
LEMMA TextProperties ==
  ASSUME NEW raw \in Seq(Bytes)
  PROVE  /\ Text(raw) \in Seq(Glyphs)
         /\ Len(Text(raw)) = Len(raw)
         /\ \A i \in 1..Len(raw) :
              Text(raw)[i] = IF Paired(raw, i) THEN Character
                             ELSE IF Paired(raw, i - 1) THEN Joined
                             ELSE IF raw[i] \in {Lead, Cont} THEN Replacement
                             ELSE raw[i]
<1> DEFINE glyph(i) == IF Paired(raw, i) THEN Character
                       ELSE IF Paired(raw, i - 1) THEN Joined
                       ELSE IF raw[i] \in {Lead, Cont} THEN Replacement
                       ELSE raw[i]
           n == Len(raw)
<1>1. n \in Nat
  BY LenProperties
<1>2. \A i \in 1..n : glyph(i) \in Glyphs
  BY ElementOfSeq DEF Glyphs
<1>3. Text(raw) = [i \in 1..n |-> glyph(i)]
  BY DEF Text
<1> HIDE DEF glyph, n
<1>4. Text(raw) \in [1..n -> Glyphs]
  BY <1>2, <1>3
<1>5. Text(raw) \in Seq(Glyphs) /\ Len(Text(raw)) = n
  BY <1>1, <1>4, LenProperties
<1>6. \A i \in 1..n : Text(raw)[i] = glyph(i)
  BY <1>3
<1> QED
  BY <1>5, <1>6 DEF glyph, n

(* A glyph depends on its byte and the two beside it: where two bodies     *)
(* agree on those, their texts agree.                                      *)
LEMMA TextIsLocal ==
  ASSUME NEW b \in Seq(Bytes), NEW c \in Seq(Bytes), NEW i \in Nat,
         1 <= i, i < Len(b), i < Len(c),
         \A j \in 1..(i + 1) : b[j] = c[j]
  PROVE  Text(b)[i] = Text(c)[i]
<1>1. Len(b) \in Nat /\ Len(c) \in Nat
  BY LenProperties
<1>2. /\ Paired(b, i) <=> Paired(c, i)
      /\ Paired(b, i - 1) <=> Paired(c, i - 1)
      /\ b[i] = c[i]
  BY <1>1 DEF Paired
<1>3. i \in 1..Len(b) /\ i \in 1..Len(c)
  BY <1>1
<1> QED
  BY <1>2, <1>3, TextProperties

(* Where a body is cut, its text ends as that of the whole body reads, or  *)
(* in the replacement of a character that was cut in two.                  *)
LEMMA TextAtACut ==
  ASSUME NEW b \in Seq(Bytes), NEW c \in Seq(Bytes), NEW i \in Nat,
         1 <= i, i < Len(b), i = Len(c),
         \A j \in 1..i : b[j] = c[j]
  PROVE  \/ Text(c)[i] = Text(b)[i]
         \/ Text(b)[i] = Character /\ Text(c)[i] = Replacement
<1>1. Len(b) \in Nat /\ Len(c) \in Nat
  BY LenProperties
<1>2. /\ ~Paired(c, i)
      /\ Paired(b, i - 1) <=> Paired(c, i - 1)
      /\ b[i] = c[i]
  BY <1>1 DEF Paired
<1>3. i \in 1..Len(b) /\ i \in 1..Len(c)
  BY <1>1
<1>4. CASE Paired(b, i)
  <2>1. c[i] = Lead /\ ~Paired(c, i - 1)
    BY <1>1, <1>2, <1>4, CharacterAssumption DEF Paired
  <2> QED
    BY <1>2, <1>3, <1>4, <2>1, TextProperties
<1>5. CASE ~Paired(b, i)
  BY <1>2, <1>3, <1>5, TextProperties
<1> QED
  BY <1>4, <1>5

(* The copy of a body reads as the body.                                   *)
LEMMA SliceReads ==
  ASSUME NEW b \in Seq(Bytes)
  PROVE  Reads(Text(Slice(b, MaxBodyBytes)), b)
<1> DEFINE cap == MaxBodyBytes
           c == Slice(b, cap)
           n == Len(c)
<1>1. cap \in Nat /\ Len(b) \in Nat
  BY CapAssumption, LenProperties
<1>2. /\ c \in Seq(Bytes)
      /\ n = IF cap <= Len(b) THEN cap ELSE Len(b)
      /\ \A i \in 1..n : c[i] = b[i]
  BY <1>1, SliceProperties
<1> HIDE DEF cap, c
<1>3. Len(Text(c)) = n
  BY <1>2, TextProperties
<1>4. ASSUME NEW i \in 1..n
      PROVE  \/ Text(c)[i] = Text(b)[i]
             \/ i = cap /\ Text(b)[i] = Character /\ Text(c)[i] = Replacement
  <2>1. i \in Nat /\ 1 <= i /\ i <= Len(b)
    BY <1>1, <1>2
  <2>2. CASE i < n
    <3>1. i < Len(b) /\ \A j \in 1..(i + 1) : b[j] = c[j]
      BY <1>1, <1>2, <2>1, <2>2
    <3> QED
      BY <1>2, <2>1, <2>2, <3>1, TextIsLocal
  <2>3. CASE i = n /\ n < Len(b)
    <3>1. i = cap /\ \A j \in 1..i : b[j] = c[j]
      BY <1>1, <1>2, <2>3
    <3> QED
      BY <1>2, <2>1, <2>3, <3>1, TextAtACut
  <2>4. CASE n = Len(b)
    <3>1. c = b
      BY <1>2, <2>4, SeqEqual
    <3> QED
      BY <3>1
  <2> QED
    BY <1>1, <1>2, <2>1, <2>2, <2>3, <2>4
<1> QED
  BY <1>3, <1>4 DEF Reads, cap, c

(* A decoded body has the type of one, and its text is that of the bytes.  *)
LEMMA DecodedProperties ==
  ASSUME NEW raw \in Seq(Bytes), NEW j \in BOOLEAN
  PROVE  /\ Decoded(raw, j) \in BodyEntry
         /\ TextOf(Decoded(raw, j)) = Text(raw)
<1>1. Text(raw) \in Seq(Glyphs) /\ Len(Text(raw)) = Len(raw)
  BY TextProperties
<1>2. CASE raw = << >>
  <2>1. Text(raw) = << >>
    BY <1>1, <1>2, EmptySeq
  <2> QED
    BY <1>2, <2>1 DEF Decoded, BodyEntry, TextOf
<1>3. CASE raw # << >>
  <2>1. /\ Decoded(raw, j) \in LoggedBodies
        /\ Decoded(raw, j).text = Text(raw)
    BY <1>1, <1>3 DEF Decoded, LoggedBodies
  <2> QED
    BY <2>1, NoneAssumption DEF BodyEntry, TextOf
<1> QED
  BY <1>2, <1>3

-----------------------------------------------------------------------------
(* What the client has got: the status is that of the started response, or *)
(* the server's own once the call is over, and the body is a beginning of  *)
(* the one handed over, all of it while the client listens.                *)
ClientInv ==
  /\ got_status # NotStarted =>
       IF response_start = NotStarted
       THEN got_status = ServerError /\ stage \in {"logged", "raised"}
       ELSE got_status = response_start
  /\ got_body \in Seq(Bytes)
  /\ Len(got_body) <= Len(produced)
  /\ \A i \in 1..Len(got_body) : got_body[i] = produced[i]
  /\ connected => got_body = produced

(* The entry is made once, of the copies as they are at the end.           *)
EntryInv ==
  /\ stage # "logged" => entry = None
  /\ stage = "logged" =>
       entry = [status_code |-> IF response_start = NotStarted THEN ServerError
                                                               ELSE response_start,
                request_body |-> Decoded(request_body, json_type),
                response_body |-> Decoded(response_body, response_is_json)]

(* The invariant: what the properties rest on.                             *)
IInv ==
  /\ stage \in {"handling", "ending", "logged", "raised"}
  /\ json_type \in BOOLEAN
  /\ received \in Seq(Bytes)
  /\ produced \in Seq(Bytes)
  /\ response_start \in Statuses \cup {NotStarted}
  /\ connected \in BOOLEAN
  /\ CopiesArePrefixes
  /\ ClientInv
  /\ EntryInv

LEMMA InitIInv == Init => IInv
<1> SUFFICES ASSUME Init PROVE IInv
  OBVIOUS
<1> DEFINE empty == << >>
<1>1. empty \in Seq(Bytes) /\ Len(empty) = 0
  BY EmptySeq
<1> HIDE DEF empty
<1>2. Len(empty) <= MaxBodyBytes /\ MaxBodyBytes \in Nat
  BY <1>1, CapAssumption
<1>3. Slice(empty, MaxBodyBytes) = empty
  BY <1>1, <1>2, SliceOfShort
<1> QED
  BY <1>1, <1>3 DEF empty, Init, IInv, CopiesArePrefixes, ClientInv, EntryInv

(* A chunk that is sent keeps what the client has got a beginning of what  *)
(* was handed over, whether it arrives or not.                             *)
LEMMA SendKeepsClient ==
  ASSUME IInv, NEW chunk \in Seq(Bytes),
         produced' = produced \o chunk,
         UNCHANGED <<response_start, connected, got_status>>,
         response_start # NotStarted,
         \/ connected /\ got_body' = got_body \o chunk
         \/ ~connected /\ got_body' = got_body
  PROVE  ClientInv'
<1>1. /\ produced \in Seq(Bytes) /\ got_body \in Seq(Bytes)
      /\ Len(produced) \in Nat /\ Len(got_body) \in Nat /\ Len(chunk) \in Nat
      /\ Len(got_body) <= Len(produced)
      /\ \A i \in 1..Len(got_body) : got_body[i] = produced[i]
  BY LenProperties DEF IInv, ClientInv
<1>2. /\ produced' \in Seq(Bytes)
      /\ Len(produced') = Len(produced) + Len(chunk)
      /\ \A i \in 1..(Len(produced) + Len(chunk)) :
           produced'[i] = IF i <= Len(produced) THEN produced[i]
                                                ELSE chunk[i - Len(produced)]
  BY <1>1, ConcatProperties
<1>3. got_status # NotStarted => got_status = response_start
  BY DEF IInv, ClientInv
<1>4. CASE connected
  <2>1. got_body' = produced'
    BY <1>4 DEF IInv, ClientInv
  <2> QED
    BY <1>1, <1>2, <1>3, <2>1 DEF ClientInv
<1>5. CASE ~connected
  <2>1. \A i \in 1..Len(got_body) : got_body[i] = produced'[i]
    BY <1>1, <1>2
  <2> QED
    BY <1>1, <1>2, <1>3, <1>5, <2>1 DEF ClientInv
<1> QED
  BY <1>4, <1>5

LEMMA NextIInv == IInv /\ [Next]_vars => IInv'
<1> SUFFICES ASSUME IInv, [Next]_vars PROVE IInv'
  OBVIOUS
<1> USE DEF request_vars, response_vars, client_vars
<1>1. CASE UNCHANGED vars
  BY <1>1 DEF vars, IInv, CopiesArePrefixes, ClientInv, EntryInv, response_is_json
<1>2. CASE Receive
  <2>1. PICK chunk \in Chunks :
          /\ received' = received \o chunk
          /\ request_body' = Extended(request_body, chunk)
    BY <1>2 DEF Receive
  <2>2. /\ received' \in Seq(Bytes)
        /\ request_body' = Slice(received', MaxBodyBytes)
    BY <2>1, ExtendedIsPrefix, ChunksAssumption DEF IInv, CopiesArePrefixes
  <2>3. CopiesArePrefixes'
    BY <1>2, <2>2 DEF Receive, IInv, CopiesArePrefixes
  <2>4. ClientInv' /\ EntryInv'
    BY <1>2 DEF Receive, IInv, ClientInv, EntryInv
  <2> QED
    BY <1>2, <2>2, <2>3, <2>4 DEF Receive, IInv
<1>3. CASE StartResponse
  <2>1. got_status = NotStarted
    BY <1>3 DEF StartResponse, IInv, ClientInv
  <2>2. ClientInv'
    BY <1>3, <2>1 DEF StartResponse, Reaches, IsLost, IInv, ClientInv
  <2>3. /\ stage' \in {"handling", "ending"}
        /\ CopiesArePrefixes'
        /\ EntryInv'
    BY <1>3 DEF StartResponse, Reaches, IsLost, IInv, CopiesArePrefixes, EntryInv
  <2> QED
    BY <1>3, <2>2, <2>3 DEF StartResponse, IInv
<1>4. CASE SendBody
  <2>1. PICK chunk \in Chunks :
          /\ produced' = produced \o chunk
          /\ response_body' = Extended(response_body, chunk)
          /\ \/ connected /\ got_body' = got_body \o chunk
             \/ ~connected /\ got_body' = got_body
    BY <1>4 DEF SendBody, Reaches, IsLost
  <2>2. /\ produced' \in Seq(Bytes)
        /\ response_body' = Slice(produced', MaxBodyBytes)
    BY <2>1, ExtendedIsPrefix, ChunksAssumption DEF IInv, CopiesArePrefixes
  <2>3. CopiesArePrefixes'
    BY <1>4, <2>2 DEF SendBody, IInv, CopiesArePrefixes
  <2>4. ClientInv'
    BY <1>4, <2>1, SendKeepsClient, ChunksAssumption DEF SendBody
  <2>5. stage' \in {"handling", "ending"} /\ EntryInv'
    BY <1>4 DEF SendBody, Reaches, IsLost, IInv, EntryInv
  <2> QED
    BY <1>4, <2>2, <2>3, <2>4, <2>5 DEF SendBody, IInv
<1>5. CASE EndHandling
  BY <1>5 DEF EndHandling, IInv, CopiesArePrefixes, ClientInv, EntryInv
<1>6. CASE LogEntry
  <2>1. ClientInv' /\ CopiesArePrefixes'
    BY <1>6 DEF LogEntry, IInv, CopiesArePrefixes, ClientInv
  <2>2. EntryInv'
    BY <1>6 DEF LogEntry, EntryInv, response_is_json
  <2> QED
    BY <1>6, <2>1, <2>2 DEF LogEntry, IInv
<1>7. CASE EntryNotBuilt
  BY <1>7 DEF EntryNotBuilt, IInv, CopiesArePrefixes, ClientInv, EntryInv
<1>8. CASE ClientLeaves
  <2>1. EntryInv'
    BY <1>8 DEF ClientLeaves, IInv, EntryInv, response_is_json
  <2> QED
    BY <1>8, <2>1 DEF ClientLeaves, IInv, CopiesArePrefixes, ClientInv
<1>9. CASE ServerAnswers
  <2>1. EntryInv'
    BY <1>9 DEF ServerAnswers, IInv, EntryInv, response_is_json
  <2> QED
    BY <1>9, <2>1 DEF ServerAnswers, IInv, CopiesArePrefixes, ClientInv
<1> QED
  BY <1>1, <1>2, <1>3, <1>4, <1>5, <1>6, <1>7, <1>8, <1>9 DEF Next

(* The invariant holds in every reachable state.                           *)
THEOREM Invariance == Spec => []IInv
  BY InitIInv, NextIInv, PTL DEF Spec

-----------------------------------------------------------------------------
(* The copies are the bodies up to the cap, for every cap and chunking.    *)
THEOREM CopiesAreExact == Spec => []CopiesArePrefixes
<1>1. IInv => CopiesArePrefixes
  BY DEF IInv
<1> QED
  BY <1>1, Invariance, PTL

(* The texts of a finished entry are those of the copies.                  *)
LEMMA EntryTexts ==
  ASSUME IInv, entry # None
  PROVE  /\ entry.status_code = IF response_start = NotStarted THEN ServerError
                                                               ELSE response_start
         /\ TextOf(entry.request_body) = Text(Slice(received, MaxBodyBytes))
         /\ TextOf(entry.response_body) = Text(Slice(produced, MaxBodyBytes))
<1>1. /\ request_body \in Seq(Bytes) /\ request_body = Slice(received, MaxBodyBytes)
      /\ response_body \in Seq(Bytes) /\ response_body = Slice(produced, MaxBodyBytes)
  BY SliceProperties, CapAssumption DEF IInv, CopiesArePrefixes
<1>2. /\ entry.status_code = IF response_start = NotStarted THEN ServerError
                                                            ELSE response_start
      /\ entry.request_body = Decoded(request_body, json_type)
      /\ entry.response_body = Decoded(response_body, response_is_json)
  BY DEF IInv, EntryInv
<1>3. json_type \in BOOLEAN /\ response_is_json \in BOOLEAN
  BY DEF IInv, response_is_json
<1> QED
  BY <1>1, <1>2, <1>3, DecodedProperties

(* Both bodies of an entry read as those exchanged, for every cap, every   *)
(* body and every chunking.                                                *)
THEOREM EntryReadsRight == Spec => []EntryReadsAsTheBodies
<1>1. IInv => EntryReadsAsTheBodies
  <2> SUFFICES ASSUME IInv, entry # None
               PROVE  /\ Reads(TextOf(entry.request_body), received)
                      /\ Reads(TextOf(entry.response_body), produced)
    BY DEF EntryReadsAsTheBodies
  <2>1. received \in Seq(Bytes) /\ produced \in Seq(Bytes)
    BY DEF IInv
  <2> QED
    BY <2>1, EntryTexts, SliceReads
<1> QED
  BY <1>1, Invariance, PTL

(* The entry never contradicts the client, whenever that left and whoever  *)
(* answered it.                                                            *)
THEOREM EntryIsTrueToTheClient == Spec => []EntryAgreesWithTheClient
<1>1. IInv => EntryAgreesWithTheClient
  <2> SUFFICES ASSUME IInv, entry # None PROVE EntryAgreesWithTheClient
    BY DEF EntryAgreesWithTheClient
  <2> DEFINE copy == Slice(produced, MaxBodyBytes)
  <2>1. got_status # NotStarted => entry.status_code = got_status
    BY EntryTexts DEF IInv, ClientInv
  <2>2. /\ produced \in Seq(Bytes) /\ got_body \in Seq(Bytes)
        /\ Len(produced) \in Nat /\ Len(got_body) \in Nat
        /\ Len(got_body) <= Len(produced)
        /\ \A i \in 1..Len(got_body) : got_body[i] = produced[i]
    BY LenProperties DEF IInv, ClientInv
  <2>3. /\ copy \in Seq(Bytes) /\ MaxBodyBytes \in Nat
        /\ Len(copy) = IF MaxBodyBytes <= Len(produced) THEN MaxBodyBytes
                                                        ELSE Len(produced)
        /\ \A i \in 1..Len(copy) : copy[i] = produced[i]
    BY <2>2, SliceProperties, CapAssumption
  <2> HIDE DEF copy
  <2>4. ASSUME NEW i \in 1..(Len(got_body) - 1), i < MaxBodyBytes
        PROVE  Text(copy)[i] = Text(got_body)[i]
    <3>1. /\ i \in Nat /\ 1 <= i /\ i < Len(got_body) /\ i < Len(copy)
          /\ \A j \in 1..(i + 1) : copy[j] = got_body[j]
      BY <2>2, <2>3, <2>4
    <3> QED
      BY <2>2, <2>3, <3>1, TextIsLocal
  <2>5. TextOf(entry.response_body) = Text(copy)
    BY EntryTexts DEF copy
  <2> QED
    BY <2>1, <2>4, <2>5 DEF EntryAgreesWithTheClient
<1> QED
  BY <1>1, Invariance, PTL

(* The types of the state, and the cap on both copies.                     *)
THEOREM TypeCorrect == Spec => []TypeOK
<1>1. IInv => TypeOK
  <2> SUFFICES ASSUME IInv PROVE TypeOK
    OBVIOUS
  <2>1. ASSUME NEW b \in Seq(Bytes)
        PROVE  /\ Slice(b, MaxBodyBytes) \in Seq(Bytes)
               /\ Len(Slice(b, MaxBodyBytes)) <= MaxBodyBytes
    <3>1. MaxBodyBytes \in Nat /\ Len(b) \in Nat
      BY CapAssumption, LenProperties
    <3> QED
      BY <3>1, SliceProperties
  <2>2. /\ request_body \in Seq(Bytes) /\ Len(request_body) <= MaxBodyBytes
        /\ response_body \in Seq(Bytes) /\ Len(response_body) <= MaxBodyBytes
    BY <2>1 DEF IInv, CopiesArePrefixes
  <2>3. ASSUME stage = "logged"
        PROVE  entry \in [status_code : Statuses \cup {ServerError},
                          request_body : BodyEntry, response_body : BodyEntry]
    <3>1. response_is_json \in BOOLEAN
      BY DEF response_is_json
    <3>2. /\ Decoded(request_body, json_type) \in BodyEntry
          /\ Decoded(response_body, response_is_json) \in BodyEntry
      BY <2>2, <3>1, DecodedProperties DEF IInv
    <3> QED
      BY <2>3, <3>2 DEF IInv, EntryInv
  <2>4. got_status \in Statuses \cup {NotStarted, ServerError}
    BY DEF IInv, ClientInv
  <2> QED
    BY <2>2, <2>3, <2>4 DEF IInv, EntryInv, ClientInv, TypeOK
<1> QED
  BY <1>1, Invariance, PTL
=============================================================================
