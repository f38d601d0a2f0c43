------------------------- MODULE VoiceRecorder_proofs -------------------------
(***************************************************************************)
(* Proofs about VoiceRecorder and the stream of OggStream, for pages and   *)
(* packets of any size, any times and any writes that fail.  Three layers: *)
(* the recorder, which has at most one packet buffered; the pages of the   *)
(* file, each with segments of one packet, in order; and the reader, which *)
(* keeps whole packets, gaps and the beginning of one packet.              *)
(***************************************************************************)
EXTENDS VoiceRecorder, NaturalsInduction, WellFoundedInduction, TLAPS

-----------------------------------------------------------------------------
(* Sequences and sets of places. *)

LEMMA ElementType ==
    ASSUME NEW S, NEW s \in Seq(S), NEW i \in 1 .. Len(s) PROVE s[i] \in S
  OBVIOUS

LEMMA EmptyLength == ASSUME NEW S, NEW s \in Seq(S) PROVE s = << >> <=> Len(s) = 0
<1>1. s = << >> => Len(s) = 0
  <2>1. Len(<< >>) = 0
    OBVIOUS
  <2> QED
    BY <2>1, Zenon
<1> QED
  BY <1>1

LEMMA SubSeqElements ==
    ASSUME NEW S, NEW s \in Seq(S), NEW m \in Nat, NEW n \in 0 .. Len(s), m <= n
    PROVE  /\ SubSeq(s, m + 1, n) \in Seq(S)
           /\ Len(SubSeq(s, m + 1, n)) = n - m
           /\ \A i \in 1 .. n - m : SubSeq(s, m + 1, n)[i] = s[m + i]
<1>1. \A i \in m + 1 .. n : s[i] \in S
  OBVIOUS
<1>2. SubSeq(s, m + 1, n) \in Seq(S) /\ Len(SubSeq(s, m + 1, n)) = n - m
  BY <1>1
<1> QED
  BY <1>2

LEMMA FrontElements ==
    ASSUME NEW S, NEW s \in Seq(S), NEW n \in 0 .. Len(s)
    PROVE  /\ SubSeq(s, 1, n) \in Seq(S) /\ Len(SubSeq(s, 1, n)) = n
           /\ \A i \in 1 .. n : SubSeq(s, 1, n)[i] = s[i]
<1>1. \A i \in 1 .. n : s[i] \in S
  OBVIOUS
<1>2. SubSeq(s, 1, n) \in Seq(S) /\ Len(SubSeq(s, 1, n)) = n
  BY <1>1
<1> QED
  BY <1>2

LEMMA ConcatElements ==
    ASSUME NEW S, NEW s \in Seq(S), NEW t \in Seq(S)
    PROVE  /\ s \o t \in Seq(S) /\ Len(s \o t) = Len(s) + Len(t)
           /\ \A i \in 1 .. Len(s) : (s \o t)[i] = s[i]
           /\ \A i \in 1 .. Len(t) : (s \o t)[Len(s) + i] = t[i]
  OBVIOUS

(* A set of natural numbers has its minimum. *)
LEMMA MinOfNaturals ==
    ASSUME NEW T \in SUBSET Nat, T # {}
    PROVE  Min(T) \in T /\ \A j \in T : Min(T) <= j
<1>1. PICK x \in T : \A y \in T : ~(<<y, x>> \in OpToRel(<, Nat))
  BY NatLessThanWellFounded, WFMin
<1>2. \A y \in T : <<y, x>> \in OpToRel(<, Nat) <=> y < x
  BY DEF OpToRel
<1>3. \A y \in T : ~(y < x)
  BY <1>1, <1>2, Zenon
<1>4. \A y \in T : x <= y
  BY <1>3
<1> QED
  BY <1>4 DEF Min

(* The first end of a packet in a sequence of segments. *)
LEMMA FirstEndPlace ==
    ASSUME NEW S, NEW segments \in Seq(S), Completes(segments)
    PROVE  /\ FirstEnd(segments) \in 1 .. Len(segments)
           /\ segments[FirstEnd(segments)].last
           /\ \A j \in 1 .. FirstEnd(segments) - 1 : ~segments[j].last
<1> DEFINE ends == {i \in DOMAIN segments : segments[i].last}
<1>1. DOMAIN segments = 1 .. Len(segments)
  OBVIOUS
<1>2. ends \in SUBSET Nat
  BY <1>1
<1>3. ends # {}
  BY DEF Completes
<1>4. FirstEnd(segments) \in ends /\ \A j \in ends : FirstEnd(segments) <= j
  BY <1>2, <1>3, MinOfNaturals DEF FirstEnd
<1>5. \A j \in DOMAIN segments : segments[j].last => FirstEnd(segments) <= j
  BY <1>4
<1>6. FirstEnd(segments) \in DOMAIN segments /\ segments[FirstEnd(segments)].last
  BY <1>4
<1> HIDE DEF ends
<1>7. ASSUME NEW j \in 1 .. FirstEnd(segments) - 1 PROVE ~segments[j].last
  <2>1. j \in DOMAIN segments /\ ~(FirstEnd(segments) <= j)
    BY <1>1, <1>6
  <2> QED
    BY <1>5, <2>1
<1> QED
  BY <1>1, <1>6, <1>7

-----------------------------------------------------------------------------
(* What is given to the stream, and what is buffered of it. *)

Segment == [packet : Nat, part : Nat, last : BOOLEAN, granulepos : Int]
Encoder ==
    [lacing : Seq(Segment), granulepos : Int, pageno : Nat, b_o_s : BOOLEAN, e_o_s : BOOLEAN]

IsPart(s, q, j) == s.packet = q /\ s.part = j /\ (s.last <=> j = given[q].segments)

(* The packets have segments and times; the recording starts with a packet  *)
(* of one segment, and nothing follows the end of the stream.               *)
GivenInv ==
    /\ given \in Seq(PacketType)
    /\ \A q \in 1 .. Len(given) :
           /\ given[q].segments > 0 /\ given[q].granulepos >= 0
           /\ given[q].e_o_s => q = Len(given)
    /\ given # <<>> => given[1].segments = 1 /\ given[1].granulepos = 0

(* The stream has the end of one packet buffered, of the last one.          *)
BufferInv ==
    /\ os.e_o_s <=> given # <<>> /\ given[Len(given)].e_o_s
    /\ os.b_o_s <=> os.pageno # 0
    /\ os.lacing # <<>> => given # <<>> /\ Len(os.lacing) <= given[Len(given)].segments
    /\ \A j \in 1 .. Len(os.lacing) :
           /\ IsPart(os.lacing[j], Len(given),
                     given[Len(given)].segments - Len(os.lacing) + j)
           /\ os.lacing[j].last => os.lacing[j].granulepos = given[Len(given)].granulepos
    /\ os.pageno = 0 => given = <<>> \/ (Len(given) = 1 /\ os.lacing # <<>>)
    /\ given = <<>> => os.pageno = 0

(* The place that the next page will begin with.                            *)
NextPacket == IF os.lacing = <<>> THEN Len(given) + 1 ELSE Len(given)
NextPart ==
    IF os.lacing = <<>> THEN 1 ELSE given[Len(given)].segments - Len(os.lacing) + 1

(* A segment of the encoder's buffer is a part of the last packet.          *)
LEMMA BufferedPart ==
    ASSUME BufferInv, NEW j \in 1 .. Len(os.lacing)
    PROVE  /\ os.lacing[j].packet = Len(given)
           /\ os.lacing[j].part = given[Len(given)].segments - Len(os.lacing) + j
           /\ os.lacing[j].last <=>
                  given[Len(given)].segments - Len(os.lacing) + j = given[Len(given)].segments
<1>1. IsPart(os.lacing[j], Len(given), given[Len(given)].segments - Len(os.lacing) + j)
  BY DEF BufferInv
<1> QED
  BY <1>1, Zenon DEF IsPart

LEMMA BufferedParts ==
    ASSUME GivenInv, BufferInv, os \in Encoder, Flushable(os)
    PROVE  /\ Len(given) \in Nat \ {0} /\ given[Len(given)] \in PacketType
           /\ Len(os.lacing) \in 1 .. given[Len(given)].segments
           /\ os.lacing \in Seq(Segment) /\ os.lacing # << >>
           /\ given[Len(given)].segments \in Nat \ {0}
<1>1. os.lacing \in Seq(Segment) /\ os.lacing # << >>
  BY DEF Encoder, Flushable
<1>2. Len(os.lacing) \in Nat /\ Len(os.lacing) # 0
  BY <1>1, EmptyLength
<1>3. given # << >> /\ Len(os.lacing) <= given[Len(given)].segments
  BY <1>1 DEF BufferInv
<1>4. Len(given) \in Nat /\ Len(given) # 0 /\ given \in Seq(PacketType)
  BY <1>3, EmptyLength DEF GivenInv
<1>5. given[Len(given)] \in PacketType
  BY <1>4, ElementType
<1>6. given[Len(given)].segments \in Nat
  BY <1>5 DEF PacketType
<1> QED
  BY <1>1, <1>2, <1>3, <1>4, <1>5, <1>6

(* A page takes some of what is buffered; the first one all of it. *)
LEMMA PageSizeBuffered ==
    ASSUME GivenInv, BufferInv, os \in Encoder, Flushable(os)
    PROVE  /\ PageSize(os) \in 1 .. Len(os.lacing)
           /\ ~os.b_o_s => PageSize(os) = Len(os.lacing) /\ Len(given) = 1
<1> DEFINE maxvals == Min({PageSegments, Len(os.lacing)})
<1>1. Len(os.lacing) \in Nat \ {0} /\ os.lacing \in Seq(Segment)
  BY BufferedParts
<1>2. maxvals \in 1 .. Len(os.lacing)
  <2>1. {PageSegments, Len(os.lacing)} \in SUBSET Nat
    BY <1>1, PageAssumption
  <2>2. maxvals \in {PageSegments, Len(os.lacing)} /\ maxvals <= Len(os.lacing)
    BY <2>1, MinOfNaturals
  <2> QED
    BY <1>1, <2>2, PageAssumption
<1>3. Completes(SubSeq(os.lacing, 1, maxvals)) => FirstEnd(os.lacing) \in 1 .. Len(os.lacing)
  <2> SUFFICES ASSUME Completes(SubSeq(os.lacing, 1, maxvals))
               PROVE  Completes(os.lacing)
    BY <1>1, FirstEndPlace
  <2> DEFINE s == SubSeq(os.lacing, 1, maxvals)
  <2> HIDE DEF maxvals
  <2>1. /\ s \in Seq(Segment) /\ Len(s) = maxvals
        /\ \A i \in 1 .. maxvals : s[i] = os.lacing[i]
    <3>1. maxvals \in 0 .. Len(os.lacing)
      BY <1>1, <1>2
    <3> QED
      BY <1>1, <3>1, FrontElements
  <2>3. PICK i \in DOMAIN s : s[i].last
    BY DEF Completes, maxvals
  <2> HIDE DEF s
  <2>4. i \in 1 .. maxvals
    BY <1>2, <2>1
  <2>5. i \in DOMAIN os.lacing /\ s[i] = os.lacing[i]
    BY <1>1, <1>2, <2>1, <2>4
  <2> QED
    BY <2>3, <2>5 DEF Completes
<1>4. PageSize(os) = IF ~os.b_o_s /\ Completes(SubSeq(os.lacing, 1, maxvals))
                     THEN FirstEnd(os.lacing) ELSE maxvals
  BY DEF PageSize
<1>5. PageSize(os) \in 1 .. Len(os.lacing)
  BY <1>2, <1>3, <1>4
<1>6. ASSUME ~os.b_o_s PROVE Len(os.lacing) = 1 /\ Len(given) = 1
  <2>1. os.pageno = 0 /\ given # << >>
    BY <1>6, EmptyLength, BufferedParts DEF BufferInv, GivenInv
  <2>2. Len(given) = 1
    BY <2>1 DEF BufferInv
  <2>3. Len(os.lacing) <= 1
    BY <2>1, <2>2, BufferedParts DEF GivenInv
  <2>4. Len(os.lacing) = 1
    <3>1. \A n \in Nat \ {0} : n <= 1 => n = 1
      OBVIOUS
    <3> QED
      BY <1>1, <2>3, <3>1
  <2> QED
    BY <2>2, <2>4
<1>7. ~os.b_o_s => PageSize(os) = Len(os.lacing)
  <2>1. \A n \in 1 .. 1 : n = 1
    OBVIOUS
  <2> QED
    BY <1>5, <1>6, <2>1
<1> QED
  BY <1>5, <1>6, <1>7

(* What is put on the page and what stays. *)
LEMMA FlushedParts ==
    ASSUME GivenInv, BufferInv, os \in Encoder, Flushable(os)
    PROVE  LET page == FlushedPage(os)
               n == PageSize(os)
           IN  /\ page.segments \in Seq(Segment) /\ Len(page.segments) = n
               /\ \A j \in 1 .. n : page.segments[j] = os.lacing[j]
               /\ Completes(page.segments) <=> n = Len(os.lacing)
               /\ n = Len(os.lacing) => page.granulepos = given[Len(given)].granulepos
<1> DEFINE page == FlushedPage(os)
           n == PageSize(os)
           segments == page.segments
           size == given[Len(given)].segments
<1>1. /\ Len(os.lacing) \in 1 .. size /\ os.lacing \in Seq(Segment)
      /\ size \in Nat \ {0} /\ n \in 1 .. Len(os.lacing)
  BY BufferedParts, PageSizeBuffered
<1>2. /\ segments \in Seq(Segment) /\ Len(segments) = n
      /\ \A j \in 1 .. n : segments[j] = os.lacing[j]
  <2>1. segments = SubSeq(os.lacing, 1, n)
    BY DEF FlushedPage
  <2>2. n \in 0 .. Len(os.lacing)
    BY <1>1
  <2> HIDE DEF segments, n
  <2> QED
    BY <1>1, <2>1, <2>2, FrontElements
<1>3. DOMAIN segments = 1 .. n
  BY <1>2
<1>4. \A j \in 1 .. n : segments[j].last <=> size - Len(os.lacing) + j = size
  <2> SUFFICES ASSUME NEW j \in 1 .. n
               PROVE  segments[j].last <=> size - Len(os.lacing) + j = size
    OBVIOUS
  <2>1. segments[j] = os.lacing[j] /\ j \in 1 .. Len(os.lacing)
    BY <1>1, <1>2
  <2> QED
    BY <2>1, BufferedPart, Zenon
<1>5. page.granulepos = GranuleOfPage(os, segments)
  BY DEF FlushedPage
<1> HIDE DEF segments, n, page
<1>6. \A j \in 1 .. n : segments[j].last <=> j = Len(os.lacing)
  BY <1>1, <1>4
<1>7. Completes(segments) <=> n = Len(os.lacing)
  BY <1>1, <1>3, <1>6 DEF Completes
<1>8. ASSUME n = Len(os.lacing)
      PROVE  page.granulepos = given[Len(given)].granulepos
  <2>1. CASE ~os.b_o_s
    <3>1. Len(given) = 1 /\ given # << >>
      BY <2>1, BufferedParts, PageSizeBuffered, EmptyLength DEF GivenInv
    <3> QED
      BY <1>5, <2>1, <3>1 DEF GranuleOfPage, GivenInv
  <2>2. CASE os.b_o_s
    <3>1. LastEnd(segments) = n
      <4>1. {i \in DOMAIN segments : segments[i].last} = {n}
        BY <1>1, <1>3, <1>6, <1>8
      <4>2. Max({n}) = n
        BY <1>1 DEF Max
      <4> QED
        BY <4>1, <4>2 DEF LastEnd
    <3>2. segments[n].last /\ segments[n] = os.lacing[n]
      BY <1>1, <1>2, <1>6, <1>8
    <3>3. page.granulepos = os.lacing[n].granulepos
      BY <1>5, <1>7, <1>8, <2>2, <3>1, <3>2 DEF GranuleOfPage
    <3> QED
      BY <1>1, <3>2, <3>3 DEF BufferInv
  <2> QED
    BY <2>1, <2>2
<1> QED
  BY <1>2, <1>7, <1>8 DEF segments, n, page

(* The buffer after a page has left it. *)
LEMMA BufferFlushed ==
    ASSUME GivenInv, BufferInv, os \in Encoder, Flushable(os),
           os' = AfterFlush(os), UNCHANGED given
    PROVE  /\ BufferInv' /\ os' \in Encoder
           /\ os'.pageno = os.pageno + 1
           /\ Len(os'.lacing) = Len(os.lacing) - PageSize(os)
           /\ os'.lacing = << >> <=> PageSize(os) = Len(os.lacing)
<1> DEFINE n == PageSize(os)
           rest == SubSeq(os.lacing, n + 1, Len(os.lacing))
           size == given[Len(given)].segments
<1>1. /\ Len(os.lacing) \in 1 .. size /\ os.lacing \in Seq(Segment) /\ size \in Nat \ {0}
      /\ Len(given) \in Nat \ {0} /\ n \in 1 .. Len(os.lacing)
      /\ ~os.b_o_s => n = Len(os.lacing) /\ Len(given) = 1
  BY BufferedParts, PageSizeBuffered
<1>2. /\ os'.lacing = rest /\ os'.pageno = os.pageno + 1 /\ os'.b_o_s = TRUE
      /\ os'.e_o_s = os.e_o_s /\ os'.granulepos = os.granulepos
      /\ os' = [lacing |-> os'.lacing, granulepos |-> os'.granulepos, pageno |-> os'.pageno,
                b_o_s |-> os'.b_o_s, e_o_s |-> os'.e_o_s]
  BY DEF AfterFlush, Encoder
<1> HIDE DEF n
<1>3. /\ rest \in Seq(Segment) /\ Len(rest) = Len(os.lacing) - n
      /\ \A i \in 1 .. Len(os.lacing) - n : rest[i] = os.lacing[n + i]
  <2>1. n \in Nat /\ Len(os.lacing) \in 0 .. Len(os.lacing) /\ n <= Len(os.lacing)
    BY <1>1
  <2> QED
    BY <1>1, <2>1, SubSeqElements, SMTT(30)
<1>4. os.pageno \in Nat /\ os.b_o_s \in BOOLEAN /\ os.e_o_s \in BOOLEAN /\ os.granulepos \in Int
  BY DEF Encoder
<1> HIDE DEF rest
<1>5. os' \in Encoder
  <2>1. os.pageno + 1 \in Nat
    BY <1>4
  <2> QED
    BY <1>2, <1>3, <1>4, <2>1 DEF Encoder
<1>6. os'.lacing = << >> <=> n = Len(os.lacing)
  <2>1. Len(rest) = 0 <=> n = Len(os.lacing)
    BY <1>1, <1>3
  <2> QED
    BY <1>2, <1>3, <2>1, EmptyLength
<1>7. \A j \in 1 .. Len(os'.lacing) :
          /\ IsPart(os'.lacing[j], Len(given), size - Len(os'.lacing) + j)
          /\ os'.lacing[j].last => os'.lacing[j].granulepos = given[Len(given)].granulepos
  <2> SUFFICES ASSUME NEW j \in 1 .. Len(os'.lacing)
               PROVE  /\ IsPart(os'.lacing[j], Len(given), size - Len(os'.lacing) + j)
                      /\ os'.lacing[j].last =>
                             os'.lacing[j].granulepos = given[Len(given)].granulepos
    OBVIOUS
  <2>1. /\ n + j \in 1 .. Len(os.lacing) /\ os'.lacing[j] = os.lacing[n + j]
        /\ size - Len(os'.lacing) + j = size - Len(os.lacing) + (n + j)
    BY <1>1, <1>2, <1>3, SMTT(30)
  <2>2. /\ IsPart(os.lacing[n + j], Len(given), size - Len(os.lacing) + (n + j))
        /\ os.lacing[n + j].last =>
               os.lacing[n + j].granulepos = given[Len(given)].granulepos
    BY <2>1 DEF BufferInv
  <2> QED
    BY <2>1, <2>2
<1>8. os'.lacing # << >> => given # << >> /\ Len(os'.lacing) <= size
  <2>1. given # << >>
    BY <1>1, EmptyLength DEF GivenInv
  <2>2. Len(os.lacing) - n <= size
    BY <1>1
  <2> QED
    BY <1>2, <1>3, <2>1, <2>2
<1>9. os'.pageno # 0 /\ os'.b_o_s /\ given # << >>
  <2>1. os.pageno + 1 # 0
    BY <1>4
  <2>2. given # << >>
    BY <1>1, EmptyLength DEF GivenInv
  <2> QED
    BY <1>2, <2>1, <2>2
<1>10. BufferInv'
  <2>1. os'.e_o_s <=> given' # << >> /\ given'[Len(given')].e_o_s
    BY <1>2 DEF BufferInv
  <2>2. \A j \in 1 .. Len(os'.lacing) :
            /\ IsPart(os.lacing[j], Len(given), given[Len(given)].segments - Len(os.lacing) + j)'
            /\ os'.lacing[j].last => os'.lacing[j].granulepos = given'[Len(given')].granulepos
    BY <1>7 DEF IsPart
  <2> QED
    BY <1>8, <1>9, <2>1, <2>2 DEF BufferInv
<1> QED
  BY <1>2, <1>3, <1>5, <1>6, <1>10 DEF n, rest

(* The buffer after a packet has gone into the empty one. *)
LEMMA PacketGiven ==
    ASSUME GivenInv, BufferInv, os \in Encoder, os.lacing = << >>,
           NEW packet \in PacketType, packet.segments > 0, packet.granulepos >= 0,
           packet.packetno = Len(given) + 1,
           given = << >> => packet.segments = 1 /\ packet.granulepos = 0,
           given # << >> => ~given[Len(given)].e_o_s,
           GivePacket(packet)
    PROVE  /\ GivenInv' /\ BufferInv' /\ os' \in Encoder
           /\ os'.lacing # << >> /\ Len(os'.lacing) = packet.segments
           /\ Len(given') = Len(given) + 1 /\ given'[Len(given')] = packet
           /\ \A q \in 1 .. Len(given) : given'[q] = given[q]
           /\ os'.pageno = os.pageno
<1> DEFINE lacing == Lacing(os, packet)
           size == packet.segments
<1>1. /\ os' = PacketIn(os, packet) /\ given' = Append(given, packet)
      /\ given \in Seq(PacketType) /\ Len(given) \in Nat
  BY DEF GivePacket, GivenInv
<1>2. /\ size \in Nat \ {0} /\ packet.packetno \in Nat /\ packet.granulepos \in Int
      /\ packet.e_o_s \in BOOLEAN
  BY DEF PacketType
<1>3. /\ os.lacing \in Seq(Segment) /\ os.granulepos \in Int /\ os.pageno \in Nat
      /\ os.b_o_s \in BOOLEAN /\ os.e_o_s \in BOOLEAN
  BY DEF Encoder
<1>4. /\ given' \in Seq(PacketType) /\ Len(given') = Len(given) + 1
      /\ given'[Len(given) + 1] = packet
      /\ \A q \in 1 .. Len(given) : given'[q] = given[q]
  BY <1>1
<1>5. \A q \in 1 .. Len(given') : q \in 1 .. Len(given) \/ q = Len(given) + 1
  BY <1>1, <1>4
<1>6. given = << >> <=> Len(given) = 0
  BY <1>1, EmptyLength
<1>7. given' # << >> /\ Len(given) + 1 \in 1 .. Len(given')
  <2>1. Len(given') # 0 /\ Len(given) + 1 \in 1 .. Len(given')
    BY <1>1, <1>4
  <2> QED
    BY <1>4, <2>1, EmptyLength
<1>8. GivenInv'
  <2>1. \A q \in 1 .. Len(given') :
            /\ given'[q].segments > 0 /\ given'[q].granulepos >= 0
            /\ given'[q].e_o_s => q = Len(given')
    <3>1. \A q \in 1 .. Len(given) :
              /\ given[q].segments > 0 /\ given[q].granulepos >= 0 /\ ~given[q].e_o_s
      <4>1. \A q \in 1 .. Len(given) : given[q].e_o_s => given # << >> /\ q = Len(given)
        BY <1>1, <1>6 DEF GivenInv
      <4> QED
        BY <4>1 DEF GivenInv
    <3> QED
      BY <1>4, <1>5, <3>1
  <2>2. given'[1].segments = 1 /\ given'[1].granulepos = 0
    <3>1. CASE given = << >>
      BY <1>4, <1>6, <3>1
    <3>2. CASE given # << >>
      <4>1. 1 \in 1 .. Len(given)
        BY <1>1, <1>6, <3>2
      <4> QED
        BY <1>4, <3>2, <4>1 DEF GivenInv
    <3> QED
      BY <3>1, <3>2
  <2> QED
    BY <1>4, <1>7, <2>1, <2>2 DEF GivenInv
<1>9. /\ lacing \in Seq(Segment) /\ Len(lacing) = size
      /\ \A j \in 1 .. size : /\ lacing[j].packet = Len(given) + 1 /\ lacing[j].part = j
                              /\ lacing[j].last <=> j = size
                              /\ lacing[j].last => lacing[j].granulepos = packet.granulepos
  <2> DEFINE element(i) ==
          [packet |-> packet.packetno, part |-> i, last |-> i = size,
           granulepos |-> IF i = size THEN packet.granulepos ELSE os.granulepos]
  <2>1. lacing = [i \in 1 .. size |-> element(i)]
    BY DEF Lacing
  <2>2. \A i \in 1 .. size : element(i) \in Segment
    BY <1>2, <1>3 DEF Segment
  <2>3. \A i \in 1 .. size :
            /\ element(i).packet = Len(given) + 1 /\ element(i).part = i
            /\ element(i).last <=> i = size
            /\ element(i).last => element(i).granulepos = packet.granulepos
    OBVIOUS
  <2> HIDE DEF lacing, element
  <2>4. lacing \in [1 .. size -> Segment] /\ \A i \in 1 .. size : lacing[i] = element(i)
    BY <2>1, <2>2
  <2>5. lacing \in Seq(Segment) /\ Len(lacing) = size
    BY <1>2, <2>4
  <2> QED
    BY <2>3, <2>4, <2>5
<1>10. /\ os'.lacing = os.lacing \o lacing /\ os'.granulepos = packet.granulepos
       /\ os'.e_o_s = (os.e_o_s \/ packet.e_o_s) /\ os'.b_o_s = os.b_o_s
       /\ os'.pageno = os.pageno
       /\ os' = [lacing |-> os'.lacing, granulepos |-> os'.granulepos, pageno |-> os'.pageno,
                 b_o_s |-> os'.b_o_s, e_o_s |-> os'.e_o_s]
  BY <1>1 DEF PacketIn, Encoder
<1> HIDE DEF lacing
<1>11. /\ os'.lacing \in Seq(Segment) /\ Len(os'.lacing) = size
       /\ \A j \in 1 .. size : os'.lacing[j] = lacing[j]
  <2>1. Len(os.lacing) = 0
    BY <1>3, EmptyLength
  <2> QED
    BY <1>3, <1>9, <1>10, <2>1, ConcatElements
<1>12. os'.lacing # << >>
  <2>1. Len(os'.lacing) # 0
    BY <1>2, <1>11
  <2> QED
    BY <1>11, <2>1, EmptyLength
<1>13. os' \in Encoder
  BY <1>2, <1>3, <1>10, <1>11 DEF Encoder
<1>14. os'.e_o_s <=> packet.e_o_s
  <2>1. ~os.e_o_s
    BY DEF BufferInv
  <2> QED
    BY <1>2, <1>3, <1>10, <2>1
<1>15. given'[Len(given')] = packet
  BY <1>4
<1>16. BufferInv'
  <2>1. os'.e_o_s <=> given' # << >> /\ given'[Len(given')].e_o_s
    BY <1>7, <1>14, <1>15
  <2>2. os'.b_o_s <=> os'.pageno # 0
    BY <1>10 DEF BufferInv
  <2>3. \A j \in 1 .. Len(os'.lacing) :
            /\ IsPart(os.lacing[j], Len(given), given[Len(given)].segments - Len(os.lacing) + j)'
            /\ os'.lacing[j].last => os'.lacing[j].granulepos = given'[Len(given')].granulepos
    <3> SUFFICES ASSUME NEW j \in 1 .. Len(os'.lacing)
                 PROVE  /\ IsPart(os.lacing[j], Len(given),
                                  given[Len(given)].segments - Len(os.lacing) + j)'
                        /\ os'.lacing[j].last =>
                               os'.lacing[j].granulepos = given'[Len(given')].granulepos
      OBVIOUS
    <3>1. j \in 1 .. size /\ os'.lacing[j] = lacing[j] /\ size - Len(os'.lacing) + j = j
      BY <1>2, <1>11
    <3>2. /\ lacing[j].packet = Len(given) + 1 /\ lacing[j].part = j
          /\ lacing[j].last <=> j = size
          /\ lacing[j].last => lacing[j].granulepos = packet.granulepos
      BY <1>9, <3>1
    <3>3. Len(given') = Len(given) + 1 /\ given'[Len(given')].segments = size
      BY <1>4, <1>15
    <3>4. IsPart(os.lacing[j], Len(given), given[Len(given)].segments - Len(os.lacing) + j)'
      BY <3>1, <3>2, <3>3, Zenon DEF IsPart
    <3> QED
      BY <1>15, <3>1, <3>2, <3>4, Zenon
  <2>4. os'.pageno = 0 => Len(given') = 1
    BY <1>4, <1>6, <1>10 DEF BufferInv
  <2>5. Len(os'.lacing) <= given'[Len(given')].segments
    BY <1>2, <1>11, <1>15
  <2> QED
    BY <1>7, <1>12, <2>1, <2>2, <2>3, <2>4, <2>5 DEF BufferInv
<1> QED
  BY <1>4, <1>8, <1>10, <1>11, <1>12, <1>13, <1>15, <1>16

-----------------------------------------------------------------------------
(* The recorder. *)

TypesInv ==
    /\ pc \in {"new", "header", "comments", "idle", "before", "after", "closed"}
    /\ os \in Encoder
    /\ op \in PacketType
    /\ {samples, enc_granulepos, last_granulepos, size_segments} \subseteq Nat
    /\ last_segments \in Int
    /\ result \in 0 .. 1
    /\ frames \in 0 .. MaxFrames
    /\ failed \in BOOLEAN

(* Between two frames nothing is buffered, unless a page could not be       *)
(* written; and while something is, the last page that completed a packet   *)
(* is earlier than what has been encoded.  So the buffer is flushed before  *)
(* the next packet goes in.                                                 *)
TimesInv ==
    /\ pc = "new" <=> given = <<>>
    /\ pc \in {"new", "header", "comments"} =>
           /\ enc_granulepos = 0 /\ last_granulepos = 0 /\ ~op.e_o_s
           /\ given # <<>> => given[Len(given)].granulepos = 0 /\ ~given[Len(given)].e_o_s
           /\ pc = "header" => Len(given) = 1
    /\ (pc = "idle" /\ ~op.e_o_s) \/ pc = "before" =>
           /\ given[Len(given)].granulepos <= enc_granulepos
           /\ ~given[Len(given)].e_o_s
           /\ last_granulepos <= enc_granulepos
           /\ os.lacing # <<>> => last_granulepos < enc_granulepos
    /\ pc = "before" =>
           /\ op.segments > 0
           /\ ~op.e_o_s => /\ given[Len(given)].granulepos < enc_granulepos
                           /\ last_granulepos < enc_granulepos
    /\ pc = "after" /\ ~op.e_o_s =>
           /\ given[Len(given)].granulepos = enc_granulepos
           /\ ~given[Len(given)].e_o_s
           /\ last_granulepos <= enc_granulepos
           /\ os.lacing # <<>> => last_granulepos < enc_granulepos
    /\ pc = "idle" /\ ~failed => os.lacing = <<>>

(* Only the last frame may be empty, and only then is the count off. *)
CountInv ==
    /\ pc \in {"new", "header", "comments"} => last_segments = 0
    /\ pc = "before" => last_segments = Len(os.lacing)
    /\ pc \in {"idle", "after"} /\ (~op.e_o_s \/ size_segments = op.segments) =>
           last_segments = Len(os.lacing)
    /\ pc \in {"before", "after"} => op.e_o_s \/ size_segments = op.segments

RecorderInv ==
    /\ TypesInv /\ GivenInv
    /\ pc # "closed" => BufferInv /\ TimesInv /\ CountInv

LEMMA RecorderInit == Init => RecorderInv
<1> SUFFICES ASSUME Init PROVE RecorderInv
  OBVIOUS
<1>1. os = [lacing |-> << >>, granulepos |-> 0, pageno |-> 0, b_o_s |-> FALSE, e_o_s |-> FALSE]
  BY DEF Init, NewEncoder
<1>2. << >> \in Seq(Segment) /\ << >> \in Seq(PacketType) /\ Len(<< >>) = 0
  OBVIOUS
<1>3. os \in Encoder
  BY <1>1, <1>2 DEF Encoder
<1>4. op = [packetno |-> 0, segments |-> 0, granulepos |-> 0, e_o_s |-> FALSE]
  BY DEF Init, NoPacket
<1>5. op \in PacketType /\ ~op.e_o_s
  BY <1>4 DEF PacketType
<1>6. given = << >> /\ pc = "new" /\ os.lacing = << >>
  BY <1>1 DEF Init
<1>7. TypesInv
  <2>1. /\ samples = 0 /\ enc_granulepos = 0 /\ last_granulepos = 0 /\ size_segments = 0
        /\ last_segments = 0 /\ result = 0 /\ frames = 0 /\ failed = FALSE
    BY DEF Init
  <2>2. 0 \in 0 .. MaxFrames /\ 0 \in Nat /\ 0 \in Int /\ 0 \in 0 .. 1
    BY RecorderAssumption
  <2> QED
    BY <1>3, <1>5, <1>6, <2>1, <2>2 DEF TypesInv
<1>8. GivenInv
  BY <1>2, <1>6 DEF GivenInv
<1>9. BufferInv
  BY <1>1, <1>2, <1>6 DEF BufferInv
<1>10. TimesInv /\ CountInv
  BY <1>5, <1>6 DEF Init, TimesInv, CountInv
<1> QED
  BY <1>7, <1>8, <1>9, <1>10 DEF RecorderInv

(* What a page that leaves the stream does to the recorder's own counts. *)
LEMMA FlushPageCounts ==
    ASSUME RecorderInv, pc # "closed", Flushable(os), FlushPage
    PROVE  /\ BufferInv' /\ os' \in Encoder /\ UNCHANGED <<given, op, samples, enc_granulepos,
                                                         size_segments, frames>>
           /\ Len(os'.lacing) \in Nat /\ Len(os'.lacing) < Len(os.lacing)
           /\ os.lacing # << >> /\ given[Len(given)].granulepos \in Nat
           /\ last_granulepos' = IF os'.lacing = << >> THEN given[Len(given)].granulepos
                                 ELSE last_granulepos
           /\ last_segments' = last_segments - Len(os.lacing) + Len(os'.lacing)
           /\ \/ UNCHANGED <<pc, result, failed>>
              \/ pc' = "idle" /\ failed' = TRUE /\ result' = 0
<1> DEFINE page == FlushedPage(os)
           n == PageSize(os)
<1>0. GivenInv /\ BufferInv /\ os \in Encoder /\ last_segments \in Int
  BY DEF RecorderInv, TypesInv
<1>1. /\ last_granulepos' = IF Completes(page.segments) THEN page.granulepos ELSE last_granulepos
      /\ last_segments' = last_segments - Len(page.segments)
      /\ WritePage("idle")
      /\ UNCHANGED <<given, op, samples, enc_granulepos, size_segments, frames>>
  BY DEF FlushPage, Uncounted
<1>2. /\ os' = AfterFlush(os)
      /\ \/ UNCHANGED <<pc, result, failed>>
         \/ pc' = "idle" /\ failed' = TRUE /\ result' = 0
  BY <1>1 DEF WritePage
<1>3. /\ Len(page.segments) = n
      /\ Completes(page.segments) <=> n = Len(os.lacing)
      /\ n = Len(os.lacing) => page.granulepos = given[Len(given)].granulepos
  BY <1>0, FlushedParts
<1>4. /\ BufferInv' /\ os' \in Encoder /\ Len(os'.lacing) = Len(os.lacing) - n
      /\ os'.lacing = << >> <=> n = Len(os.lacing)
  BY <1>0, <1>1, <1>2, BufferFlushed
<1>5. n \in 1 .. Len(os.lacing) /\ Len(os.lacing) \in Nat /\ os.lacing # << >>
  BY <1>0, BufferedParts, PageSizeBuffered
<1>6. given[Len(given)].granulepos \in Nat
  <2>1. Len(given) \in 1 .. Len(given) /\ given[Len(given)] \in PacketType
    BY <1>0, BufferedParts
  <2> QED
    BY <1>0, <2>1 DEF GivenInv, PacketType
<1> HIDE DEF page, n
<1>7. /\ Len(os'.lacing) \in Nat /\ Len(os'.lacing) < Len(os.lacing)
      /\ last_segments' = last_segments - Len(os.lacing) + Len(os'.lacing)
  BY <1>0, <1>1, <1>3, <1>4, <1>5
<1>8. last_granulepos' = IF os'.lacing = << >> THEN given[Len(given)].granulepos
                         ELSE last_granulepos
  BY <1>1, <1>3, <1>4
<1> QED
  BY <1>1, <1>2, <1>4, <1>5, <1>6, <1>7, <1>8

LEMMA HeaderSteps ==
    ASSUME RecorderInv, InitRecorder \/ WriteHeader \/ GiveComments \/ Started
    PROVE  RecorderInv'
<1>0. /\ TypesInv /\ GivenInv /\ os \in Encoder /\ op \in PacketType
      /\ given \in Seq(PacketType) /\ Len(given) \in Nat
  BY DEF RecorderInv, TypesInv, GivenInv
<1>1. CASE InitRecorder
  <2> DEFINE packet == [packetno |-> 1, segments |-> 1, granulepos |-> 0, e_o_s |-> FALSE]
  <2>1. /\ pc = "new" /\ pc' = "header" /\ GivePacket(packet) /\ op' = packet
        /\ UNCHANGED <<countVars, result, frames, failed>>
    BY <1>1 DEF InitRecorder, GivePacket
  <2>2. BufferInv /\ TimesInv /\ CountInv /\ given = << >> /\ Len(given) = 0
    BY <1>0, <2>1, EmptyLength DEF RecorderInv, TimesInv
  <2>3. os.lacing = << >>
    BY <2>2 DEF BufferInv
  <2>4. /\ packet \in PacketType /\ packet.segments = 1 /\ packet.granulepos = 0
        /\ packet.packetno = Len(given) + 1 /\ ~packet.e_o_s
    BY <2>2 DEF PacketType
  <2> HIDE DEF packet
  <2>5. /\ GivenInv' /\ BufferInv' /\ os' \in Encoder
        /\ Len(given') = 1 /\ given'[Len(given')] = packet
    BY <1>0, <2>1, <2>2, <2>3, <2>4, PacketGiven
  <2>6. given' # << >>
    <3>1. given' \in Seq(PacketType) /\ Len(given') # 0
      BY <2>5 DEF GivenInv
    <3> QED
      BY <3>1, EmptyLength
  <2>7. TypesInv'
    BY <1>0, <2>1, <2>4, <2>5 DEF TypesInv, countVars
  <2>8. TimesInv' /\ CountInv'
    <3>1. enc_granulepos = 0 /\ last_granulepos = 0 /\ last_segments = 0
      BY <2>1, <2>2 DEF TimesInv, CountInv
    <3> QED
      BY <2>1, <2>4, <2>5, <2>6, <3>1 DEF TimesInv, CountInv, countVars
  <2> QED
    BY <2>5, <2>7, <2>8 DEF RecorderInv
<1>2. CASE WriteHeader
  <2>1. /\ pc \in {"header", "comments"} /\ Flushable(os) /\ WritePage("closed")
        /\ UNCHANGED <<op, countVars, frames, given>>
    BY <1>2 DEF WriteHeader
  <2>2. /\ os' = AfterFlush(os)
        /\ \/ UNCHANGED <<pc, result, failed>>
           \/ pc' = "closed" /\ failed' = TRUE /\ result' = 0
    BY <2>1 DEF WritePage
  <2>3. BufferInv /\ TimesInv /\ CountInv
    BY <2>1 DEF RecorderInv
  <2>4. BufferInv' /\ os' \in Encoder
    BY <1>0, <2>1, <2>2, <2>3, BufferFlushed
  <2>5. TypesInv' /\ GivenInv'
    <3>1. pc' \in {"header", "comments", "closed"} /\ result' \in 0 .. 1 /\ failed' \in BOOLEAN
      <4>1. result \in 0 .. 1 /\ 0 \in 0 .. 1 /\ failed \in BOOLEAN
        BY <1>0 DEF TypesInv
      <4>2. pc' \in {"header", "comments", "closed"}
        BY <2>1, <2>2
      <4>3. result' \in 0 .. 1
        BY <2>2, <4>1
      <4>4. failed' \in BOOLEAN
        BY <2>2, <4>1, Zenon
      <4> QED
        BY <4>2, <4>3, <4>4
    <3>2. TypesInv'
      BY <1>0, <2>1, <2>4, <3>1 DEF TypesInv, countVars
    <3>3. GivenInv'
      BY <1>0, <2>1 DEF GivenInv
    <3> QED
      BY <3>2, <3>3
  <2>6. pc' # "closed" => TimesInv' /\ CountInv'
    BY <2>1, <2>2, <2>3 DEF TimesInv, CountInv, countVars
  <2> QED
    BY <2>4, <2>5, <2>6 DEF RecorderInv
<1>3. CASE GiveComments
  <2> DEFINE packet == [packetno |-> 2, segments |-> HeaderSegments, granulepos |-> 0,
                        e_o_s |-> FALSE]
  <2>1. /\ pc = "header" /\ ~Flushable(os) /\ pc' = "comments"
        /\ GivePacket(packet) /\ op' = packet
        /\ UNCHANGED <<countVars, result, frames, failed>>
    BY <1>3 DEF GiveComments, GivePacket
  <2>2. BufferInv /\ TimesInv /\ CountInv /\ os.lacing = << >>
    BY <2>1 DEF RecorderInv, Flushable
  <2>3. given # << >> /\ ~given[Len(given)].e_o_s
    BY <2>1, <2>2 DEF TimesInv
  <2>4. /\ packet \in PacketType /\ packet.segments > 0 /\ packet.granulepos = 0 /\ ~packet.e_o_s
        /\ packet.granulepos >= 0
    <3>1. HeaderSegments \in Nat /\ HeaderSegments > 0
      BY RecorderAssumption
    <3> QED
      BY <3>1 DEF PacketType
  <2>5. packet.packetno = 2
    OBVIOUS
  <2> HIDE DEF packet
  <2>6. Len(given) = 1 /\ packet.packetno = Len(given) + 1
    <3>1. Len(given) = 1
      BY <2>1, <2>2 DEF TimesInv
    <3> QED
      BY <2>5, <3>1
  <2>7. /\ GivenInv' /\ BufferInv' /\ os' \in Encoder
        /\ Len(given') = Len(given) + 1 /\ given'[Len(given')] = packet
    BY <1>0, <2>1, <2>2, <2>3, <2>4, <2>6, PacketGiven
  <2>8. given' # << >>
    BY <2>6, <2>7, EmptyLength DEF GivenInv
  <2>9. TypesInv'
    BY <1>0, <2>1, <2>4, <2>7 DEF TypesInv, countVars
  <2>10. TimesInv' /\ CountInv'
    BY <2>1, <2>2, <2>4, <2>7, <2>8 DEF TimesInv, CountInv, countVars
  <2> QED
    BY <2>7, <2>9, <2>10 DEF RecorderInv
<1>4. CASE Started
  <2>1. /\ pc = "comments" /\ ~Flushable(os) /\ pc' = "idle" /\ result' = 1
        /\ UNCHANGED <<os, op, countVars, given, frames, failed>>
    BY <1>4 DEF Started, historyVars
  <2>2. BufferInv /\ TimesInv /\ CountInv /\ os.lacing = << >> /\ Len(os.lacing) = 0
    <3>1. os.lacing = << >> /\ os.lacing \in Seq(Segment)
      BY <1>0, <2>1 DEF Flushable, Encoder
    <3> QED
      BY <2>1, <3>1, EmptyLength DEF RecorderInv
  <2>3. given # << >>
    BY <2>1, <2>2 DEF TimesInv
  <2>4. TypesInv'
    BY <1>0, <2>1 DEF TypesInv, countVars
  <2>5. GivenInv' /\ BufferInv'
    BY <1>0, <2>1, <2>2 DEF GivenInv, BufferInv, IsPart
  <2>6. TimesInv' /\ CountInv'
    BY <2>1, <2>2, <2>3 DEF TimesInv, CountInv, countVars
  <2> QED
    BY <2>4, <2>5, <2>6 DEF RecorderInv
<1> QED
  BY <1>1, <1>2, <1>3, <1>4

LEMMA Granules ==
    /\ FrameGranule \in Nat \ {0}
    /\ \A n \in Nat : n * Scale + PreSkip \in Nat
<1>1. \A a, b \in Nat : a * b \in Nat
  OBVIOUS
<1>2. \A a, b \in Nat \ {0} : a * b # 0
  OBVIOUS
<1>3. FrameGranule \in Nat \ {0}
  BY <1>1, <1>2, RecorderAssumption DEF FrameGranule
<1>4. \A n \in Nat : n * Scale + PreSkip \in Nat
  <2> SUFFICES ASSUME NEW n \in Nat PROVE n * Scale + PreSkip \in Nat
    OBVIOUS
  <2>1. n * Scale \in Nat /\ PreSkip \in Nat
    BY <1>1, RecorderAssumption
  <2> QED
    BY <2>1
<1> QED
  BY <1>3, <1>4

LEMMA BufferUnchanged == BufferInv /\ GivenInv /\ UNCHANGED <<os, given>> => BufferInv' /\ GivenInv'
  BY DEF BufferInv, GivenInv, IsPart

LEMMA BeginSteps ==
    ASSUME RecorderInv,
           \/ \E n \in 1 .. FrameSize, size \in FrameSegments : WriteFrame(n, size)
           \/ \E n \in 1 .. FrameSize : EncodingFails(n)
           \/ WriteEmptyFrame
    PROVE  RecorderInv'
<1>0. TypesInv /\ GivenInv
  BY DEF RecorderInv
<1>a. /\ pc = "idle" /\ ~op.e_o_s /\ UNCHANGED <<os, given>> /\ frames' \in 0 .. MaxFrames
  <2>1. PICK n : BeginFrame(n) /\ UNCHANGED <<os, given>>
    BY DEF WriteFrame, EncodingFails, WriteEmptyFrame
  <2>2. frames \in 0 .. MaxFrames /\ MaxFrames \in Nat
    BY <1>0, RecorderAssumption DEF TypesInv
  <2> QED
    BY <2>1, <2>2 DEF BeginFrame
<1>b. BufferInv /\ TimesInv /\ CountInv /\ BufferInv' /\ GivenInv'
  BY <1>0, <1>a, BufferUnchanged DEF RecorderInv
<1>c. /\ op = [packetno |-> op.packetno, segments |-> op.segments,
               granulepos |-> op.granulepos, e_o_s |-> op.e_o_s]
      /\ op.packetno \in Nat /\ op.segments \in Nat /\ op.granulepos \in Int
  BY <1>0 DEF TypesInv, PacketType
<1>d. /\ samples \in Nat /\ enc_granulepos \in Nat /\ last_granulepos \in Nat
      /\ size_segments \in Nat /\ last_segments \in Int /\ os \in Encoder
      /\ result \in 0 .. 1 /\ 0 \in 0 .. 1 /\ 1 \in 0 .. 1 /\ failed \in BOOLEAN
  BY <1>0 DEF TypesInv
<1>e. /\ given[Len(given)].granulepos <= enc_granulepos
      /\ ~given[Len(given)].e_o_s
      /\ last_granulepos <= enc_granulepos
      /\ os.lacing # <<>> => last_granulepos < enc_granulepos
      /\ last_segments = Len(os.lacing) /\ given # << >>
      /\ ~failed => os.lacing = << >>
  BY <1>a, <1>b DEF TimesInv, CountInv
<1>f. given[Len(given)].granulepos \in Nat
  <2>1. given \in Seq(PacketType) /\ Len(given) \in Nat /\ Len(given) # 0
    BY <1>0, <1>e, EmptyLength DEF GivenInv
  <2>2. Len(given) \in 1 .. Len(given)
    BY <2>1
  <2>3. given[Len(given)] \in PacketType /\ given[Len(given)].granulepos >= 0
    BY <1>0, <2>1, <2>2, ElementType DEF GivenInv
  <2> QED
    BY <2>3 DEF PacketType
<1>1. ASSUME NEW n \in 1 .. FrameSize, NEW size \in FrameSegments, WriteFrame(n, size)
      PROVE  RecorderInv'
  <2>1. /\ op' = [op EXCEPT !.e_o_s = n < FrameSize, !.segments = size]
        /\ enc_granulepos' = enc_granulepos + FrameGranule /\ size_segments' = size
        /\ samples' = samples + n /\ pc' = "before"
        /\ UNCHANGED <<last_granulepos, last_segments, result, failed>>
    BY <1>1 DEF WriteFrame, BeginFrame
  <2>2. size \in Nat \ {0} /\ n \in Nat
    BY RecorderAssumption
  <2>3. /\ op'.segments = size
        /\ op' = [packetno |-> op.packetno, segments |-> size, granulepos |-> op.granulepos,
                  e_o_s |-> n < FrameSize]
    <3>1. op' = [packetno |-> op.packetno, segments |-> size, granulepos |-> op.granulepos,
                 e_o_s |-> n < FrameSize]
      BY <1>c, <2>1
    <3> QED
      BY <3>1
  <2>4. op' \in PacketType
    BY <1>c, <2>2, <2>3 DEF PacketType
  <2>5. /\ enc_granulepos' \in Nat /\ enc_granulepos < enc_granulepos' /\ samples' \in Nat
        /\ last_granulepos' < enc_granulepos' /\ given[Len(given)].granulepos < enc_granulepos'
    BY <1>d, <1>e, <1>f, <2>1, <2>2, Granules, SMTT(30)
  <2>6. TypesInv'
    BY <1>a, <1>d, <2>1, <2>2, <2>4, <2>5 DEF TypesInv
  <2>7. TimesInv'
    BY <1>a, <1>d, <1>e, <1>f, <2>1, <2>2, <2>3, <2>5, SMTT(30) DEF TimesInv
  <2>8. CountInv'
    BY <1>a, <1>e, <2>1, <2>3 DEF CountInv
  <2> QED
    BY <1>b, <2>6, <2>7, <2>8 DEF RecorderInv
<1>2. ASSUME NEW n \in 1 .. FrameSize, EncodingFails(n) PROVE RecorderInv'
  <2>1. /\ op' = [op EXCEPT !.e_o_s = n < FrameSize]
        /\ result' = 0 /\ failed' = TRUE /\ samples' = samples + n
        /\ UNCHANGED <<pc, enc_granulepos, last_granulepos, size_segments, last_segments>>
    BY <1>2 DEF EncodingFails, BeginFrame
  <2>2. n \in Nat
    BY RecorderAssumption
  <2>3. /\ op' = [packetno |-> op.packetno, segments |-> op.segments, granulepos |-> op.granulepos,
                  e_o_s |-> n < FrameSize]
    BY <1>c, <2>1
  <2>4. op' \in PacketType
    BY <1>c, <2>3 DEF PacketType
  <2>5. samples' \in Nat
    BY <1>d, <2>1, <2>2
  <2>6. TypesInv'
    BY <1>a, <1>d, <2>1, <2>4, <2>5 DEF TypesInv
  <2>7. TimesInv' /\ CountInv'
    BY <1>a, <1>e, <2>1 DEF TimesInv, CountInv
  <2> QED
    BY <1>b, <2>6, <2>7 DEF RecorderInv
<1>3. CASE WriteEmptyFrame
  <2>1. /\ op' = [op EXCEPT !.e_o_s = TRUE, !.segments = 1]
        /\ samples' = samples + 0 /\ pc' = "before"
        /\ UNCHANGED <<enc_granulepos, last_granulepos, size_segments, last_segments, result,
                       failed>>
    BY <1>3 DEF WriteEmptyFrame, BeginFrame
  <2>2. /\ op' = [packetno |-> op.packetno, segments |-> 1, granulepos |-> op.granulepos,
                  e_o_s |-> TRUE]
    BY <1>c, <2>1
  <2>3. op' \in PacketType /\ op'.e_o_s /\ op'.segments = 1
    BY <1>c, <2>2 DEF PacketType
  <2>4. samples' \in Nat
    BY <1>d, <2>1
  <2>5. TypesInv'
    BY <1>a, <1>d, <2>1, <2>3, <2>4 DEF TypesInv
  <2>6. TimesInv'
    BY <1>a, <1>e, <2>1, <2>3 DEF TimesInv
  <2>7. CountInv'
    BY <1>a, <1>e, <2>1, <2>3 DEF CountInv
  <2> QED
    BY <1>b, <2>5, <2>6, <2>7 DEF RecorderInv
<1> QED
  BY <1>1, <1>2, <1>3

(* The buffer is empty when a packet goes in, and after a frame that was     *)
(* written.                                                                  *)
LEMMA EmptyBeforeGiving ==
    ASSUME RecorderInv, pc = "before", ~FlushesBefore PROVE os.lacing = << >>
<1>1. os.lacing # <<>> => last_granulepos < enc_granulepos
  BY DEF RecorderInv, TimesInv
<1>2. last_granulepos \in Nat /\ enc_granulepos \in Nat
  BY DEF RecorderInv, TypesInv
<1> QED
  BY <1>1, <1>2 DEF FlushesBefore, Flushable

LEMMA EmptyAfterWriting ==
    ASSUME RecorderInv, pc = "after", ~PageAfter PROVE os.lacing = << >>
<1>1. ~op.e_o_s => last_granulepos <= enc_granulepos
  BY DEF RecorderInv, TimesInv
<1>2. /\ last_granulepos \in Nat /\ enc_granulepos \in Nat /\ FrameGranule \in Nat \ {0}
  BY Granules DEF RecorderInv, TypesInv
<1>3. ~op.e_o_s => enc_granulepos + FrameGranule - last_granulepos > 0
  BY <1>1, <1>2
<1> QED
  BY <1>3 DEF PageAfter, Flushable

LEMMA GiveFrameStep == ASSUME RecorderInv, GiveFrame PROVE RecorderInv'
<1> DEFINE packet == [op EXCEPT !.packetno = Len(given) + 1, !.granulepos = GranuleOfPacket]
<1>0. TypesInv /\ GivenInv /\ BufferInv /\ TimesInv /\ CountInv /\ pc = "before"
  BY DEF RecorderInv, GiveFrame
<1>1. /\ pc' = "after" /\ GivePacket(packet) /\ op' = packet
      /\ last_segments' = last_segments + size_segments
      /\ UNCHANGED <<samples, enc_granulepos, last_granulepos, size_segments, result,
                     frames, failed>>
  BY DEF GiveFrame, GivePacket
<1>2. os.lacing = << >>
  BY EmptyBeforeGiving DEF GiveFrame
<1>3. /\ samples \in Nat /\ enc_granulepos \in Nat /\ last_granulepos \in Nat
      /\ size_segments \in Nat /\ last_segments \in Int /\ os \in Encoder /\ op \in PacketType
      /\ result \in 0 .. 1 /\ failed \in BOOLEAN /\ frames \in 0 .. MaxFrames
  BY <1>0 DEF TypesInv
<1>4. /\ op.packetno \in Nat /\ op.segments \in Nat /\ op.granulepos \in Int /\ op.e_o_s \in BOOLEAN
  BY <1>3 DEF PacketType
<1>5. GranuleOfPacket \in Nat /\ (~op.e_o_s => GranuleOfPacket = enc_granulepos)
  <2>1. CASE op.e_o_s
    BY <1>3, <2>1, Granules DEF GranuleOfPacket
  <2>2. CASE ~op.e_o_s
    BY <1>3, <2>2 DEF GranuleOfPacket
  <2> QED
    BY <2>1, <2>2
<1>6. Len(given) \in Nat /\ given # << >> /\ ~given[Len(given)].e_o_s
  BY <1>0 DEF GivenInv, TimesInv
<1>7. packet = [packetno |-> Len(given) + 1, segments |-> op.segments,
                granulepos |-> GranuleOfPacket, e_o_s |-> op.e_o_s]
  <2>1. op = [packetno |-> op.packetno, segments |-> op.segments, granulepos |-> op.granulepos,
              e_o_s |-> op.e_o_s]
    BY <1>3 DEF PacketType
  <2> DEFINE no == Len(given) + 1
             granule == GranuleOfPacket
  <2>2. packet = [op EXCEPT !.packetno = no, !.granulepos = granule]
    OBVIOUS
  <2> HIDE DEF packet, no, granule
  <2>3. packet = [packetno |-> no, segments |-> op.segments, granulepos |-> granule,
                  e_o_s |-> op.e_o_s]
    BY <2>1, <2>2
  <2> QED
    BY <2>3 DEF no, granule
<1>8. /\ packet.packetno = Len(given) + 1 /\ packet.segments = op.segments
      /\ packet.granulepos = GranuleOfPacket /\ packet.e_o_s = op.e_o_s
  BY <1>7
<1>9. packet \in PacketType
  <2>1. Len(given) + 1 \in Nat /\ GranuleOfPacket \in Int
    BY <1>5, <1>6
  <2> QED
    BY <1>4, <1>7, <2>1 DEF PacketType
<1> HIDE DEF packet
<1>10. packet.segments > 0 /\ packet.granulepos >= 0
  BY <1>0, <1>5, <1>8 DEF TimesInv
<1>11. /\ GivenInv' /\ BufferInv' /\ os' \in Encoder
       /\ Len(os'.lacing) = packet.segments /\ given'[Len(given')] = packet
       /\ Len(given') = Len(given) + 1
  BY <1>0, <1>1, <1>2, <1>3, <1>6, <1>8, <1>9, <1>10, PacketGiven
<1>12. given' # << >>
  <2>1. given' \in Seq(PacketType) /\ Len(given') # 0
    BY <1>6, <1>11 DEF GivenInv
  <2> QED
    BY <2>1, EmptyLength
<1>13. TypesInv'
  <2>1. last_segments' \in Int
    BY <1>1, <1>3
  <2> QED
    BY <1>1, <1>3, <1>9, <1>11, <2>1 DEF TypesInv
<1>14. TimesInv'
  <2>1. ~op'.e_o_s => /\ given'[Len(given')].granulepos = enc_granulepos'
                      /\ ~given'[Len(given')].e_o_s
                      /\ last_granulepos' < enc_granulepos'
    BY <1>0, <1>1, <1>5, <1>8, <1>11 DEF TimesInv
  <2>2. ~op'.e_o_s => last_granulepos' <= enc_granulepos'
    BY <1>1, <1>3, <2>1
  <2> QED
    BY <1>1, <1>12, <2>1, <2>2 DEF TimesInv
<1>15. CountInv'
  <2>1. last_segments = 0
    <3>1. Len(os.lacing) = 0
      BY <1>2, <1>3, EmptyLength DEF Encoder
    <3> QED
      BY <1>0, <3>1 DEF CountInv
  <2>2. op.e_o_s \/ size_segments = op.segments
    BY <1>0 DEF CountInv
  <2>3. last_segments' = size_segments /\ size_segments' = size_segments
    BY <1>1, <1>3, <2>1
  <2>4. op'.segments = op.segments /\ (op'.e_o_s <=> op.e_o_s)
    BY <1>1, <1>8
  <2> QED
    BY <1>1, <1>8, <1>11, <2>2, <2>3, <2>4 DEF CountInv
<1> QED
  BY <1>11, <1>13, <1>14, <1>15 DEF RecorderInv

LEMMA FlushStep == ASSUME RecorderInv, FlushBefore \/ FlushAfter PROVE RecorderInv'
<1>0. TypesInv /\ GivenInv /\ BufferInv /\ TimesInv /\ CountInv /\ pc \in {"before", "after"}
  BY DEF RecorderInv, FlushBefore, FlushAfter
<1>1. Flushable(os) /\ FlushPage
  BY DEF FlushBefore, FlushAfter, FlushesBefore, PageAfter, PageDue
<1>2. /\ BufferInv' /\ os' \in Encoder
      /\ UNCHANGED <<given, op, samples, enc_granulepos, size_segments, frames>>
      /\ Len(os'.lacing) \in Nat /\ Len(os'.lacing) < Len(os.lacing)
      /\ os.lacing # << >> /\ given[Len(given)].granulepos \in Nat
      /\ last_granulepos' = IF os'.lacing = << >> THEN given[Len(given)].granulepos
                            ELSE last_granulepos
      /\ last_segments' = last_segments - Len(os.lacing) + Len(os'.lacing)
      /\ \/ UNCHANGED <<pc, result, failed>>
         \/ pc' = "idle" /\ failed' = TRUE /\ result' = 0
  BY <1>0, <1>1, FlushPageCounts
<1>3. /\ samples \in Nat /\ enc_granulepos \in Nat /\ last_granulepos \in Nat
      /\ size_segments \in Nat /\ last_segments \in Int /\ os \in Encoder /\ op \in PacketType
      /\ result \in 0 .. 1 /\ failed \in BOOLEAN /\ frames \in 0 .. MaxFrames
      /\ Len(os.lacing) \in Nat
  BY <1>0 DEF TypesInv, Encoder
<1>4. last_granulepos' \in Nat /\ last_segments' \in Int
  <2>1. last_granulepos' \in Nat
    BY <1>2, <1>3
  <2>2. last_segments' \in Int
    BY <1>2, <1>3
  <2> QED
    BY <2>1, <2>2
<1>5. TypesInv'
  <2>1. pc' \in {"before", "after", "idle"}
    BY <1>0, <1>2
  <2>2. result' \in 0 .. 1
    BY <1>2, <1>3
  <2>3. failed' \in BOOLEAN
    BY <1>2, <1>3, Zenon
  <2> QED
    BY <1>2, <1>3, <1>4, <2>1, <2>2, <2>3 DEF TypesInv
<1>6. GivenInv'
  BY <1>0, <1>2 DEF GivenInv
<1>7. TimesInv'
  <2>1. pc = "before" =>
           /\ given[Len(given)].granulepos <= enc_granulepos
           /\ ~given[Len(given)].e_o_s
           /\ last_granulepos < enc_granulepos
           /\ op.segments > 0
           /\ ~op.e_o_s => given[Len(given)].granulepos < enc_granulepos
    BY <1>0, <1>2 DEF TimesInv
  <2>2. pc = "after" /\ ~op.e_o_s =>
           /\ given[Len(given)].granulepos = enc_granulepos
           /\ ~given[Len(given)].e_o_s
           /\ last_granulepos < enc_granulepos
    BY <1>0, <1>2 DEF TimesInv
  <2>3. (pc = "before" \/ ~op.e_o_s) =>
           /\ last_granulepos' <= enc_granulepos'
           /\ os'.lacing # << >> => last_granulepos' < enc_granulepos'
           /\ given'[Len(given')].granulepos <= enc_granulepos'
           /\ ~given'[Len(given')].e_o_s
    <3>1. CASE os'.lacing = << >>
      BY <1>0, <1>2, <1>3, <2>1, <2>2, <3>1
    <3>2. CASE os'.lacing # << >>
      BY <1>0, <1>2, <1>3, <2>1, <2>2, <3>2
    <3> QED
      BY <3>1, <3>2
  <2>4. pc = "before" /\ ~op.e_o_s => last_granulepos' < enc_granulepos'
    BY <1>2, <2>1
  <2>5. given # << >> /\ pc' # "new"
    BY <1>0, <1>2 DEF TimesInv
  <2>6. CASE UNCHANGED <<pc, result, failed>>
    BY <1>0, <1>2, <2>1, <2>2, <2>3, <2>4, <2>5, <2>6 DEF TimesInv
  <2>7. CASE pc' = "idle" /\ failed'
    BY <1>0, <1>2, <2>1, <2>2, <2>3, <2>5, <2>7 DEF TimesInv
  <2> QED
    BY <1>2, <2>6, <2>7
<1>8. CountInv'
  <2>1. (pc = "before" \/ ~op.e_o_s \/ size_segments = op.segments) =>
            last_segments' = Len(os'.lacing)
    <3>1. (pc = "before" \/ ~op.e_o_s \/ size_segments = op.segments) =>
              last_segments = Len(os.lacing)
      <4>1. CASE pc = "before"
        BY <1>0, <4>1 DEF CountInv
      <4>2. CASE pc = "after"
        BY <1>0, <4>2 DEF CountInv
      <4> QED
        BY <1>0, <4>1, <4>2
    <3>2. last_segments = Len(os.lacing) => last_segments' = Len(os'.lacing)
      BY <1>2, <1>3
    <3> QED
      BY <3>1, <3>2
  <2>2. op.e_o_s \/ size_segments = op.segments
    BY <1>0 DEF CountInv
  <2>3. UNCHANGED <<op, size_segments>> /\ pc' \in {"before", "after", "idle"}
    BY <1>0, <1>2
  <2>4. pc' = "before" => pc = "before"
    BY <1>2
  <2> QED
    BY <2>1, <2>2, <2>3, <2>4 DEF CountInv
<1> QED
  BY <1>2, <1>5, <1>6, <1>7, <1>8 DEF RecorderInv

LEMMA RecorderStep == RecorderInv /\ [Next]_vars => RecorderInv'
<1> SUFFICES ASSUME RecorderInv, [Next]_vars PROVE RecorderInv'
  OBVIOUS
<1>0. TypesInv /\ GivenInv
  BY DEF RecorderInv
<1>1. CASE FrameWritten
  <2>1. /\ pc = "after" /\ pc' = "idle" /\ result' = 1
        /\ UNCHANGED <<os, op, countVars, given, frames, failed>>
    BY <1>1 DEF FrameWritten, historyVars
  <2>2. os.lacing = << >>
    BY <1>1, <2>1, EmptyAfterWriting DEF FrameWritten
  <2>3. BufferInv /\ TimesInv /\ CountInv
    BY <2>1 DEF RecorderInv
  <2>4. BufferInv' /\ GivenInv'
    BY <1>0, <2>1, <2>3, BufferUnchanged
  <2>5. TypesInv'
    <3>1. 1 \in 0 .. 1
      OBVIOUS
    <3> QED
      BY <1>0, <2>1, <3>1 DEF TypesInv, countVars
  <2>6. TimesInv'
    <3>1. ~op.e_o_s => /\ given[Len(given)].granulepos <= enc_granulepos
                       /\ ~given[Len(given)].e_o_s
                       /\ last_granulepos <= enc_granulepos
      BY <1>0, <2>1, <2>3 DEF TimesInv, TypesInv
    <3> QED
      BY <2>1, <2>2, <2>3, <3>1 DEF TimesInv, countVars
  <2>7. CountInv'
    BY <2>1, <2>3 DEF CountInv, countVars
  <2> QED
    BY <2>4, <2>5, <2>6, <2>7 DEF RecorderInv
<1>2. CASE StopRecord
  <2>1. /\ pc' = "closed" /\ os' = NewEncoder /\ op' = NoPacket
        /\ samples' = 0 /\ enc_granulepos' = 0 /\ last_granulepos' = 0
        /\ size_segments' = 0 /\ last_segments' = 0
        /\ UNCHANGED <<result, frames, given, failed>>
    BY <1>2 DEF StopRecord, historyVars
  <2>2. os' \in Encoder
    <3>1. << >> \in Seq(Segment)
      OBVIOUS
    <3> QED
      BY <2>1, <3>1 DEF NewEncoder, Encoder
  <2>3. op' \in PacketType
    BY <2>1 DEF NoPacket, PacketType
  <2>4. TypesInv'
    BY <1>0, <2>1, <2>2, <2>3 DEF TypesInv
  <2>5. GivenInv'
    BY <1>0, <2>1 DEF GivenInv
  <2> QED
    BY <2>1, <2>4, <2>5 DEF RecorderInv
<1>3. CASE UNCHANGED <<pc, os, op, countVars, result, frames, given, failed>>
  <2>1. TypesInv'
    BY <1>0, <1>3 DEF TypesInv, countVars
  <2>2. GivenInv'
    BY <1>0, <1>3 DEF GivenInv
  <2>3. pc # "closed" => BufferInv' /\ TimesInv' /\ CountInv'
    BY <1>0, <1>3, BufferUnchanged DEF RecorderInv, TimesInv, CountInv, countVars
  <2> QED
    BY <1>3, <2>1, <2>2, <2>3 DEF RecorderInv
<1>4. CASE ReadPage \/ SkipPage \/ ReadPacket \/ UNCHANGED vars
  BY <1>3, <1>4 DEF ReadPage, SkipPage, ReadPacket, vars, historyVars
<1> QED
  BY <1>1, <1>2, <1>4, HeaderSteps, BeginSteps, GiveFrameStep, FlushStep DEF Next

LEMMA CountShows == RecorderInv => SegmentsCounted
<1> SUFFICES ASSUME RecorderInv, pc \in {"idle", "before", "after"}, ~EmptyFrameGiven
             PROVE  last_segments = Len(os.lacing)
  BY DEF SegmentsCounted
<1>1. CountInv
  BY DEF RecorderInv
<1> QED
  BY <1>1 DEF CountInv, EmptyFrameGiven

(* The recorder's count of the buffered segments is the stream's, for any    *)
(* sizes of the frames and whichever pages could not be written.             *)
THEOREM CountKept == Spec => []SegmentsCounted
<1> QED
  BY RecorderInit, RecorderStep, CountShows, PTL DEF Spec

-----------------------------------------------------------------------------
(* The pages. *)

Page == [pageno : Nat, continued : BOOLEAN, b_o_s : BOOLEAN, e_o_s : BOOLEAN,
         granulepos : Int, segments : Seq(Segment)]
Chunk == [page : Page, missing : Nat]

PagePacket(page) == page.segments[1].packet
PageFirst(page) == page.segments[1].part
PageLast(page) == PageFirst(page) + Len(page.segments) - 1
Ends(packets, page) == PageLast(page) = packets[PagePacket(page)].segments

(* A page has segments of one packet, and what it says is true of that one. *)
PageInv(packets, page) ==
    /\ page \in Page
    /\ Len(page.segments) > 0
    /\ PagePacket(page) \in 1 .. Len(packets)
    /\ PageFirst(page) > 0 /\ PageLast(page) <= packets[PagePacket(page)].segments
    /\ \A j \in 1 .. Len(page.segments) :
           /\ page.segments[j].packet = PagePacket(page)
           /\ page.segments[j].part = PageFirst(page) + j - 1
           /\ page.segments[j].last <=>
                  PageFirst(page) + j - 1 = packets[PagePacket(page)].segments
    /\ page.continued <=> PageFirst(page) # 1
    /\ Ends(packets, page) => page.granulepos = packets[PagePacket(page)].granulepos
    /\ page.e_o_s <=> Ends(packets, page) /\ packets[PagePacket(page)].e_o_s
    /\ page.pageno = 0 => PagePacket(page) = 1 /\ PageFirst(page) = 1

(* What follows a page at once, and what follows it when pages are missing: *)
(* part j of packet q.                                                      *)
NextAfter(packets, page, q, j) ==
    IF Ends(packets, page) THEN q = PagePacket(page) + 1 /\ j = 1
    ELSE q = PagePacket(page) /\ j = PageLast(page) + 1

LaterThan(packets, page, q, j) ==
    IF Ends(packets, page) THEN q > PagePacket(page) /\ (j = 1 => q > PagePacket(page) + 1)
    ELSE q >= PagePacket(page) /\ (j = 1 => q > PagePacket(page))

After(packets, page, pageno, q, j) ==
    /\ page.pageno < pageno
    /\ IF pageno = page.pageno + 1 THEN NextAfter(packets, page, q, j)
       ELSE LaterThan(packets, page, q, j)

PagesInv ==
    /\ file \in Seq(Chunk)
    /\ \A i \in 1 .. Len(file) : /\ PageInv(given, file[i].page)
                                 /\ file[i].missing < PageLength(file[i].page)
    /\ \A i, j \in 1 .. Len(file) :
           i < j => After(given, file[i].page, file[j].page.pageno,
                          PagePacket(file[j].page), PageFirst(file[j].page))
    /\ ~failed => \A i \in 1 .. Len(file) :
                      /\ file[i].page.pageno = i - 1
                      /\ file[i].missing = 0 \/ (closeFailed /\ i = Len(file))

(* What of that any front of the pages has too, its last page torn or not.  *)
Chained(packets, pages) ==
    /\ pages \in Seq(Chunk)
    /\ \A i \in 1 .. Len(pages) : /\ PageInv(packets, pages[i].page)
                                  /\ pages[i].missing < PageLength(pages[i].page)
    /\ \A i, j \in 1 .. Len(pages) :
           i < j => After(packets, pages[i].page, pages[j].page.pageno,
                          PagePacket(pages[j].page), PageFirst(pages[j].page))

CursorInv ==
    pc # "closed" =>
        /\ \A i \in 1 .. Len(file) : After(given, file[i].page, os.pageno, NextPacket, NextPart)
        /\ ~failed => os.pageno = Len(file)
        /\ ~closeFailed

(* The packets that the first n pages complete.  While no call fails a page *)
(* completes one packet at most: what is lost at the end are no more        *)
(* packets than pages.                                                      *)
Completed(packets, pages, n) ==
    IF n = 0 THEN 0
    ELSE IF Ends(packets, pages[n].page) THEN PagePacket(pages[n].page)
    ELSE PagePacket(pages[n].page) - 1

PaceInv ==
    pc # "closed" /\ ~failed =>
        \A i, j \in 0 .. Len(file) :
            i <= j => Completed(given, file, j) - Completed(given, file, i) <= j - i

BufferedInv ==
    /\ flushed \in 0 .. Len(file) /\ Len(file) - flushed <= BufferPages
    /\ closeFailed \in BOOLEAN

(* A recording without a failure has all its packets in the file, but for   *)
(* those that were lost when it was closed.                                 *)
WholePages(pages) ==
    IF Len(pages) > 0 /\ pages[Len(pages)].missing # 0 THEN Len(pages) - 1 ELSE Len(pages)

ClosedInv ==
    pc = "closed" /\ ~failed =>
        Len(given) - Completed(given, file, WholePages(file)) <= LostAtClose

FileInv == PagesInv /\ CursorInv /\ PaceInv /\ BufferedInv /\ ClosedInv

LEMMA PageNumbers ==
    ASSUME NEW packets, NEW page, PageInv(packets, page)
    PROVE  /\ page.segments \in Seq(Segment) /\ Len(page.segments) \in Nat \ {0}
           /\ PagePacket(page) \in Nat /\ PageFirst(page) \in Nat \ {0}
           /\ PageLast(page) \in Nat \ {0} /\ page.pageno \in Nat
<1>1. /\ page.segments \in Seq(Segment) /\ page.pageno \in Nat /\ Len(page.segments) > 0
  BY DEF PageInv, Page
<1>2. Len(page.segments) \in Nat \ {0} /\ 1 \in 1 .. Len(page.segments)
  BY <1>1
<1>3. page.segments[1] \in Segment
  BY <1>1, <1>2, ElementType
<1>4. PagePacket(page) \in Nat /\ PageFirst(page) \in Nat
  BY <1>3 DEF PagePacket, PageFirst, Segment
<1>5. PageFirst(page) > 0
  BY DEF PageInv
<1>6. PageLast(page) \in Nat \ {0}
  BY <1>2, <1>4, <1>5 DEF PageLast
<1> QED
  BY <1>1, <1>2, <1>4, <1>5, <1>6

(* Packets that are given later change nothing for a page.                  *)
LEMMA PageKept ==
    ASSUME NEW packets, NEW more, Len(packets) \in Nat, Len(more) \in Nat,
           Len(packets) <= Len(more), \A q \in 1 .. Len(packets) : more[q] = packets[q],
           NEW page, PageInv(packets, page)
    PROVE  /\ PageInv(more, page)
           /\ Ends(more, page) <=> Ends(packets, page)
           /\ \A pageno, q, j : After(more, page, pageno, q, j) <=> After(packets, page, pageno, q, j)
<1>1. PagePacket(page) \in 1 .. Len(packets)
  BY DEF PageInv
<1>2. PagePacket(page) \in 1 .. Len(more) /\ more[PagePacket(page)] = packets[PagePacket(page)]
  BY <1>1
<1>3. Ends(more, page) <=> Ends(packets, page)
  BY <1>2 DEF Ends
<1>4. PageInv(more, page)
  BY <1>2, <1>3 DEF PageInv
<1> QED
  BY <1>3, <1>4 DEF After, NextAfter, LaterThan

(* The page that is taken from the buffer.                                  *)
LEMMA FlushedPageInv ==
    ASSUME GivenInv, BufferInv, os \in Encoder, Flushable(os)
    PROVE  LET page == FlushedPage(os)
               n == PageSize(os)
           IN  /\ PageInv(given, page) /\ page.pageno = os.pageno
               /\ Len(page.segments) = n
               /\ PagePacket(page) = NextPacket /\ PageFirst(page) = NextPart
               /\ PageLast(page) = given[Len(given)].segments - Len(os.lacing) + n
               /\ Ends(given, page) <=> n = Len(os.lacing)
<1> DEFINE page == FlushedPage(os)
           n == PageSize(os)
           size == given[Len(given)].segments
           before == size - Len(os.lacing)
<1>1. /\ Len(os.lacing) \in 1 .. size /\ os.lacing \in Seq(Segment) /\ size \in Nat \ {0}
      /\ Len(given) \in Nat \ {0} /\ n \in 1 .. Len(os.lacing) /\ os.lacing # << >>
      /\ given[Len(given)] \in PacketType
  BY BufferedParts, PageSizeBuffered
<1>2. /\ page.segments \in Seq(Segment) /\ Len(page.segments) = n
      /\ \A j \in 1 .. n : page.segments[j] = os.lacing[j]
      /\ n = Len(os.lacing) => page.granulepos = given[Len(given)].granulepos
  BY FlushedParts
<1>3. page = [pageno |-> os.pageno, continued |-> page.segments[1].part # 1, b_o_s |-> ~os.b_o_s,
              e_o_s |-> os.e_o_s /\ Len(os.lacing) = n,
              granulepos |-> GranuleOfPage(os, page.segments), segments |-> page.segments]
  BY DEF FlushedPage
<1>4. \A j \in 1 .. n : /\ page.segments[j].packet = Len(given)
                        /\ page.segments[j].part = before + j
                        /\ page.segments[j].last <=> before + j = size
                        /\ page.segments[j].granulepos \in Int
  <2>1. \A j \in 1 .. n : j \in 1 .. Len(os.lacing)
    BY <1>1
  <2>2. \A j \in 1 .. n : page.segments[j] \in Segment
    BY <1>2, ElementType
  <2> SUFFICES ASSUME NEW j \in 1 .. n
               PROVE  /\ page.segments[j].packet = Len(given)
                      /\ page.segments[j].part = before + j
                      /\ page.segments[j].last <=> before + j = size
                      /\ page.segments[j].granulepos \in Int
    OBVIOUS
  <2>3. page.segments[j] = os.lacing[j] /\ j \in 1 .. Len(os.lacing)
    BY <1>2, <2>1
  <2>4. /\ page.segments[j].packet = Len(given)
        /\ page.segments[j].part = before + j
        /\ page.segments[j].last <=> before + j = size
    BY <2>3, BufferedPart, Zenon
  <2>5. page.segments[j].granulepos \in Int
    BY <2>2 DEF Segment
  <2> QED
    BY <2>4, <2>5
<1> HIDE DEF page, n
<1>5. before \in Nat
  BY <1>1
<1>6. /\ PagePacket(page) = Len(given) /\ PageFirst(page) = before + 1
      /\ PageLast(page) = before + n
  <2>1. 1 \in 1 .. n
    BY <1>1
  <2>2. PagePacket(page) = Len(given) /\ PageFirst(page) = before + 1
    BY <1>4, <2>1 DEF PagePacket, PageFirst
  <2> QED
    BY <1>1, <1>2, <1>5, <2>2 DEF PageLast
<1>7. Ends(given, page) <=> n = Len(os.lacing)
  BY <1>1, <1>6 DEF Ends
<1> DEFINE continued == page.segments[1].part # 1
           beginning == ~os.b_o_s
           ending == os.e_o_s /\ Len(os.lacing) = n
           granule == GranuleOfPage(os, page.segments)
           segments == page.segments
<1>8. /\ page.pageno = os.pageno /\ page.continued = continued /\ page.b_o_s = beginning
      /\ page.e_o_s = ending
      /\ page = [pageno |-> os.pageno, continued |-> continued, b_o_s |-> beginning,
                 e_o_s |-> ending, granulepos |-> granule, segments |-> segments]
  <2>1. page = [pageno |-> os.pageno, continued |-> continued, b_o_s |-> beginning,
                e_o_s |-> ending, granulepos |-> granule, segments |-> segments]
    BY <1>3
  <2> HIDE DEF continued, beginning, ending, granule, segments
  <2> QED
    BY <2>1
<1>9. page \in Page
  <2>1. os.pageno \in Nat /\ os.b_o_s \in BOOLEAN /\ os.e_o_s \in BOOLEAN
    BY DEF Encoder
  <2>2. GranuleOfPage(os, page.segments) \in Int
    <3>1. CASE Completes(page.segments)
      <4>1. n = Len(os.lacing)
        BY <3>1, FlushedParts DEF page, n
      <4>2. page.granulepos \in Int
        BY <1>1, <1>2, <4>1 DEF PacketType
      <4>3. page.granulepos = GranuleOfPage(os, page.segments)
        BY <1>3
      <4> QED
        BY <4>2, <4>3
    <3>2. CASE ~Completes(page.segments)
      BY <3>2 DEF GranuleOfPage, NoGranule
    <3> QED
      BY <3>1, <3>2
  <2>3. continued \in BOOLEAN /\ beginning \in BOOLEAN /\ ending \in BOOLEAN
    OBVIOUS
  <2>4. granule \in Int /\ segments \in Seq(Segment)
    BY <1>2, <2>2
  <2> HIDE DEF continued, beginning, ending, granule, segments
  <2> QED
    BY <1>8, <2>1, <2>3, <2>4 DEF Page
<1>10. page.pageno = 0 => PagePacket(page) = 1 /\ PageFirst(page) = 1
  <2> SUFFICES ASSUME os.pageno = 0 PROVE Len(given) = 1 /\ before + 1 = 1
    BY <1>6, <1>8
  <2>1. given # << >>
    BY <1>1, EmptyLength DEF GivenInv
  <2>2. Len(given) = 1
    BY <2>1 DEF BufferInv
  <2>3. size = 1
    BY <2>1, <2>2 DEF GivenInv
  <2>4. Len(os.lacing) \in 1 .. 1
    BY <1>1, <2>3
  <2>5. \A k \in 1 .. 1 : 1 - k + 1 = 1
    OBVIOUS
  <2>6. size - Len(os.lacing) + 1 = 1
    BY <2>3, <2>4, <2>5
  <2> QED
    BY <2>2, <2>6
<1>11. \A j \in 1 .. Len(page.segments) :
          /\ page.segments[j].packet = PagePacket(page)
          /\ page.segments[j].part = PageFirst(page) + j - 1
          /\ page.segments[j].last <=>
                 PageFirst(page) + j - 1 = given[PagePacket(page)].segments
  <2> SUFFICES ASSUME NEW j \in 1 .. n
               PROVE  /\ page.segments[j].packet = PagePacket(page)
                      /\ page.segments[j].part = PageFirst(page) + j - 1
                      /\ page.segments[j].last <=>
                             PageFirst(page) + j - 1 = given[PagePacket(page)].segments
    BY <1>2
  <2>1. PageFirst(page) + j - 1 = before + j
    BY <1>1, <1>5, <1>6
  <2> QED
    BY <1>4, <1>6, <2>1
<1>12. page.e_o_s <=> Ends(given, page) /\ given[PagePacket(page)].e_o_s
  <2>1. os.e_o_s <=> given[Len(given)].e_o_s
    BY <1>1 DEF BufferInv
  <2> QED
    BY <1>6, <1>7, <1>8, <2>1
<1>13. PageInv(given, page)
  <2>1. Len(page.segments) > 0 /\ PagePacket(page) \in 1 .. Len(given) /\ PageFirst(page) > 0
    BY <1>1, <1>2, <1>5, <1>6
  <2>2. PageLast(page) <= given[PagePacket(page)].segments
    BY <1>1, <1>6
  <2>3. page.continued <=> PageFirst(page) # 1
    BY <1>8 DEF PageFirst
  <2>4. Ends(given, page) => page.granulepos = given[PagePacket(page)].granulepos
    BY <1>2, <1>6, <1>7
  <2> QED
    BY <1>9, <1>10, <1>11, <1>12, <2>1, <2>2, <2>3, <2>4 DEF PageInv
<1>14. NextPacket = Len(given) /\ NextPart = before + 1
  BY <1>1 DEF NextPacket, NextPart
<1> QED
  BY <1>2, <1>6, <1>7, <1>8, <1>13, <1>14 DEF page, n
(* The place of the next page goes on: to the next packet, or inside this. *)
LEMMA CursorMoves ==
    ASSUME NEW packets, NEW page, PageInv(packets, page),
           NEW pageno \in Nat, NEW q \in Nat, NEW j \in Nat \ {0}, NEW r \in Nat, NEW k \in Nat,
           After(packets, page, pageno, q, j),
           (r = q + 1 /\ k = 1) \/ (r = q /\ k > 1)
    PROVE  After(packets, page, pageno + 1, r, k)
<1> DEFINE ends == Ends(packets, page)
           p == PagePacket(page)
           l == PageLast(page)
<1>1. p \in Nat /\ l \in Nat \ {0} /\ page.pageno \in Nat
  BY PageNumbers
<1>2. /\ page.pageno < pageno
      /\ \/ IF ends THEN q = p + 1 /\ j = 1 ELSE q = p /\ j = l + 1
         \/ IF ends THEN q > p /\ (j = 1 => q > p + 1) ELSE q >= p /\ (j = 1 => q > p)
  BY DEF After, NextAfter, LaterThan
<1>3. After(packets, page, pageno + 1, r, k) <=>
          /\ page.pageno < pageno + 1
          /\ IF pageno + 1 = page.pageno + 1 THEN NextAfter(packets, page, r, k)
             ELSE LaterThan(packets, page, r, k)
  BY DEF After
<1>4. LaterThan(packets, page, r, k) <=>
          IF ends THEN r > p /\ (k = 1 => r > p + 1) ELSE r >= p /\ (k = 1 => r > p)
  BY DEF LaterThan
<1> HIDE DEF ends, p, l
<1>5. page.pageno < pageno + 1 /\ pageno + 1 # page.pageno + 1
  BY <1>1, <1>2
<1>6. CASE ends
  <2>1. q > p
    BY <1>1, <1>2, <1>6
  <2>2. r > p /\ (k = 1 => r > p + 1)
    BY <1>1, <2>1
  <2> QED
    BY <1>3, <1>4, <1>5, <1>6, <2>2
<1>7. CASE ~ends
  <2>1. q >= p
    BY <1>1, <1>2, <1>7
  <2>2. r >= p /\ (k = 1 => r > p)
    BY <1>1, <2>1
  <2> QED
    BY <1>3, <1>4, <1>5, <1>7, <2>2
<1> QED
  BY <1>6, <1>7

(* The places of the next page before and after a page is taken.            *)
LEMMA NextPlace ==
    ASSUME GivenInv, BufferInv, os \in Encoder
    PROVE  NextPacket \in Nat \ {0} /\ NextPart \in Nat \ {0}
<1>1. Len(given) \in Nat
  BY DEF GivenInv
<1>2. CASE os.lacing = << >>
  BY <1>1, <1>2 DEF NextPacket, NextPart
<1>3. CASE os.lacing # << >>
  <2>1. /\ Len(given) \in Nat \ {0} /\ given[Len(given)].segments \in Nat \ {0}
        /\ Len(os.lacing) \in 1 .. given[Len(given)].segments
    BY <1>3, BufferedParts DEF Flushable
  <2> QED
    BY <1>3, <2>1 DEF NextPacket, NextPart
<1> QED
  BY <1>2, <1>3

LEMMA FlushedPlace ==
    ASSUME GivenInv, BufferInv, os \in Encoder, Flushable(os),
           os' = AfterFlush(os), UNCHANGED given
    PROVE  /\ \/ NextPacket' = NextPacket + 1 /\ NextPart' = 1
              \/ NextPacket' = NextPacket /\ NextPart' > 1
           /\ NextPacket' \in Nat /\ NextPart' \in Nat
           /\ After(given, FlushedPage(os), os'.pageno, NextPacket', NextPart')
<1> DEFINE page == FlushedPage(os)
           n == PageSize(os)
           size == given[Len(given)].segments
<1>1. /\ Len(os.lacing) \in 1 .. size /\ size \in Nat \ {0} /\ Len(given) \in Nat \ {0}
      /\ n \in 1 .. Len(os.lacing) /\ os.lacing # << >>
  BY BufferedParts, PageSizeBuffered
<1>2. /\ page.pageno = os.pageno /\ PagePacket(page) = NextPacket
      /\ PageLast(page) = size - Len(os.lacing) + n
      /\ Ends(given, page) <=> n = Len(os.lacing)
  BY FlushedPageInv
<1>3. /\ os'.pageno = os.pageno + 1 /\ Len(os'.lacing) = Len(os.lacing) - n
      /\ os'.lacing = << >> <=> n = Len(os.lacing)
  BY BufferFlushed
<1>4. os.pageno \in Nat /\ NextPacket = Len(given)
  BY <1>1 DEF Encoder, NextPacket
<1>5. NextPacket' = IF os'.lacing = << >> THEN Len(given) + 1 ELSE Len(given)
  BY DEF NextPacket
<1>6. NextPart' = IF os'.lacing = << >> THEN 1 ELSE size - Len(os'.lacing) + 1
  BY DEF NextPart
<1> HIDE DEF page, n, size
<1>7. CASE n = Len(os.lacing)
  <2>1. NextPacket' = NextPacket + 1 /\ NextPart' = 1
    BY <1>3, <1>4, <1>5, <1>6, <1>7
  <2>2. NextAfter(given, page, NextPacket', NextPart')
    BY <1>2, <1>7, <2>1 DEF NextAfter
  <2> QED
    BY <1>2, <1>3, <1>4, <2>1, <2>2 DEF After, page
<1>8. CASE n # Len(os.lacing)
  <2>0. os'.lacing # << >>
    BY <1>3, <1>8
  <2>a. NextPacket' = NextPacket
    BY <1>4, <1>5, <2>0
  <2>b. NextPart' = size - Len(os'.lacing) + 1
    BY <1>6, <2>0
  <2>c. NextPart' = PageLast(page) + 1
    BY <1>1, <1>2, <1>3, <2>b
  <2>1. NextPacket' = NextPacket /\ NextPart' = PageLast(page) + 1
    BY <2>a, <2>c
  <2>2. PageInv(given, page)
    BY FlushedPageInv DEF page
  <2>3. PageLast(page) \in Nat \ {0}
    BY <2>2, PageNumbers
  <2>4. NextAfter(given, page, NextPacket', NextPart')
    BY <1>2, <1>8, <2>1 DEF NextAfter
  <2> QED
    BY <1>2, <1>3, <1>4, <2>1, <2>2, <2>3, <2>4 DEF After, page
<1> QED
  BY <1>7, <1>8

(* A page that is added to those of the file.                              *)
LEMMA PageAppended ==
    ASSUME GivenInv, BufferInv, os \in Encoder, Flushable(os), pc # "closed",
           PagesInv, CursorInv,
           NEW pages, pages = Append(file, [page |-> FlushedPage(os), missing |-> 0])
    PROVE  /\ Chained(given, pages) /\ Len(pages) = Len(file) + 1 /\ Len(file) \in Nat
           /\ \A i \in 1 .. Len(file) : pages[i] = file[i]
           /\ pages[Len(file) + 1].page = FlushedPage(os) /\ pages[Len(file) + 1].missing = 0
<1> DEFINE page == FlushedPage(os)
           chunk == [page |-> page, missing |-> 0]
<1>1. /\ PageInv(given, page) /\ page.pageno = os.pageno
      /\ PagePacket(page) = NextPacket /\ PageFirst(page) = NextPart
  BY FlushedPageInv
<1>2. 0 < PageLength(page) /\ page \in Page
  <2>1. Len(page.segments) \in Nat
    BY <1>1, PageNumbers
  <2> QED
    BY <1>1, <2>1 DEF PageLength, PageInv
<1>3. chunk \in Chunk /\ chunk.page = page /\ chunk.missing = 0
  BY <1>2 DEF Chunk
<1>4. pages = Append(file, chunk)
  OBVIOUS
<1> HIDE DEF chunk
<1>5. file \in Seq(Chunk) /\ Len(file) \in Nat
  BY DEF PagesInv
<1>6. /\ pages \in Seq(Chunk) /\ Len(pages) = Len(file) + 1 /\ pages[Len(file) + 1] = chunk
      /\ \A i \in 1 .. Len(file) : pages[i] = file[i]
  BY <1>3, <1>4, <1>5
<1> HIDE DEF page
<1>7. \A i \in 1 .. Len(pages) : i \in 1 .. Len(file) \/ i = Len(file) + 1
  BY <1>5, <1>6
<1>8. ASSUME NEW i \in 1 .. Len(pages)
      PROVE  PageInv(given, pages[i].page) /\ pages[i].missing < PageLength(pages[i].page)
  <2>1. CASE i \in 1 .. Len(file)
    BY <1>6, <2>1 DEF PagesInv
  <2>2. CASE i = Len(file) + 1
    BY <1>1, <1>2, <1>3, <1>6, <2>2
  <2> QED
    BY <1>7, <2>1, <2>2
<1>9. ASSUME NEW i \in 1 .. Len(pages), NEW j \in 1 .. Len(pages), i < j
      PROVE  After(given, pages[i].page, pages[j].page.pageno,
                   PagePacket(pages[j].page), PageFirst(pages[j].page))
  <2>1. i \in 1 .. Len(file)
    BY <1>5, <1>6, <1>9
  <2>2. CASE j \in 1 .. Len(file)
    BY <1>6, <1>9, <2>1, <2>2 DEF PagesInv
  <2>3. CASE j = Len(file) + 1
    <3>1. After(given, file[i].page, os.pageno, NextPacket, NextPart)
      BY <2>1 DEF CursorInv
    <3> QED
      BY <1>1, <1>3, <1>6, <2>1, <2>3, <3>1
  <2> QED
    BY <1>7, <2>2, <2>3
<1> QED
  BY <1>3, <1>5, <1>6, <1>8, <1>9 DEF Chained, page

(* What is left of the pages when a flush fails.                            *)
LEMMA PagesLost ==
    ASSUME NEW packets, NEW pages, Chained(packets, pages), Len(pages) \in Nat,
           NEW kept \in 0 .. Len(pages) - 1, NEW left \in LostAfter(pages, kept)
    PROVE  /\ Chained(packets, left) /\ Len(left) \in kept .. kept + 1 /\ Len(left) <= Len(pages)
           /\ \A i \in 1 .. Len(left) : left[i].page = pages[i].page
           /\ \A i \in 1 .. kept : left[i] = pages[i]
           /\ Len(left) = kept + 1 => left[kept + 1].missing # 0
<1> DEFINE front == SubSeq(pages, 1, kept)
           page == pages[kept + 1].page
           torn(m) == [page |-> page, missing |-> m]
<1>1. pages \in Seq(Chunk) /\ kept \in 0 .. Len(pages) /\ kept + 1 \in 1 .. Len(pages) /\ kept \in Nat
  BY DEF Chained
<1>2. /\ front \in Seq(Chunk) /\ Len(front) = kept
      /\ \A i \in 1 .. kept : front[i] = pages[i]
  BY <1>1, FrontElements
<1>3. left = front \/ \E m \in 1 .. Len(page.segments) : left = Append(front, torn(m))
  BY DEF LostAfter
<1>4. PageInv(packets, page) /\ Len(page.segments) \in Nat /\ page \in Page
  BY <1>1, PageNumbers DEF Chained, PageInv
<1> HIDE DEF front, page
<1>5. \A m \in 1 .. Len(page.segments) :
          /\ torn(m) \in Chunk /\ torn(m).page = page /\ torn(m).missing = m /\ m # 0
          /\ m < PageLength(page)
  BY <1>4 DEF Chunk, PageLength
<1>6. CASE left = front
  <2>1. /\ left \in Seq(Chunk) /\ Len(left) = kept /\ \A i \in 1 .. Len(left) : left[i] = pages[i]
    BY <1>2, <1>6
  <2>2. \A i \in 1 .. Len(left) : i \in 1 .. Len(pages)
    BY <1>1, <2>1
  <2>3. Chained(packets, left)
    BY <2>1, <2>2 DEF Chained
  <2> QED
    BY <1>1, <2>1, <2>3
<1>7. CASE \E m \in 1 .. Len(page.segments) : left = Append(front, torn(m))
  <2>1. PICK m \in 1 .. Len(page.segments) : left = Append(front, torn(m))
    BY <1>7
  <2>2. /\ torn(m) \in Chunk /\ torn(m).page = page /\ torn(m).missing = m /\ m # 0
        /\ m < PageLength(page)
    BY <1>5
  <2> HIDE DEF torn
  <2>3. /\ left \in Seq(Chunk) /\ Len(left) = kept + 1 /\ left[kept + 1] = torn(m)
        /\ \A i \in 1 .. kept : left[i] = pages[i]
    BY <1>1, <1>2, <2>1, <2>2
  <2>4. \A i \in 1 .. Len(left) : i \in 1 .. Len(pages) /\ (i \in 1 .. kept \/ i = kept + 1)
    BY <1>1, <2>3
  <2>5. \A i \in 1 .. Len(left) : left[i].page = pages[i].page
    BY <2>2, <2>3, <2>4 DEF page
  <2>6. \A i \in 1 .. Len(left) : left[i].missing < PageLength(left[i].page)
    <3> TAKE i \in 1 .. Len(left)
    <3>1. CASE i \in 1 .. kept
      BY <2>3, <2>4, <3>1 DEF Chained
    <3>2. CASE i = kept + 1
      BY <2>2, <2>3, <3>2
    <3> QED
      BY <2>4, <3>1, <3>2
  <2>7. Chained(packets, left)
    BY <2>3, <2>4, <2>5, <2>6 DEF Chained
  <2> QED
    BY <1>1, <2>2, <2>3, <2>5, <2>7
<1> QED
  BY <1>3, <1>6, <1>7

(* A page completes one packet at most.                                     *)
LEMMA PageCompletes ==
    ASSUME NEW packets, NEW pages, Len(pages) \in Nat \ {0}, Chained(packets, pages),
           \A i \in 1 .. Len(pages) : pages[i].page.pageno = i - 1
    PROVE  /\ \A i \in 0 .. Len(pages) : Completed(packets, pages, i) \in Nat
           /\ Completed(packets, pages, Len(pages)) <=
                  Completed(packets, pages, Len(pages) - 1) + 1
<1> DEFINE n == Len(pages)
           page == pages[n].page
           p == PagePacket(page)
           ends == Ends(packets, page)
<1>1. \A i \in 1 .. n : PageInv(packets, pages[i].page) /\ PagePacket(pages[i].page) \in Nat \ {0}
  <2> TAKE i \in 1 .. n
  <2>1. PageInv(packets, pages[i].page)
    BY DEF Chained
  <2>2. PagePacket(pages[i].page) \in 1 .. Len(packets)
    BY <2>1 DEF PageInv
  <2> QED
    BY <2>1, <2>2
<1>2. \A i \in 0 .. n : Completed(packets, pages, i) \in Nat
  <2> TAKE i \in 0 .. n
  <2>1. CASE i = 0
    BY <2>1 DEF Completed
  <2>2. CASE i # 0
    <3>1. i \in 1 .. n
      BY <2>2
    <3> QED
      BY <1>1, <2>2, <3>1 DEF Completed
  <2> QED
    BY <2>1, <2>2
<1>3. n \in 1 .. n /\ n \in Nat /\ n # 0
  OBVIOUS
<1>4. p \in Nat \ {0} /\ PageInv(packets, page)
  BY <1>1, <1>3
<1>5. Completed(packets, pages, n) = IF ends THEN p ELSE p - 1
  BY <1>3 DEF Completed
<1>6. CASE n = 1
  <2>1. page.pageno = 0
    BY <1>3, <1>6
  <2>2. p = 1
    BY <1>4, <2>1 DEF PageInv
  <2>3. Completed(packets, pages, n - 1) = 0
    BY <1>6 DEF Completed
  <2> HIDE DEF p, ends, n
  <2> QED
    BY <1>2, <1>5, <2>2, <2>3 DEF n
<1>7. CASE n # 1
  <2> DEFINE old == pages[n - 1].page
             q == PagePacket(old)
  <2>1. n - 1 \in 1 .. n /\ n - 1 # 0 /\ n - 1 < n
    <3> HIDE DEF n
    <3> QED
      BY <1>3, <1>7
  <2>2. q \in Nat \ {0} /\ old.pageno = n - 2 /\ page.pageno = n - 1
    BY <1>1, <1>3, <2>1
  <2>3. After(packets, old, page.pageno, p, PageFirst(page))
    BY <1>3, <2>1 DEF Chained
  <2>4. page.pageno = old.pageno + 1
    BY <1>3, <2>2
  <2>5. Completed(packets, pages, n - 1) = IF Ends(packets, old) THEN q ELSE q - 1
    BY <2>1 DEF Completed
  <2> HIDE DEF p, q, old, page, ends, n
  <2>6. NextAfter(packets, old, p, PageFirst(page))
    BY <2>3, <2>4 DEF After
  <2>7. IF Ends(packets, old) THEN p = q + 1 ELSE p = q
    BY <2>6 DEF NextAfter, q
  <2>8. Completed(packets, pages, n) <= Completed(packets, pages, n - 1) + 1
    BY <1>4, <1>5, <2>2, <2>5, <2>7
  <2> QED
    BY <1>2, <2>8 DEF n
<1> QED
  BY <1>6, <1>7

LEMMA WritePageStep ==
    ASSUME GivenInv, BufferInv, os \in Encoder, Flushable(os), pc # "closed", failed \in BOOLEAN,
           FileInv, UNCHANGED <<given, closeFailed>>, NEW next, WritePage(next)
    PROVE  FileInv'
<1> DEFINE page == FlushedPage(os)
           pages == Append(file, [page |-> page, missing |-> 0])
<1>0. PagesInv /\ CursorInv /\ PaceInv /\ BufferedInv /\ ~closeFailed /\ BufferPages \in Nat \ {0}
  BY RecorderAssumption DEF FileInv, CursorInv
<1>1. /\ os' = AfterFlush(os)
      /\ \/ /\ file' = pages
            /\ flushed' \in {flushed, Len(file), Len(pages)} /\ Len(pages) - flushed' <= BufferPages
            /\ UNCHANGED <<pc, failed>>
         \/ /\ \E kept \in flushed .. Len(file) : file' \in LostAfter(pages, kept)
            /\ flushed' = Len(file')
            /\ failed' = TRUE
  BY DEF WritePage
<1>2. /\ Chained(given, pages) /\ Len(pages) = Len(file) + 1 /\ Len(file) \in Nat
      /\ \A i \in 1 .. Len(file) : pages[i] = file[i]
      /\ pages[Len(file) + 1].page = page /\ pages[Len(file) + 1].missing = 0
  BY <1>0, PageAppended
<1>3. /\ \/ NextPacket' = NextPacket + 1 /\ NextPart' = 1
         \/ NextPacket' = NextPacket /\ NextPart' > 1
      /\ After(given, page, os'.pageno, NextPacket', NextPart')
      /\ os'.pageno = os.pageno + 1 /\ os.pageno \in Nat /\ page.pageno = os.pageno
  BY <1>1, FlushedPlace, BufferFlushed, FlushedPageInv DEF Encoder
<1>4. /\ NextPacket \in Nat \ {0} /\ NextPart \in Nat \ {0}
      /\ NextPacket' \in Nat /\ NextPart' \in Nat
  BY <1>1, NextPlace, FlushedPlace
<1>5. ASSUME NEW i \in 1 .. Len(file)
      PROVE  After(given, file[i].page, os'.pageno, NextPacket', NextPart')
  <2>1. PageInv(given, file[i].page)
    BY <1>0 DEF PagesInv
  <2>2. After(given, file[i].page, os.pageno, NextPacket, NextPart)
    BY <1>0 DEF CursorInv
  <2>3. After(given, file[i].page, os.pageno + 1, NextPacket', NextPart')
    BY <1>3, <1>4, <2>1, <2>2, CursorMoves
  <2> QED
    BY <1>3, <2>3
<1> HIDE DEF page, pages
<1>6. ASSUME NEW i \in 1 .. Len(pages)
      PROVE  After(given, pages[i].page, os'.pageno, NextPacket', NextPart')
  <2>1. i \in 1 .. Len(file) \/ i = Len(file) + 1
    BY <1>2
  <2> QED
    BY <1>2, <1>3, <1>5, <2>1
<1>7. CASE /\ file' = pages
           /\ flushed' \in {flushed, Len(file), Len(pages)} /\ Len(pages) - flushed' <= BufferPages
           /\ UNCHANGED <<pc, failed>>
  <2>1. ~failed => \A i \in 1 .. Len(pages) : pages[i].page.pageno = i - 1 /\ pages[i].missing = 0
    <3> SUFFICES ASSUME ~failed, NEW i \in 1 .. Len(pages)
                 PROVE  pages[i].page.pageno = i - 1 /\ pages[i].missing = 0
      OBVIOUS
    <3>1. CASE i \in 1 .. Len(file)
      BY <1>0, <1>2, <3>1 DEF PagesInv
    <3>2. CASE i = Len(file) + 1
      <4>1. os.pageno = Len(file) /\ i - 1 = Len(file)
        BY <1>0, <1>2, <3>2 DEF CursorInv
      <4> QED
        BY <1>2, <1>3, <3>2, <4>1
    <3> QED
      BY <1>2, <3>1, <3>2
  <2>2. PagesInv'
    BY <1>2, <1>7, <2>1 DEF PagesInv, Chained
  <2>3. CursorInv'
    <3>1. ~failed => os'.pageno = Len(pages)
      BY <1>0, <1>2, <1>3 DEF CursorInv
    <3> QED
      BY <1>0, <1>6, <1>7, <3>1 DEF CursorInv
  <2>4. PaceInv'
    <3> SUFFICES ASSUME ~failed, NEW i \in 0 .. Len(pages), NEW j \in 0 .. Len(pages), i <= j
                 PROVE  Completed(given, pages, j) - Completed(given, pages, i) <= j - i
      BY <1>7 DEF PaceInv
    <3>1. /\ \A k \in 0 .. Len(pages) : Completed(given, pages, k) \in Nat
          /\ Completed(given, pages, Len(pages)) <= Completed(given, pages, Len(pages) - 1) + 1
      BY <1>2, <2>1, PageCompletes
    <3>2. \A k \in 0 .. Len(file) : Completed(given, pages, k) = Completed(given, file, k)
      <4> TAKE k \in 0 .. Len(file)
      <4>1. k = 0 \/ k \in 1 .. Len(file)
        BY <1>2
      <4> QED
        BY <1>2, <4>1 DEF Completed
    <3>3. CASE j \in 0 .. Len(file)
      <4>1. i \in 0 .. Len(file)
        BY <1>2, <3>3
      <4> QED
        BY <1>0, <3>2, <3>3, <4>1 DEF PaceInv
    <3>4. CASE j = Len(file) + 1 /\ i = j
      BY <3>1, <3>4
    <3>5. CASE j = Len(file) + 1 /\ i # j
      <4>1. i \in 0 .. Len(file) /\ Len(file) \in 0 .. Len(file) /\ i <= Len(file)
        BY <1>2, <3>5
      <4>2. Completed(given, file, Len(file)) - Completed(given, file, i) <= Len(file) - i
        BY <1>0, <4>1 DEF PaceInv
      <4>3. Completed(given, pages, j) <= Completed(given, pages, Len(file)) + 1
        BY <1>2, <3>1, <3>5
      <4>4. /\ Completed(given, pages, i) \in Nat /\ Completed(given, pages, j) \in Nat
            /\ Completed(given, pages, Len(file)) \in Nat
        BY <1>2, <3>1, <4>1
      <4>5. Completed(given, pages, Len(file)) - Completed(given, pages, i) <= Len(file) - i
        BY <3>2, <4>1, <4>2
      <4> QED
        BY <1>2, <3>5, <4>1, <4>3, <4>4, <4>5
    <3> QED
      BY <1>2, <3>3, <3>4, <3>5
  <2>5. BufferedInv'
    <3>1. flushed' \in 0 .. Len(pages)
      BY <1>0, <1>2, <1>7 DEF BufferedInv
    <3> QED
      BY <1>0, <1>7, <3>1 DEF BufferedInv
  <2> QED
    BY <1>7, <2>2, <2>3, <2>4, <2>5 DEF FileInv, ClosedInv
<1>8. CASE /\ \E kept \in flushed .. Len(file) : file' \in LostAfter(pages, kept)
           /\ flushed' = Len(file')
           /\ failed' = TRUE
  <2>1. PICK kept \in flushed .. Len(file) : file' \in LostAfter(pages, kept)
    BY <1>8
  <2>2. kept \in 0 .. Len(pages) - 1 /\ Len(pages) \in Nat
    BY <1>0, <1>2 DEF BufferedInv
  <2>3. /\ Chained(given, file') /\ Len(file') \in kept .. kept + 1 /\ Len(file') <= Len(pages)
        /\ \A i \in 1 .. Len(file') : file'[i].page = pages[i].page
    BY <1>2, <2>1, <2>2, PagesLost
  <2>4. Len(file') \in Nat /\ \A i \in 1 .. Len(file') : i \in 1 .. Len(pages)
    BY <2>2, <2>3
  <2>5. PagesInv'
    BY <1>8, <2>3 DEF PagesInv, Chained
  <2>6. CursorInv'
    BY <1>0, <1>6, <1>8, <2>3, <2>4 DEF CursorInv
  <2>7. BufferedInv'
    BY <1>0, <1>8, <2>4 DEF BufferedInv
  <2> QED
    BY <1>8, <2>5, <2>6, <2>7 DEF FileInv, PaceInv, ClosedInv
<1> QED
  BY <1>1, <1>7, <1>8

LEMMA FileInit == Init => FileInv
<1> SUFFICES ASSUME Init PROVE FileInv
  OBVIOUS
<1>1. file = << >> /\ pc = "new" /\ os = NewEncoder /\ << >> \in Seq(Chunk) /\ Len(<< >>) = 0
  BY DEF Init
<1>2. os.pageno = 0
  BY <1>1 DEF NewEncoder
<1>3. PaceInv
  <2>1. \A i, j \in 0 .. Len(file) : i = 0 /\ j = 0
    BY <1>1
  <2>2. Completed(given, file, 0) = 0
    BY DEF Completed
  <2> QED
    BY <2>1, <2>2 DEF PaceInv
<1>4. BufferedInv
  <2>1. flushed = 0 /\ closeFailed = FALSE
    BY DEF Init
  <2>2. BufferPages \in Nat
    BY RecorderAssumption
  <2>3. flushed \in 0 .. Len(file) /\ Len(file) - flushed <= BufferPages
    BY <1>1, <2>1, <2>2
  <2> QED
    BY <2>1, <2>3 DEF BufferedInv
<1> QED
  BY <1>1, <1>2, <1>3, <1>4 DEF FileInv, PagesInv, CursorInv, ClosedInv, BufferedInv, Init

(* A packet goes into the empty buffer: the place of the next page was its  *)
(* beginning already.                                                       *)
LEMMA GiveStep ==
    ASSUME RecorderInv, RecorderInv', FileInv, pc # "closed", pc' # "closed", os.lacing = << >>,
           NEW packet, GivePacket(packet), UNCHANGED <<fileVars, failed, closeFailed>>
    PROVE  FileInv'
<1>1. /\ os' = PacketIn(os, packet) /\ given' = Append(given, packet) /\ op' = packet
      /\ given \in Seq(PacketType) /\ Len(given) \in Nat /\ os \in Encoder
      /\ packet \in PacketType /\ BufferInv /\ GivenInv /\ GivenInv'
  <2>1. os' = PacketIn(os, packet) /\ given' = Append(given, packet) /\ op' = packet
    BY DEF GivePacket
  <2>2. BufferInv /\ GivenInv /\ GivenInv' /\ os \in Encoder /\ op' \in PacketType
    BY DEF RecorderInv, TypesInv
  <2> QED
    BY <2>1, <2>2 DEF GivenInv
<1>2. /\ given' \in Seq(PacketType) /\ Len(given') = Len(given) + 1
      /\ given'[Len(given')] = packet
      /\ \A q \in 1 .. Len(given) : given'[q] = given[q]
  BY <1>1
<1>3. packet.segments \in Nat \ {0}
  <2>1. Len(given') \in 1 .. Len(given')
    BY <1>1, <1>2
  <2>2. given'[Len(given')].segments > 0
    BY <1>1, <2>1 DEF GivenInv
  <2>3. packet.segments \in Nat
    BY <1>1 DEF PacketType
  <2> QED
    BY <1>2, <2>2, <2>3
<1>4. os'.lacing = os.lacing \o Lacing(os, packet) /\ os'.pageno = os.pageno
  BY <1>1 DEF PacketIn, Encoder
<1>5. os'.lacing # << >> /\ Len(os'.lacing) = packet.segments
  <2> DEFINE lacing == Lacing(os, packet)
             range == {lacing[i] : i \in 1 .. packet.segments}
             n == packet.segments
  <2>1. lacing \in Seq(range) /\ Len(lacing) = packet.segments
    <3>1. DOMAIN lacing = 1 .. n /\ lacing = [i \in 1 .. n |-> lacing[i]]
      BY DEF Lacing
    <3> HIDE DEF lacing, n
    <3>2. lacing \in Seq({lacing[i] : i \in 1 .. n}) /\ Len(lacing) = n
      BY <1>3, <3>1 DEF n
    <3> QED
      BY <3>2 DEF n
  <2> HIDE DEF lacing, range
  <2>2. << >> \o lacing = lacing
    BY <2>1
  <2>3. os'.lacing = lacing
    BY <1>4, <2>2 DEF lacing
  <2>4. Len(lacing) # 0
    BY <1>3, <2>1
  <2> QED
    BY <2>1, <2>3, <2>4, EmptyLength
<1>6. NextPacket = Len(given) + 1 /\ NextPart = 1
  BY DEF NextPacket, NextPart
<1>7. NextPacket' = Len(given) + 1 /\ NextPart' = 1
  <2>1. NextPacket' = Len(given')
    BY <1>5 DEF NextPacket
  <2>2. NextPart' = packet.segments - Len(os'.lacing) + 1
    BY <1>2, <1>5 DEF NextPart
  <2>3. packet.segments - packet.segments + 1 = 1
    BY <1>3
  <2> QED
    BY <1>2, <1>5, <2>1, <2>2, <2>3
<1>8. ASSUME NEW i \in 1 .. Len(file)
      PROVE  /\ PageInv(given', file[i].page)
             /\ Ends(given', file[i].page) <=> Ends(given, file[i].page)
             /\ \A pageno, q, j : After(given', file[i].page, pageno, q, j) <=>
                                  After(given, file[i].page, pageno, q, j)
  <2>1. PageInv(given, file[i].page)
    BY DEF FileInv, PagesInv
  <2>2. Len(given') \in Nat /\ Len(given) <= Len(given')
    BY <1>1, <1>2
  <2> QED
    BY <1>1, <1>2, <2>1, <2>2, PageKept
<1>9. PagesInv'
  BY <1>8 DEF FileInv, PagesInv, fileVars
<1>10. CursorInv'
  BY <1>4, <1>6, <1>7, <1>8 DEF FileInv, CursorInv, fileVars
<1>11. PaceInv'
  <2>1. Len(file) \in Nat
    BY DEF FileInv, PagesInv
  <2>2. \A k \in 0 .. Len(file) : Completed(given', file, k) = Completed(given, file, k)
    <3> TAKE k \in 0 .. Len(file)
    <3>1. k = 0 \/ k \in 1 .. Len(file)
      BY <2>1
    <3> QED
      BY <1>8, <3>1 DEF Completed
  <2> QED
    BY <2>2 DEF FileInv, PaceInv, fileVars
<1>12. BufferedInv'
  BY DEF FileInv, BufferedInv, fileVars
<1> QED
  BY <1>9, <1>10, <1>11, <1>12 DEF FileInv, ClosedInv

LEMMA FileKept ==
    ASSUME FileInv, pc # "closed", pc' # "closed",
           UNCHANGED <<os, given, fileVars, closeFailed>>,
           UNCHANGED failed \/ failed' = TRUE
    PROVE  FileInv'
<1>1. UNCHANGED <<NextPacket, NextPart>>
  BY DEF NextPacket, NextPart
<1>2. PagesInv'
  BY DEF FileInv, PagesInv, fileVars
<1>3. CursorInv'
  BY <1>1 DEF FileInv, CursorInv, fileVars
<1>4. PaceInv' /\ BufferedInv'
  BY DEF FileInv, PaceInv, BufferedInv, fileVars
<1> QED
  BY <1>2, <1>3, <1>4 DEF FileInv, ClosedInv

(* A recording is closed, and may lose the pages that are still buffered.   *)
LEMMA StopStep == ASSUME RecorderInv, FileInv, StopRecord PROVE FileInv'
<1> DEFINE n == Len(file)
<1>1. /\ pc = "idle" /\ pc' = "closed" /\ UNCHANGED <<given, failed>> /\ flushed' = Len(file')
      /\ \/ UNCHANGED <<file, closeFailed>>
         \/ /\ \E kept \in flushed .. n - 1 : file' \in LostAfter(file, kept)
            /\ closeFailed' = TRUE
  BY DEF StopRecord
<1>2. /\ PagesInv /\ PaceInv /\ BufferedInv /\ ~closeFailed /\ n \in Nat /\ Len(given) \in Nat
      /\ BufferPages \in Nat \ {0} /\ file \in Seq(Chunk)
  BY <1>1, RecorderAssumption DEF FileInv, CursorInv, PagesInv, RecorderInv, GivenInv
<1>3. ~failed => \A i \in 1 .. n : file[i].missing = 0 /\ file[i].page.pageno = i - 1
  BY <1>2 DEF PagesInv
<1>4. ASSUME ~failed PROVE Completed(given, file, n) = Len(given)
  <2>1. BufferInv /\ TimesInv /\ os.lacing = << >> /\ given # << >> /\ os.pageno # 0
    BY <1>1, <1>4 DEF RecorderInv, TimesInv, BufferInv
  <2>2. /\ os.pageno = n /\ n \in Nat \ {0}
        /\ NextPacket = Len(given) + 1 /\ NextPart = 1
    BY <1>1, <1>2, <1>4, <2>1 DEF FileInv, CursorInv, NextPacket, NextPart
  <2> DEFINE page == file[n].page
  <2>3. n \in 1 .. n
    BY <2>2
  <2>4. /\ PageInv(given, page) /\ page.pageno = n - 1
        /\ After(given, page, n, Len(given) + 1, 1)
    BY <1>1, <1>3, <1>4, <2>2, <2>3 DEF FileInv, PagesInv, CursorInv
  <2>5. PageLast(page) \in Nat \ {0} /\ PagePacket(page) \in Nat
    BY <2>4, PageNumbers
  <2>6. Completed(given, file, n) = IF Ends(given, page) THEN PagePacket(page)
                                    ELSE PagePacket(page) - 1
    BY <2>2 DEF Completed
  <2> HIDE DEF page, n
  <2>7. NextAfter(given, page, Len(given) + 1, 1)
    <3>1. n = page.pageno + 1
      BY <2>2, <2>4
    <3> QED
      BY <2>4, <3>1 DEF After
  <2>8. Ends(given, page) /\ Len(given) + 1 = PagePacket(page) + 1
    <3>1. \A l \in Nat \ {0} : 1 # l + 1
      OBVIOUS
    <3> QED
      BY <2>5, <2>7, <3>1 DEF NextAfter
  <2> QED
    BY <1>2, <2>5, <2>6, <2>8
<1>5. CASE UNCHANGED <<file, closeFailed>>
  <2>1. PagesInv'
    BY <1>1, <1>2, <1>5 DEF PagesInv
  <2>2. ASSUME ~failed PROVE WholePages(file) = n
    BY <1>2, <1>3, <2>2 DEF WholePages
  <2>3. ClosedInv'
    BY <1>1, <1>2, <1>4, <1>5, <2>2 DEF ClosedInv, LostAtClose
  <2>4. BufferedInv'
    BY <1>1, <1>2, <1>5 DEF BufferedInv
  <2> QED
    BY <1>1, <2>1, <2>3, <2>4 DEF FileInv, CursorInv, PaceInv
<1>6. CASE /\ \E kept \in flushed .. n - 1 : file' \in LostAfter(file, kept)
           /\ closeFailed' = TRUE
  <2>1. PICK kept \in flushed .. n - 1 : file' \in LostAfter(file, kept)
    BY <1>6
  <2>2. kept \in 0 .. n - 1 /\ kept \in Nat /\ n - kept <= BufferPages
    BY <1>2, <2>1 DEF BufferedInv
  <2>3. Chained(given, file)
    BY <1>2 DEF Chained, PagesInv
  <2>4. /\ Chained(given, file') /\ Len(file') \in kept .. kept + 1 /\ Len(file') <= n
        /\ \A i \in 1 .. Len(file') : file'[i].page = file[i].page
        /\ \A i \in 1 .. kept : file'[i] = file[i]
        /\ Len(file') = kept + 1 => file'[kept + 1].missing # 0
    <3>1. kept \in 0 .. Len(file) - 1 /\ Len(file) \in Nat
      BY <1>2, <2>2
    <3> QED
      BY <2>1, <2>3, <3>1, PagesLost
  <2> HIDE DEF n
  <2>5. Len(file') \in Nat /\ \A i \in 1 .. Len(file') : i \in 1 .. n
    BY <1>2, <2>2, <2>4
  <2>6. PagesInv'
    <3>1. ASSUME ~failed, NEW i \in 1 .. Len(file')
          PROVE  /\ file'[i].page.pageno = i - 1
                 /\ file'[i].missing = 0 \/ i = Len(file')
      <4>1. file'[i].page.pageno = i - 1
        BY <1>3, <2>4, <2>5, <3>1
      <4>2. i \in 1 .. kept \/ i = Len(file')
        BY <2>2, <2>4, <2>5
      <4>3. i \in 1 .. kept => file'[i].missing = 0
        BY <1>3, <2>4, <2>5, <3>1
      <4> QED
        BY <4>1, <4>2, <4>3
    <3> QED
      BY <1>1, <1>6, <2>4, <3>1 DEF PagesInv, Chained
  <2>7. ASSUME ~failed PROVE Len(given) - Completed(given, file', WholePages(file')) <= BufferPages
    <3>1. WholePages(file') = kept
      <4>1. CASE Len(file') = kept
        <5>1. Len(file') > 0 => file'[Len(file')].missing = 0
          <6> SUFFICES ASSUME Len(file') > 0 PROVE file'[Len(file')].missing = 0
            OBVIOUS
          <6>1. kept \in 1 .. kept /\ kept \in 1 .. n
            BY <2>2, <2>5, <4>1
          <6> QED
            BY <1>3, <2>4, <2>7, <4>1, <6>1
        <5> QED
          BY <4>1, <5>1 DEF WholePages
      <4>2. CASE Len(file') = kept + 1
        BY <2>2, <2>4, <4>2 DEF WholePages
      <4> QED
        BY <2>2, <2>4, <4>1, <4>2
    <3>2. Completed(given, file', kept) = Completed(given, file, kept)
      <4>1. kept = 0 \/ kept \in 1 .. Len(file')
        BY <2>2, <2>4
      <4> QED
        BY <2>4, <4>1 DEF Completed
    <3>3. Completed(given, file, n) - Completed(given, file, kept) <= n - kept
      <4>1. kept \in 0 .. Len(file) /\ Len(file) \in 0 .. Len(file) /\ kept <= Len(file)
        BY <1>2, <2>2 DEF n
      <4> QED
        BY <1>1, <1>2, <2>7, <4>1 DEF PaceInv, n
    <3>4. Completed(given, file, kept) \in Int
      <4>1. kept = 0 \/ kept \in 1 .. n
        BY <1>2, <2>2
      <4>2. kept \in 1 .. n => PagePacket(file[kept].page) \in Nat
        BY <1>2, PageNumbers DEF PagesInv, n
      <4> QED
        BY <4>1, <4>2 DEF Completed
    <3> QED
      BY <1>2, <1>4, <2>2, <2>7, <3>1, <3>2, <3>3, <3>4
  <2>8. ClosedInv'
    BY <1>1, <1>6, <2>7 DEF ClosedInv, LostAtClose
  <2>9. BufferedInv'
    BY <1>1, <1>2, <1>6, <2>5 DEF BufferedInv
  <2> QED
    BY <1>1, <2>6, <2>8, <2>9 DEF FileInv, CursorInv, PaceInv
<1> QED
  BY <1>1, <1>5, <1>6

LEMMA FileStep == RecorderInv /\ RecorderInv' /\ FileInv /\ [Next]_vars => FileInv'
<1> SUFFICES ASSUME RecorderInv, RecorderInv', FileInv, [Next]_vars PROVE FileInv'
  OBVIOUS
<1>0. /\ GivenInv /\ os \in Encoder /\ failed \in BOOLEAN
      /\ pc # "closed" => BufferInv /\ TimesInv
  BY DEF RecorderInv, TypesInv
<1>1. CASE InitRecorder
  <2>1. os.lacing = << >>
    BY <1>0, <1>1 DEF InitRecorder, TimesInv, BufferInv
  <2> QED
    BY <1>1, <2>1, GiveStep DEF InitRecorder
<1>2. CASE WriteHeader
  BY <1>0, <1>2, WritePageStep DEF WriteHeader
<1>3. CASE GiveComments
  BY <1>3, GiveStep DEF GiveComments, Flushable
<1>4. CASE GiveFrame
  <2>1. os.lacing = << >>
    BY <1>4, EmptyBeforeGiving DEF GiveFrame
  <2> QED
    BY <1>4, <2>1, GiveStep DEF GiveFrame
<1>5. CASE FlushBefore \/ FlushAfter
  <2>1. Flushable(os) /\ WritePage("idle") /\ pc # "closed" /\ UNCHANGED <<given, closeFailed>>
    BY <1>5 DEF FlushBefore, FlushAfter, FlushesBefore, PageAfter, PageDue, FlushPage
  <2> QED
    BY <1>0, <2>1, WritePageStep
<1>6. CASE \/ Started \/ WriteEmptyFrame \/ FrameWritten
           \/ \E n \in 1 .. FrameSize, size \in FrameSegments : WriteFrame(n, size)
           \/ \E n \in 1 .. FrameSize : EncodingFails(n)
  <2>1. /\ pc # "closed" /\ pc' # "closed" /\ UNCHANGED <<os, given, fileVars, closeFailed>>
        /\ UNCHANGED failed \/ failed' = TRUE
    BY <1>6 DEF Started, WriteEmptyFrame, FrameWritten, WriteFrame, EncodingFails, BeginFrame,
                historyVars
  <2> QED
    BY <2>1, FileKept
<1>7. CASE StopRecord
  BY <1>7, StopStep
<1>8. CASE UNCHANGED <<pc, os, given, fileVars, failed, closeFailed>>
  <2>1. UNCHANGED <<NextPacket, NextPart>>
    BY <1>8 DEF NextPacket, NextPart
  <2> QED
    BY <1>8, <2>1 DEF FileInv, PagesInv, CursorInv, PaceInv, BufferedInv, ClosedInv, LostAtClose,
                      fileVars
<1>9. CASE ReadPage \/ SkipPage \/ ReadPacket \/ UNCHANGED vars
  BY <1>8, <1>9 DEF ReadPage, SkipPage, ReadPacket, vars, historyVars
<1> QED
  BY <1>1, <1>2, <1>3, <1>4, <1>5, <1>6, <1>7, <1>9 DEF Next
-----------------------------------------------------------------------------
(* The reader. *)

SegmentRead == [packet : Nat, part : Nat, last : BOOLEAN, granulepos : Int, e_o_s : BOOLEAN]
Decoder == [lacing : Seq(SegmentRead), whole : Nat, pageno : Int]

(* Place i of the segments is inside a packet, of which all is there up to  *)
(* that place.                                                              *)
InPacket(lacing, i) ==
    LET q == lacing[i].packet
        part == lacing[i].part
    IN  /\ q \in 1 .. Len(given) /\ part \in 1 .. i /\ part <= given[q].segments
        /\ lacing[i].last <=> part = given[q].segments
        /\ lacing[i].last => /\ lacing[i].granulepos = given[q].granulepos
                             /\ lacing[i].e_o_s = given[q].e_o_s
        /\ \A j \in 1 .. part : /\ lacing[i - part + j].packet = q
                                /\ lacing[i - part + j].part = j

(* The first n segments are whole packets and gaps.                         *)
Framed(lacing, n) ==
    /\ n > 0 => lacing[n].last
    /\ \A i \in 1 .. n :
           /\ IsGap(lacing[i]) => lacing[i].last
           /\ i > 1 /\ (IsGap(lacing[i]) \/ lacing[i].part = 1) => lacing[i - 1].last
           /\ ~IsGap(lacing[i]) => InPacket(lacing, i)

WholePacket(segments) ==
    LET q == segments[1].packet
        size == Len(segments)
    IN  /\ q \in 1 .. Len(given) /\ size = given[q].segments
        /\ \A j \in 1 .. size : segments[j].packet = q /\ segments[j].part = j
        /\ segments[size].granulepos = given[q].granulepos
        /\ segments[size].e_o_s = given[q].e_o_s

(* One packet after another: the next one, or a later one across a gap.     *)
Follows(packet, next, adjacent) ==
    IF adjacent THEN next = packet + 1 ELSE next > packet + 1

IsStart(segment) == ~IsGap(segment) /\ segment.part = 1
IsEnd(segment) == ~IsGap(segment) /\ segment.last
IsPacket(segments) == ~IsGap(segments[1])

ReadsFollow(got) ==
    \A r, t \in 1 .. Len(got) : r < t /\ IsPacket(got[r]) /\ IsPacket(got[t]) =>
        Follows(got[r][1].packet, got[t][1].packet, t = r + 1)

(* What was got, the first n segments and then packet `next'.               *)
Linked(got, lacing, n, next) ==
    /\ \A r \in 1 .. Len(got) : IsPacket(got[r]) =>
           /\ Follows(got[r][1].packet, next, r = Len(got) /\ n = 0)
           /\ \A j \in 1 .. n : IsStart(lacing[j]) =>
                  Follows(got[r][1].packet, lacing[j].packet, r = Len(got) /\ j = 1)
    /\ \A i \in 1 .. n : IsEnd(lacing[i]) =>
           /\ Follows(lacing[i].packet, next, i = n)
           /\ \A j \in i + 1 .. n : IsStart(lacing[j]) =>
                  Follows(lacing[i].packet, lacing[j].packet, j = i + 1)

InProgress(dec) == Len(dec.lacing) > dec.whole
NextRead(dec, page) == IF InProgress(dec) THEN PagePacket(page) ELSE PagePacket(page) + 1
EndsLost(got, lacing) ==
    IF lacing = <<>> THEN got = <<>> \/ IsGap(got[Len(got)][1]) ELSE Last(lacing) = Gap

(* The reader has what there is up to this page.                            *)
ReadTo(dec, got, page) ==
    /\ dec.pageno = page.pageno + 1
    /\ Linked(got, dec.lacing, dec.whole, NextRead(dec, page))
    /\ InProgress(dec) =>
           /\ ~Ends(given, page) /\ Len(dec.lacing) = dec.whole + PageLast(page)
           /\ \A j \in 1 .. PageLast(page) :
                  IsPart(dec.lacing[dec.whole + j], PagePacket(page), j)
    /\ ~InProgress(dec) => Ends(given, page) \/ EndsLost(got, dec.lacing)

NothingLost(dec, got, page) ==
    /\ \A i \in 1 .. dec.whole : ~IsGap(dec.lacing[i])
    /\ dec.whole > 0 => dec.lacing[1].packet = Len(got) + 1
    /\ dec.whole = 0 => NextRead(dec, page) = Len(got) + 1

ReadsInv ==
    /\ reads \in Seq(Seq(SegmentRead))
    /\ \A r \in 1 .. Len(reads) : IsPacket(reads[r]) => WholePacket(reads[r])
    /\ ReadsFollow(reads)
    /\ ~failed => \A r \in 1 .. Len(reads) : IsPacket(reads[r]) /\ reads[r][1].packet = r

DecoderInv ==
    /\ rs \in Decoder /\ rs.whole <= Len(rs.lacing)
    /\ position \in 1 .. Len(file) + 1
    /\ ~failed => position <= WholePages(file) + 1
    /\ Framed(rs.lacing, rs.whole)
    /\ \/ rs = NewDecoder /\ reads = <<>> /\ (~failed => position = 1)
       \/ \E x \in 1 .. position - 1 :
              /\ ReadTo(rs, reads, file[x].page)
              /\ ~failed => x = position - 1 /\ NothingLost(rs, reads, file[x].page)

ReaderInv ==
    /\ ReadsInv /\ DecoderInv
    /\ pc # "closed" => rs = NewDecoder /\ reads = <<>> /\ position = 1
(* Segments that differ only in what marks the end of the stream on a gap. *)
Alike(s, t) ==
    /\ s.packet = t.packet /\ s.part = t.part /\ s.last = t.last /\ s.granulepos = t.granulepos
    /\ ~IsGap(s) => s.e_o_s = t.e_o_s

LEMMA AlikeFramed ==
    ASSUME NEW a, NEW b, NEW n \in Nat, \A i \in 1 .. n : Alike(a[i], b[i]),
           GivenInv, Framed(a, n)
    PROVE  Framed(b, n)
<1>1. n > 0 => b[n].last
  <2>1. n > 0 => n \in 1 .. n
    OBVIOUS
  <2> QED
    BY <2>1 DEF Framed, Alike
<1>2. ASSUME NEW i \in 1 .. n
      PROVE  /\ IsGap(b[i]) => b[i].last
             /\ i > 1 /\ (IsGap(b[i]) \/ b[i].part = 1) => b[i - 1].last
  <2>1. i > 1 => i - 1 \in 1 .. n
    OBVIOUS
  <2> QED
    BY <2>1 DEF Framed, Alike, IsGap
<1>3. ASSUME NEW i \in 1 .. n, ~IsGap(b[i])
      PROVE  InPacket(b, i)
  <2> DEFINE q == a[i].packet
             part == a[i].part
  <2>1. ~IsGap(a[i]) /\ InPacket(a, i) /\ Alike(a[i], b[i])
    BY <1>3 DEF Framed, Alike, IsGap
  <2>2. b[i].packet = q /\ b[i].part = part /\ q \in 1 .. Len(given) /\ part \in 1 .. i
    BY <2>1 DEF Alike, InPacket
  <2>3. \A j \in 1 .. part : i - part + j \in 1 .. n
    BY <2>2
  <2>4. \A j \in 1 .. part : b[i - part + j].packet = q /\ b[i - part + j].part = j
    BY <2>1, <2>3 DEF Alike, InPacket
  <2>5. /\ part <= given[q].segments
        /\ b[i].last <=> part = given[q].segments
        /\ b[i].last => b[i].granulepos = given[q].granulepos /\ b[i].e_o_s = given[q].e_o_s
    BY <2>1 DEF Alike, InPacket
  <2> HIDE DEF q, part
  <2> QED
    BY <2>2, <2>4, <2>5 DEF InPacket
<1> QED
  BY <1>1, <1>2, <1>3 DEF Framed

LEMMA AlikeLinked ==
    ASSUME NEW a, NEW b, NEW n \in Nat, \A i \in 1 .. n : Alike(a[i], b[i]),
           NEW got, NEW next, Linked(got, a, n, next)
    PROVE  Linked(got, b, n, next)
<1>1. \A i \in 1 .. n : /\ IsStart(b[i]) <=> IsStart(a[i])
                        /\ IsEnd(b[i]) <=> IsEnd(a[i])
                        /\ b[i].packet = a[i].packet
  BY DEF Alike, IsStart, IsEnd, IsGap
<1>2. \A i \in 1 .. n : \A j \in i + 1 .. n : j \in 1 .. n
  OBVIOUS
<1> QED
  BY <1>1, <1>2 DEF Linked

(* After whole packets and gaps, another packet. *)
LEMMA PacketFramed ==
    ASSUME NEW lacing, NEW n \in Nat, GivenInv, Framed(lacing, n),
           NEW q \in 1 .. Len(given), NEW k \in Nat \ {0}, k = given[q].segments,
           \A j \in 1 .. k : IsPart(lacing[n + j], q, j),
           lacing[n + k].granulepos = given[q].granulepos,
           lacing[n + k].e_o_s = given[q].e_o_s
    PROVE  Framed(lacing, n + k)
<1>1. n + k > 0 /\ k \in 1 .. k /\ q # 0
  BY DEF GivenInv
<1>2. lacing[n + k].last
  BY <1>1 DEF IsPart
<1>3. \A i \in 1 .. n + k : i \in 1 .. n \/ \E j \in 1 .. k : i = n + j
  <2> SUFFICES ASSUME NEW i \in 1 .. n + k, i \notin 1 .. n PROVE \E j \in 1 .. k : i = n + j
    OBVIOUS
  <2>1. i - n \in 1 .. k /\ i = n + (i - n)
    OBVIOUS
  <2> QED
    BY <2>1
<1>4. ASSUME NEW j \in 1 .. k
      PROVE  /\ ~IsGap(lacing[n + j])
             /\ n + j > 1 /\ lacing[n + j].part = 1 => lacing[n + j - 1].last
             /\ InPacket(lacing, n + j)
  <2>1. /\ lacing[n + j].packet = q /\ lacing[n + j].part = j
        /\ lacing[n + j].last <=> j = k
    BY DEF IsPart
  <2>2. ~IsGap(lacing[n + j])
    BY <1>1, <2>1 DEF IsGap
  <2>3. ASSUME n + j > 1, lacing[n + j].part = 1 PROVE lacing[n + j - 1].last
    <3>1. j = 1 /\ n + j - 1 = n /\ n > 0
      BY <2>1, <2>3
    <3> QED
      BY <3>1 DEF Framed
  <2>4. \A l \in 1 .. j : n + j - j + l = n + l /\ l \in 1 .. k
    OBVIOUS
  <2>5. \A l \in 1 .. j : lacing[n + j - j + l].packet = q /\ lacing[n + j - j + l].part = l
    BY <2>4 DEF IsPart
  <2>6. j \in 1 .. n + j /\ j <= k
    OBVIOUS
  <2>7. lacing[n + j].last => /\ lacing[n + j].granulepos = given[q].granulepos
                              /\ lacing[n + j].e_o_s = given[q].e_o_s
    BY <2>1
  <2> QED
    BY <2>1, <2>2, <2>3, <2>5, <2>6, <2>7 DEF InPacket
<1>5. ASSUME NEW i \in 1 .. n + k
      PROVE  /\ IsGap(lacing[i]) => lacing[i].last
             /\ i > 1 /\ (IsGap(lacing[i]) \/ lacing[i].part = 1) => lacing[i - 1].last
             /\ ~IsGap(lacing[i]) => InPacket(lacing, i)
  <2>1. CASE i \in 1 .. n
    BY <2>1 DEF Framed
  <2>2. CASE \E j \in 1 .. k : i = n + j
    <3>1. PICK j \in 1 .. k : i = n + j
      BY <2>2
    <3> QED
      BY <1>4, <3>1
  <2> QED
    BY <1>3, <2>1, <2>2
<1> QED
  BY <1>1, <1>2, <1>5 DEF Framed

LEMMA FramedPackets ==
    ASSUME NEW lacing, NEW n \in Nat, GivenInv, Framed(lacing, n)
    PROVE  \A i \in 1 .. n : ~IsGap(lacing[i]) => lacing[i].packet \in Nat \ {0}
  BY DEF Framed, InPacket, GivenInv

LEMMA ReadPackets ==
    ASSUME GivenInv, NEW got, \A r \in 1 .. Len(got) : IsPacket(got[r]) => WholePacket(got[r])
    PROVE  \A r \in 1 .. Len(got) : IsPacket(got[r]) => got[r][1].packet \in Nat \ {0}
  BY DEF WholePacket, GivenInv

LEMMA PacketLinked ==
    ASSUME NEW lacing, NEW n \in Nat, GivenInv, Framed(lacing, n), NEW got,
           \A r \in 1 .. Len(got) : IsPacket(got[r]) => WholePacket(got[r]),
           NEW q \in 1 .. Len(given), NEW k \in Nat \ {0}, k = given[q].segments,
           \A j \in 1 .. k : IsPart(lacing[n + j], q, j),
           Linked(got, lacing, n, q)
    PROVE  Linked(got, lacing, n + k, q + 1)
<1>1. q \in Nat \ {0} /\ n + k # 0
  BY DEF GivenInv
<1>2. \A i \in 1 .. n + k : i \in 1 .. n \/ \E j \in 1 .. k : i = n + j
  <2> SUFFICES ASSUME NEW i \in 1 .. n + k, i \notin 1 .. n PROVE \E j \in 1 .. k : i = n + j
    OBVIOUS
  <2>1. i - n \in 1 .. k /\ i = n + (i - n)
    OBVIOUS
  <2> QED
    BY <2>1
<1>3. \A i \in 1 .. n + k : /\ i \notin 1 .. n /\ IsStart(lacing[i]) => i = n + 1
                            /\ i \notin 1 .. n /\ IsEnd(lacing[i]) => i = n + k
                            /\ i \notin 1 .. n => lacing[i].packet = q
  <2> SUFFICES ASSUME NEW i \in 1 .. n + k, i \notin 1 .. n
               PROVE  /\ IsStart(lacing[i]) => i = n + 1
                      /\ IsEnd(lacing[i]) => i = n + k
                      /\ lacing[i].packet = q
    OBVIOUS
  <2>1. PICK j \in 1 .. k : i = n + j
    BY <1>2
  <2>2. lacing[i].packet = q /\ lacing[i].part = j /\ (lacing[i].last <=> j = k)
    BY <2>1 DEF IsPart
  <2> QED
    BY <2>1, <2>2 DEF IsStart, IsEnd
<1>4. \A p \in Nat, adjacent \in BOOLEAN : Follows(p, q, adjacent) => q + 1 > p + 1
  BY <1>1 DEF Follows
<1>5. ASSUME NEW r \in 1 .. Len(got), IsPacket(got[r])
      PROVE  /\ Follows(got[r][1].packet, q + 1, r = Len(got) /\ n + k = 0)
             /\ \A j \in 1 .. n + k : IsStart(lacing[j]) =>
                    Follows(got[r][1].packet, lacing[j].packet, r = Len(got) /\ j = 1)
  <2>1. got[r][1].packet \in Nat
    BY <1>5, ReadPackets
  <2>2. Follows(got[r][1].packet, q, r = Len(got) /\ n = 0)
    BY <1>5 DEF Linked
  <2>3. q + 1 > got[r][1].packet + 1
    BY <1>4, <2>1, <2>2
  <2>4. Follows(got[r][1].packet, q + 1, r = Len(got) /\ n + k = 0)
    BY <1>1, <2>3 DEF Follows
  <2>5. ASSUME NEW j \in 1 .. n + k, IsStart(lacing[j])
        PROVE  Follows(got[r][1].packet, lacing[j].packet, r = Len(got) /\ j = 1)
    <3>1. CASE j \in 1 .. n
      BY <1>5, <2>5, <3>1 DEF Linked
    <3>2. CASE j \notin 1 .. n
      <4>1. j = n + 1 /\ lacing[j].packet = q /\ (j = 1 <=> n = 0)
        BY <1>3, <2>5, <3>2
      <4> QED
        BY <2>2, <4>1
    <3> QED
      BY <3>1, <3>2
  <2> QED
    BY <2>4, <2>5
<1>6. ASSUME NEW i \in 1 .. n + k, IsEnd(lacing[i])
      PROVE  /\ Follows(lacing[i].packet, q + 1, i = n + k)
             /\ \A j \in i + 1 .. n + k : IsStart(lacing[j]) =>
                    Follows(lacing[i].packet, lacing[j].packet, j = i + 1)
  <2>1. CASE i \in 1 .. n
    <3>1. lacing[i].packet \in Nat /\ Follows(lacing[i].packet, q, i = n) /\ i # n + k
      BY <1>6, <2>1, FramedPackets DEF Linked, IsEnd
    <3>2. q + 1 > lacing[i].packet + 1
      BY <1>4, <3>1
    <3>3. ASSUME NEW j \in i + 1 .. n + k, IsStart(lacing[j])
          PROVE  Follows(lacing[i].packet, lacing[j].packet, j = i + 1)
      <4>1. CASE j \in 1 .. n
        <5>1. j \in i + 1 .. n
          BY <2>1, <4>1
        <5> QED
          BY <1>6, <2>1, <3>3, <5>1 DEF Linked
      <4>2. CASE j \notin 1 .. n
        <5>1. j \in 1 .. n + k
          BY <2>1
        <5>2. j = n + 1 /\ lacing[j].packet = q
          BY <1>3, <3>3, <4>2, <5>1
        <5>3. j = i + 1 <=> i = n
          BY <2>1, <5>2
        <5> QED
          BY <3>1, <5>2, <5>3
      <4> QED
        BY <4>1, <4>2
    <3> QED
      BY <3>1, <3>2, <3>3 DEF Follows
  <2>2. CASE i \notin 1 .. n
    <3>1. i = n + k /\ lacing[i].packet = q
      BY <1>3, <1>6, <2>2
    <3>2. ~ \E j \in i + 1 .. n + k : TRUE
      BY <3>1
    <3> QED
      BY <1>1, <3>1, <3>2 DEF Follows
  <2> QED
    BY <2>1, <2>2
<1> QED
  BY <1>5, <1>6 DEF Linked

(* After whole packets and gaps, a gap; what comes then is a later packet. *)
LEMMA GapFramed ==
    ASSUME NEW lacing, NEW n \in Nat, Framed(lacing, n), lacing[n + 1] = Gap
    PROVE  Framed(lacing, n + 1)
<1>1. IsGap(lacing[n + 1]) /\ lacing[n + 1].last
  BY DEF Gap, IsGap
<1>2. \A i \in 1 .. n + 1 : i \in 1 .. n \/ i = n + 1
  OBVIOUS
<1>3. n + 1 > 1 => lacing[n + 1 - 1].last
  <2>1. n + 1 - 1 = n
    OBVIOUS
  <2> QED
    BY <2>1 DEF Framed
<1> QED
  BY <1>1, <1>2, <1>3 DEF Framed

LEMMA GapLinked ==
    ASSUME NEW lacing, NEW n \in Nat, NEW got, NEW q, NEW next,
           Linked(got, lacing, n, q), lacing[n + 1] = Gap,
           \A r \in 1 .. Len(got) : IsPacket(got[r]) => next > got[r][1].packet + 1,
           \A i \in 1 .. n : IsEnd(lacing[i]) => next > lacing[i].packet + 1
    PROVE  Linked(got, lacing, n + 1, next)
<1>1. ~IsStart(lacing[n + 1]) /\ ~IsEnd(lacing[n + 1]) /\ n + 1 # 0
  BY DEF Gap, IsGap, IsStart, IsEnd
<1>2. \A i \in 1 .. n + 1 : i \in 1 .. n \/ i = n + 1
  OBVIOUS
<1>3. ASSUME NEW r \in 1 .. Len(got), IsPacket(got[r])
      PROVE  /\ Follows(got[r][1].packet, next, r = Len(got) /\ n + 1 = 0)
             /\ \A j \in 1 .. n + 1 : IsStart(lacing[j]) =>
                    Follows(got[r][1].packet, lacing[j].packet, r = Len(got) /\ j = 1)
  <2>1. Follows(got[r][1].packet, next, r = Len(got) /\ n + 1 = 0)
    BY <1>1, <1>3 DEF Follows
  <2> QED
    BY <1>1, <1>2, <1>3, <2>1 DEF Linked
<1>4. ASSUME NEW i \in 1 .. n + 1, IsEnd(lacing[i])
      PROVE  /\ Follows(lacing[i].packet, next, i = n + 1)
             /\ \A j \in i + 1 .. n + 1 : IsStart(lacing[j]) =>
                    Follows(lacing[i].packet, lacing[j].packet, j = i + 1)
  <2>1. i \in 1 .. n /\ i # n + 1
    BY <1>1, <1>2, <1>4
  <2>2. Follows(lacing[i].packet, next, i = n + 1)
    BY <1>4, <2>1 DEF Follows
  <2>3. \A j \in i + 1 .. n + 1 : j \in i + 1 .. n \/ j = n + 1
    BY <2>1
  <2> QED
    BY <1>1, <1>4, <2>1, <2>2, <2>3 DEF Linked
<1> QED
  BY <1>3, <1>4 DEF Linked
-----------------------------------------------------------------------------
(* A page that is read. *)

(* The packet that comes next, when this page does.                         *)
Expects(kept, m, page) ==
    IF Len(kept) > m \/ ~page.continued THEN PagePacket(page) ELSE PagePacket(page) + 1

(* What is kept when this page comes: m segments of whole packets, and the  *)
(* beginning of the packet that it continues, unless that one is lost.      *)
ReadyFor(kept, m, page) ==
    /\ kept \in Seq(SegmentRead) /\ m \in 0 .. Len(kept)
    /\ Framed(kept, m) /\ Linked(reads, kept, m, Expects(kept, m, page))
    /\ Len(kept) > m =>
           /\ page.continued /\ Len(kept) = m + PageFirst(page) - 1
           /\ \A j \in 1 .. PageFirst(page) - 1 : IsPart(kept[m + j], PagePacket(page), j)
    /\ Len(kept) = m /\ page.continued => EndsLost(reads, kept)
    /\ ~failed =>
           /\ Len(kept) > m \/ ~page.continued
           /\ \A i \in 1 .. m : ~IsGap(kept[i])
           /\ m > 0 => kept[1].packet = Len(reads) + 1
           /\ m = 0 => Expects(kept, m, page) = Len(reads) + 1

LEMMA ReadyFirst ==
    ASSUME NEW page, PageInv(given, page), reads = << >>, ~failed => page.pageno = 0
    PROVE  ReadyFor(<< >>, 0, page)
<1>1. << >> \in Seq(SegmentRead) /\ Len(<< >>) = 0 /\ 0 \in 0 .. 0 /\ ~(0 > 0)
  OBVIOUS
<1>2. Framed(<< >>, 0)
  BY <1>1 DEF Framed
<1>3. Linked(reads, << >>, 0, Expects(<< >>, 0, page))
  BY <1>1 DEF Linked
<1>4. EndsLost(reads, << >>)
  BY DEF EndsLost
<1>5. ~failed => ~page.continued /\ PagePacket(page) = 1
  BY DEF PageInv
<1>6. ~failed => Expects(<< >>, 0, page) = Len(reads) + 1
  <2>1. Len(reads) + 1 = 1
    BY <1>1
  <2> QED
    BY <1>5, <2>1 DEF Expects
<1> QED
  BY <1>1, <1>2, <1>3, <1>4, <1>5, <1>6 DEF ReadyFor

LEMMA ReadyInSequence ==
    ASSUME NEW old, PageInv(given, old), NEW page, PageInv(given, page),
           After(given, old, page.pageno, PagePacket(page), PageFirst(page)),
           rs \in Decoder, rs.whole <= Len(rs.lacing), Framed(rs.lacing, rs.whole), ReadsInv,
           ReadTo(rs, reads, old), ~failed => NothingLost(rs, reads, old),
           page.pageno = rs.pageno
    PROVE  ReadyFor(rs.lacing, rs.whole, page)
<1> DEFINE lacing == rs.lacing
           m == rs.whole
<1>1. lacing \in Seq(SegmentRead) /\ m \in Nat /\ Len(lacing) \in Nat /\ m <= Len(lacing)
  BY DEF Decoder
<1>2. NextAfter(given, old, PagePacket(page), PageFirst(page))
  BY DEF ReadTo, After
<1>3. /\ PageLast(old) \in Nat \ {0} /\ PagePacket(old) \in Nat
      /\ PagePacket(page) \in Nat /\ PageFirst(page) \in Nat
      /\ PagePacket(old) # 0
  <2>1. PagePacket(old) \in 1 .. Len(given)
    BY DEF PageInv
  <2>2. PageLast(old) \in Nat \ {0} /\ PagePacket(old) \in Nat
    BY PageNumbers
  <2>3. PagePacket(page) \in Nat /\ PageFirst(page) \in Nat
    BY PageNumbers
  <2> QED
    BY <2>1, <2>2, <2>3
<1>4. page.continued <=> PageFirst(page) # 1
  BY DEF PageInv
<1>5. InProgress(rs) <=> Len(lacing) > m
  BY DEF InProgress
<1>6. Linked(reads, lacing, m, NextRead(rs, old))
  BY DEF ReadTo
<1>7. CASE InProgress(rs)
  <2>1. /\ ~Ends(given, old) /\ Len(lacing) = m + PageLast(old)
        /\ \A j \in 1 .. PageLast(old) : IsPart(lacing[m + j], PagePacket(old), j)
    BY <1>7 DEF ReadTo
  <2>2. PagePacket(page) = PagePacket(old) /\ PageFirst(page) = PageLast(old) + 1
    BY <1>2, <2>1 DEF NextAfter
  <2>3. page.continued /\ PageFirst(page) - 1 = PageLast(old)
    BY <1>3, <1>4, <2>2
  <2>4. Len(lacing) = m + PageFirst(page) - 1
    BY <1>1, <1>3, <2>1, <2>2
  <2>5. Expects(lacing, m, page) = NextRead(rs, old)
    BY <1>5, <1>7, <2>2 DEF Expects, NextRead
  <2>6. Len(lacing) # m
    BY <1>1, <1>3, <2>1
  <2> QED
    BY <1>1, <1>5, <1>6, <1>7, <2>1, <2>2, <2>3, <2>4, <2>5, <2>6 DEF ReadyFor, NothingLost
<1>8. CASE ~InProgress(rs)
  <2>1. Len(lacing) = m /\ ~(Len(lacing) > m)
    BY <1>1, <1>5, <1>8
  <2>2. NextRead(rs, old) = PagePacket(old) + 1
    BY <1>8 DEF NextRead
  <2>3. CASE Ends(given, old)
    <3>1. PagePacket(page) = PagePacket(old) + 1 /\ ~page.continued
      BY <1>2, <1>4, <2>3 DEF NextAfter
    <3>2. Expects(lacing, m, page) = NextRead(rs, old)
      BY <2>2, <3>1 DEF Expects
    <3> QED
      BY <1>1, <1>6, <2>1, <3>1, <3>2 DEF ReadyFor, NothingLost
  <2>4. CASE ~Ends(given, old)
    <3>1. EndsLost(reads, lacing)
      BY <1>8, <2>4 DEF ReadTo
    <3>2. PagePacket(page) = PagePacket(old) /\ page.continued
      BY <1>2, <1>3, <1>4, <2>4 DEF NextAfter
    <3>3. Expects(lacing, m, page) = NextRead(rs, old)
      BY <2>1, <2>2, <3>2 DEF Expects
    <3>4. ASSUME ~failed PROVE FALSE
      <4>1. NothingLost(rs, reads, old) /\ \A r \in 1 .. Len(reads) : ~IsGap(reads[r][1])
        BY <3>4 DEF ReadsInv, IsPacket
      <4>2. CASE lacing = << >>
        <5>1. m = 0
          BY <1>1, <2>1, <4>2, EmptyLength
        <5>2. reads \in Seq(Seq(SegmentRead)) /\ Len(reads) \in Nat
          BY DEF ReadsInv
        <5>3. CASE reads = << >>
          <6>1. Len(reads) = 0
            BY <5>2, <5>3, EmptyLength
          <6>2. PagePacket(old) + 1 = 0 + 1
            BY <2>2, <4>1, <5>1, <6>1 DEF NothingLost
          <6> QED
            BY <1>3, <6>2
        <5>4. CASE reads # << >>
          <6>1. Len(reads) \in 1 .. Len(reads)
            BY <5>2, <5>4, EmptyLength
          <6> QED
            BY <3>1, <4>1, <4>2, <5>4, <6>1 DEF EndsLost
        <5> QED
          BY <5>3, <5>4
      <4>3. CASE lacing # << >>
        <5>1. m \in 1 .. m
          BY <1>1, <2>1, <4>3, EmptyLength
        <5>2. lacing[m] = Gap
          BY <2>1, <3>1, <4>3 DEF EndsLost, Last
        <5> QED
          BY <4>1, <5>1, <5>2 DEF NothingLost, Gap, IsGap
      <4> QED
        BY <4>2, <4>3
    <3> QED
      BY <1>1, <1>6, <2>1, <3>1, <3>3, <3>4 DEF ReadyFor
  <2> QED
    BY <2>3, <2>4
<1> QED
  BY <1>7, <1>8

LEMMA ReadyAcross ==
    ASSUME NEW old, PageInv(given, old), NEW page, PageInv(given, page), GivenInv,
           After(given, old, page.pageno, PagePacket(page), PageFirst(page)),
           rs \in Decoder, rs.whole <= Len(rs.lacing), Framed(rs.lacing, rs.whole), ReadsInv,
           ReadTo(rs, reads, old), failed, page.pageno # rs.pageno
    PROVE  LET kept == Append(SubSeq(rs.lacing, 1, rs.whole), Gap)
           IN  Len(kept) = rs.whole + 1 /\ ReadyFor(kept, rs.whole + 1, page)
<1> DEFINE lacing == rs.lacing
           n == rs.whole
           front == SubSeq(lacing, 1, n)
           kept == Append(front, Gap)
           next == NextRead(rs, old)
           m == n + 1
           expects == Expects(kept, m, page)
<1>1. /\ lacing \in Seq(SegmentRead) /\ n \in Nat /\ Len(lacing) \in Nat /\ n <= Len(lacing)
      /\ n \in 0 .. Len(lacing)
  BY DEF Decoder
<1>2. Gap \in SegmentRead
  BY DEF Gap, SegmentRead, NoGranule
<1>3. front \in Seq(SegmentRead) /\ Len(front) = n /\ \A i \in 1 .. n : front[i] = lacing[i]
  BY <1>1, FrontElements
<1> HIDE DEF front
<1>4. /\ kept \in Seq(SegmentRead) /\ Len(kept) = m /\ kept[m] = Gap
      /\ \A i \in 1 .. n : kept[i] = lacing[i]
  BY <1>1, <1>2, <1>3
<1>5. /\ PageLast(old) \in Nat \ {0} /\ PagePacket(old) \in Nat /\ PagePacket(page) \in Nat
      /\ PageFirst(page) \in Nat
  BY PageNumbers
<1>6. LaterThan(given, old, PagePacket(page), PageFirst(page))
  BY DEF ReadTo, After
<1>7. expects = IF page.continued THEN PagePacket(page) + 1 ELSE PagePacket(page)
  <2>1. ~(Len(kept) > m)
    BY <1>1, <1>4
  <2> QED
    BY <2>1 DEF Expects
<1>8. page.continued <=> PageFirst(page) # 1
  BY DEF PageInv
<1>9. next = IF InProgress(rs) THEN PagePacket(old) ELSE PagePacket(old) + 1
  BY DEF NextRead
<1>10. expects \in Nat /\ next \in Nat
  BY <1>5, <1>7, <1>9
<1> HIDE DEF kept
<1>11. Linked(reads, lacing, n, next)
  BY DEF ReadTo
<1>12. \A r \in 1 .. Len(reads) : IsPacket(reads[r]) => reads[r][1].packet \in Nat \ {0}
  BY ReadPackets DEF ReadsInv
<1>13. \A i \in 1 .. n : ~IsGap(lacing[i]) => lacing[i].packet \in Nat \ {0}
  BY <1>1, FramedPackets
<1> HIDE DEF expects, next
<1>14. /\ \A r \in 1 .. Len(reads) : IsPacket(reads[r]) => expects > reads[r][1].packet + 1
       /\ \A i \in 1 .. n : IsEnd(lacing[i]) => expects > lacing[i].packet + 1
  <2>1. CASE InProgress(rs) \/ Ends(given, old)
    <3>1. expects > next
      <4>1. CASE Ends(given, old)
        <5>1. ~InProgress(rs)
          BY <4>1 DEF ReadTo
        <5>2. PagePacket(page) > PagePacket(old)
              /\ (PageFirst(page) = 1 => PagePacket(page) > PagePacket(old) + 1)
          BY <1>6, <4>1 DEF LaterThan
        <5> QED
          BY <1>5, <1>7, <1>8, <1>9, <5>1, <5>2
      <4>2. CASE InProgress(rs) /\ ~Ends(given, old)
        <5>1. PagePacket(page) >= PagePacket(old)
              /\ (PageFirst(page) = 1 => PagePacket(page) > PagePacket(old))
          BY <1>6, <4>2 DEF LaterThan
        <5> QED
          BY <1>5, <1>7, <1>8, <1>9, <4>2, <5>1
      <4> QED
        BY <2>1, <4>1, <4>2
    <3>2. \A p \in Nat, adjacent \in BOOLEAN : Follows(p, next, adjacent) => expects > p + 1
      BY <1>10, <3>1 DEF Follows
    <3> QED
      BY <1>11, <1>12, <1>13, <3>2 DEF Linked, IsEnd
  <2>2. CASE ~InProgress(rs) /\ ~Ends(given, old)
    <3>1. expects >= next
      <4>1. PagePacket(page) >= PagePacket(old)
            /\ (PageFirst(page) = 1 => PagePacket(page) > PagePacket(old))
        BY <1>6, <2>2 DEF LaterThan
      <4> QED
        BY <1>5, <1>7, <1>8, <1>9, <2>2, <4>1
    <3>2. EndsLost(reads, lacing) /\ Len(lacing) = n
      BY <1>1, <2>2 DEF ReadTo, InProgress
    <3>3. \A p \in Nat : Follows(p, next, FALSE) => expects > p + 1
      BY <1>10, <3>1 DEF Follows
    <3>4. ASSUME NEW r \in 1 .. Len(reads), IsPacket(reads[r])
          PROVE  expects > reads[r][1].packet + 1
      <4>1. ~(r = Len(reads) /\ n = 0)
        <5> SUFFICES ASSUME r = Len(reads), n = 0 PROVE FALSE
          OBVIOUS
        <5>1. lacing = << >>
          BY <1>1, <3>2, EmptyLength
        <5>2. reads # << >>
          <6>1. reads \in Seq(Seq(SegmentRead)) /\ Len(reads) # 0
            BY DEF ReadsInv
          <6> QED
            BY <6>1, EmptyLength
        <5> QED
          BY <3>2, <3>4, <5>1, <5>2 DEF EndsLost, IsPacket
      <4>2. Follows(reads[r][1].packet, next, FALSE)
        BY <1>11, <3>4, <4>1 DEF Linked
      <4> QED
        BY <1>12, <3>3, <3>4, <4>2
    <3>5. ASSUME NEW i \in 1 .. n, IsEnd(lacing[i])
          PROVE  expects > lacing[i].packet + 1
      <4>1. i # n
        <5> SUFFICES ASSUME i = n PROVE FALSE
          OBVIOUS
        <5>1. lacing # << >>
          BY <1>1, <3>2, EmptyLength
        <5>2. lacing[n] = Gap
          BY <3>2, <5>1 DEF EndsLost, Last
        <5> QED
          BY <3>5, <5>2 DEF IsEnd, IsGap, Gap
      <4>2. Follows(lacing[i].packet, next, FALSE) /\ ~IsGap(lacing[i])
        BY <1>11, <3>5, <4>1 DEF Linked, IsEnd
      <4> QED
        BY <1>13, <3>3, <4>2
    <3> QED
      BY <3>4, <3>5
  <2> QED
    BY <2>1, <2>2
<1>15. \A i \in 1 .. n : Alike(lacing[i], kept[i])
  BY <1>4 DEF Alike
<1>16. Framed(kept, n) /\ Linked(reads, kept, n, next)
  BY <1>1, <1>11, <1>15, AlikeFramed, AlikeLinked
<1>17. Framed(kept, m)
  BY <1>1, <1>4, <1>16, GapFramed
<1>18. Linked(reads, kept, m, expects)
  <2>1. \A i \in 1 .. n : IsEnd(kept[i]) => expects > kept[i].packet + 1
    BY <1>4, <1>14
  <2> QED
    BY <1>1, <1>4, <1>14, <1>16, <2>1, GapLinked
<1>19. EndsLost(reads, kept)
  <2>1. kept # << >>
    BY <1>1, <1>4, EmptyLength
  <2> QED
    BY <1>4, <2>1 DEF EndsLost, Last
<1>20. m \in 0 .. Len(kept) /\ ~(Len(kept) > m)
  BY <1>1, <1>4
<1> QED
  BY <1>4, <1>17, <1>18, <1>19, <1>20 DEF ReadyFor, expects, kept, front
(* What a page has is all added, or nothing when it belongs to a packet     *)
(* whose beginning is lost.                                                 *)
LEMMA PageEnds ==
    ASSUME NEW page, PageInv(given, page), GivenInv,
           NEW segments, Len(segments) = Len(page.segments), DOMAIN segments = 1 .. Len(segments),
           \A j \in 1 .. Len(segments) : segments[j].last = page.segments[j].last
    PROVE  /\ Completes(segments) <=> Ends(given, page)
           /\ Ends(given, page) => /\ FirstEnd(segments) = Len(segments)
                                   /\ LastEnd(segments) = Len(segments)
<1> DEFINE n == Len(segments)
           size == given[PagePacket(page)].segments
<1>1. n \in Nat \ {0} /\ PageFirst(page) \in Nat \ {0} /\ PageLast(page) = PageFirst(page) + n - 1
  BY PageNumbers DEF PageLast
<1>2. PagePacket(page) \in 1 .. Len(given) /\ PageLast(page) <= size
  BY DEF PageInv
<1>3. size \in Nat
  <2>1. given[PagePacket(page)] \in PacketType
    BY <1>2, ElementType DEF GivenInv
  <2> QED
    BY <2>1 DEF PacketType
<1>4. \A j \in 1 .. n : segments[j].last <=> PageFirst(page) + j - 1 = size
  BY DEF PageInv
<1>5. Ends(given, page) <=> PageFirst(page) + n - 1 = size
  BY <1>1 DEF Ends
<1> HIDE DEF n, size
<1>6. \A j \in 1 .. n : segments[j].last <=> Ends(given, page) /\ j = n
  <2> SUFFICES ASSUME NEW j \in 1 .. n
               PROVE  PageFirst(page) + j - 1 = size <=> PageFirst(page) + n - 1 = size /\ j = n
    BY <1>4, <1>5
  <2> QED
    BY <1>1, <1>2, <1>3
<1>7. DOMAIN segments = 1 .. n /\ n \in 1 .. n
  BY <1>1 DEF n
<1>8. Completes(segments) <=> Ends(given, page)
  BY <1>6, <1>7 DEF Completes
<1>9. ASSUME Ends(given, page) PROVE FirstEnd(segments) = n /\ LastEnd(segments) = n
  <2>1. {i \in DOMAIN segments : segments[i].last} = {n}
    BY <1>6, <1>7, <1>9
  <2>2. Min({n}) = n /\ Max({n}) = n
    BY <1>1 DEF Min, Max
  <2> QED
    BY <2>1, <2>2 DEF FirstEnd, LastEnd
<1> QED
  BY <1>8, <1>9 DEF n

LEMMA AddedSegments ==
    ASSUME NEW page, PageInv(given, page), GivenInv
    PROVE  LET added == Received(page, page.segments)
               n == Len(page.segments)
           IN  /\ added \in Seq(SegmentRead) /\ Len(added) = n
               /\ \A j \in 1 .. n : IsPart(added[j], PagePacket(page), PageFirst(page) + j - 1)
                                    /\ added[j].e_o_s = FALSE
               /\ Completes(added) <=> Ends(given, page)
               /\ Ends(given, page) => /\ LastEnd(added) = n
                                       /\ added[n].granulepos = given[PagePacket(page)].granulepos
<1> DEFINE segments == page.segments
           n == Len(segments)
           granule(i) == IF Completes(segments) /\ i = LastEnd(segments)
                         THEN page.granulepos ELSE NoGranule
           element(i) == [packet |-> segments[i].packet, part |-> segments[i].part,
                          last |-> segments[i].last, granulepos |-> granule(i), e_o_s |-> FALSE]
           added == Received(page, segments)
<1>1. segments \in Seq(Segment) /\ n \in Nat \ {0} /\ DOMAIN segments = 1 .. n
  BY PageNumbers
<1>2. added = [i \in 1 .. n |-> element(i)]
  BY <1>1 DEF Received
<1>3. \A i \in 1 .. n : granule(i) \in Int
  BY DEF PageInv, Page, NoGranule
<1>4. \A i \in 1 .. n : /\ segments[i].packet \in Nat /\ segments[i].part \in Nat
                        /\ segments[i].last \in BOOLEAN
  <2>1. \A i \in 1 .. n : segments[i] \in Segment
    BY <1>1, ElementType
  <2> QED
    BY <2>1 DEF Segment
<1> HIDE DEF granule, segments
<1>5. \A i \in 1 .. n : element(i) \in SegmentRead
  BY <1>3, <1>4 DEF SegmentRead
<1>6. \A i \in 1 .. n : /\ element(i).packet = segments[i].packet
                        /\ element(i).part = segments[i].part
                        /\ element(i).last = segments[i].last
                        /\ element(i).granulepos = granule(i) /\ element(i).e_o_s = FALSE
  OBVIOUS
<1> HIDE DEF element, n, added
<1>7. added \in [1 .. n -> SegmentRead] /\ \A i \in 1 .. n : added[i] = element(i)
  BY <1>2, <1>5
<1>8. added \in Seq(SegmentRead) /\ Len(added) = n /\ DOMAIN added = 1 .. n
  BY <1>1, <1>7
<1>9. \A j \in 1 .. n : /\ segments[j].packet = PagePacket(page)
                        /\ segments[j].part = PageFirst(page) + j - 1
                        /\ segments[j].last <=>
                               PageFirst(page) + j - 1 = given[PagePacket(page)].segments
  BY DEF PageInv, n, segments
<1>10. \A j \in 1 .. n : /\ added[j].packet = segments[j].packet /\ added[j].part = segments[j].part
                         /\ added[j].last = segments[j].last /\ added[j].granulepos = granule(j)
                         /\ added[j].e_o_s = FALSE
  BY <1>6, <1>7
<1>11. \A j \in 1 .. n : IsPart(added[j], PagePacket(page), PageFirst(page) + j - 1)
  BY <1>9, <1>10 DEF IsPart
<1>12. /\ Completes(added) <=> Ends(given, page)
       /\ Ends(given, page) => LastEnd(added) = n
  BY <1>8, <1>10, PageEnds DEF n, segments
<1>13. /\ Completes(segments) <=> Ends(given, page)
       /\ Ends(given, page) => LastEnd(segments) = n
  BY <1>1, PageEnds DEF n, segments
<1>14. Ends(given, page) => added[n].granulepos = given[PagePacket(page)].granulepos
  <2> SUFFICES ASSUME Ends(given, page)
               PROVE  added[n].granulepos = given[PagePacket(page)].granulepos
    OBVIOUS
  <2>1. granule(n) = page.granulepos
    BY <1>13 DEF granule
  <2>2. n \in 1 .. n
    BY <1>1
  <2> QED
    BY <1>10, <2>1, <2>2 DEF PageInv
<1> QED
  BY <1>8, <1>10, <1>11, <1>12, <1>14 DEF n, added, segments

LEMMA OrphanedSegments ==
    ASSUME NEW page, PageInv(given, page), GivenInv, NEW kept, Orphaned(kept, page)
    PROVE  Received(page, SegmentsToKeep(kept, page)) = << >>
<1> DEFINE segments == page.segments
           n == Len(segments)
<1>1. segments \in Seq(Segment) /\ n \in Nat \ {0} /\ DOMAIN segments = 1 .. n
  BY PageNumbers
<1>2. Completes(segments) => FirstEnd(segments) = n
  BY <1>1, PageEnds
<1>3. SegmentsToKeep(kept, page) = << >>
  <2>1. CASE ~Completes(segments)
    BY <2>1 DEF SegmentsToKeep
  <2>2. CASE Completes(segments)
    <3>1. SegmentsToKeep(kept, page) = SubSeq(segments, n + 1, n)
      BY <1>2, <2>2 DEF SegmentsToKeep
    <3>2. SubSeq(segments, n + 1, n) = << >>
      <4> HIDE DEF segments, n
      <4>1. n \in Nat /\ n \in 0 .. Len(segments) /\ n <= n /\ n - n = 0
        BY <1>1 DEF n
      <4>2. SubSeq(segments, n + 1, n) \in Seq(Segment) /\ Len(SubSeq(segments, n + 1, n)) = 0
        BY <1>1, <4>1, SubSeqElements
      <4> QED
        BY <4>2, EmptyLength
    <3> QED
      BY <3>1, <3>2
  <2> QED
    BY <2>1, <2>2
<1>4. Received(page, << >>) = << >>
  <2>1. DOMAIN << >> = {}
    OBVIOUS
  <2>2. Received(page, << >>) \in [{} -> {0}]
    BY <2>1 DEF Received
  <2>3. << >> \in [{} -> {0}]
    OBVIOUS
  <2> QED
    BY <2>2, <2>3
<1> QED
  BY <1>3, <1>4

LEMMA MarkedSegments ==
    ASSUME NEW s \in Seq(SegmentRead), NEW page
    PROVE  LET t == MarkEnd(s, page)
           IN  /\ t \in Seq(SegmentRead) /\ Len(t) = Len(s)
               /\ \A i \in 1 .. Len(s) :
                      /\ t[i].packet = s[i].packet /\ t[i].part = s[i].part
                      /\ t[i].last = s[i].last /\ t[i].granulepos = s[i].granulepos
                      /\ i = Len(s) /\ page.e_o_s => t[i].e_o_s = TRUE
                      /\ i # Len(s) \/ ~page.e_o_s => t[i] = s[i]
<1> DEFINE t == MarkEnd(s, page)
           n == Len(s)
<1>1. n \in Nat /\ (s = << >> <=> n = 0) /\ DOMAIN s = 1 .. n
  BY EmptyLength
<1>2. CASE ~(page.e_o_s /\ s # << >>)
  <2>1. t = s
    BY <1>2 DEF MarkEnd
  <2>2. \A i \in 1 .. n : ~page.e_o_s
    BY <1>1, <1>2
  <2> HIDE DEF t
  <2> HIDE DEF n
  <2>4. \A i \in 1 .. n :
            /\ t[i].packet = s[i].packet /\ t[i].part = s[i].part
            /\ t[i].last = s[i].last /\ t[i].granulepos = s[i].granulepos
            /\ i = n /\ page.e_o_s => t[i].e_o_s = TRUE
            /\ i # n \/ ~page.e_o_s => t[i] = s[i]
    BY <2>1, <2>2, Zenon
  <2> QED
    BY <2>1, <2>4 DEF t, n
<1>3. CASE page.e_o_s /\ s # << >>
  <2> DEFINE marked == [s[n] EXCEPT !.e_o_s = TRUE]
  <2>1. t = [s EXCEPT ![n] = marked]
    BY <1>3 DEF MarkEnd
  <2>2. n \in 1 .. n /\ s[n] \in SegmentRead
    BY <1>1, <1>3, ElementType
  <2>3. /\ marked.packet = s[n].packet /\ marked.part = s[n].part /\ marked.last = s[n].last
        /\ marked.granulepos = s[n].granulepos /\ marked.e_o_s = TRUE
        /\ marked \in SegmentRead
    BY <2>2 DEF SegmentRead
  <2> HIDE DEF marked, t
  <2>4. /\ t \in Seq(SegmentRead) /\ Len(t) = n /\ t[n] = marked
        /\ \A i \in 1 .. n : i # n => t[i] = s[i]
    <3>1. s \in [1 .. n -> SegmentRead] /\ marked \in SegmentRead
      BY <1>1, <2>3
    <3> HIDE DEF n
    <3>2. /\ t \in [1 .. n -> SegmentRead] /\ t[n] = marked
          /\ \A i \in 1 .. n : i # n => t[i] = s[i]
      BY <2>1, <2>2, <3>1
    <3>3. t \in Seq(SegmentRead) /\ Len(t) = n
      BY <1>1, <3>2
    <3> QED
      BY <3>2, <3>3
  <2> QED
    BY <1>3, <2>3, <2>4 DEF t
<1> QED
  BY <1>2, <1>3
LEMMA PageTaken ==
    ASSUME GivenInv, ReadsInv, NEW page, PageInv(given, page), NEW kept, NEW m,
           ReadyFor(kept, m, page), NEW added, NEW dec,
           added = Received(page, SegmentsToKeep(kept, page)),
           dec = [lacing |-> MarkEnd(kept \o added, page),
                  whole |-> IF Completes(added) THEN Len(kept) + LastEnd(added) ELSE m,
                  pageno |-> page.pageno + 1]
    PROVE  /\ dec \in Decoder /\ dec.whole <= Len(dec.lacing)
           /\ Framed(dec.lacing, dec.whole) /\ ReadTo(dec, reads, page)
           /\ ~failed => NothingLost(dec, reads, page)
<1> DEFINE p == PagePacket(page)
           f == PageFirst(page)
           l == PageLast(page)
           k == Len(kept)
           n == Len(page.segments)
           size == given[p].segments
           lacing == MarkEnd(kept \o added, page)
           expects == Expects(kept, m, page)
<1>1. /\ dec.lacing = lacing /\ dec.pageno = page.pageno + 1
      /\ dec.whole = IF Completes(added) THEN Len(kept) + LastEnd(added) ELSE m
  OBVIOUS
<1>2. /\ kept \in Seq(SegmentRead) /\ m \in 0 .. k /\ k \in Nat /\ m \in Nat
      /\ Framed(kept, m) /\ Linked(reads, kept, m, expects)
  BY DEF ReadyFor
<1>3. /\ p \in Nat /\ f \in Nat \ {0} /\ l \in Nat \ {0} /\ n \in Nat \ {0}
      /\ l = f + n - 1 /\ page.pageno \in Nat
  BY PageNumbers DEF PageLast
<1>4. /\ p \in 1 .. Len(given) /\ p # 0 /\ (page.continued <=> f # 1) /\ page.e_o_s \in BOOLEAN
      /\ Ends(given, page) <=> l = size
      /\ page.e_o_s <=> Ends(given, page) /\ given[p].e_o_s
  BY DEF PageInv, Page, Ends
<1>5. page.pageno + 1 \in Int
  BY <1>3
<1>6. size \in Nat /\ given[p].e_o_s \in BOOLEAN
  <2>1. given[p] \in PacketType
    BY <1>4, ElementType DEF GivenInv
  <2> QED
    BY <2>1 DEF PacketType
<1>7. dec = [lacing |-> dec.lacing, whole |-> dec.whole, pageno |-> dec.pageno]
  OBVIOUS
<1>8. CASE k = m /\ page.continued
  <2>1. EndsLost(reads, kept) /\ failed
    BY <1>2, <1>8 DEF ReadyFor
  <2>2. Orphaned(kept, page)
    BY <1>8, <2>1 DEF Orphaned, EndsLost
  <2>3. added = << >>
    BY <1>4, <2>2, OrphanedSegments
  <2>4. ~Completes(added)
    <3>1. DOMAIN << >> = {}
      OBVIOUS
    <3> QED
      BY <2>3, <3>1 DEF Completes
  <2>5. dec.whole = m
    BY <1>1, <2>4
  <2>6. kept \o added = kept
    BY <1>2, <2>3
  <2>7. /\ lacing \in Seq(SegmentRead) /\ Len(lacing) = k
        /\ \A i \in 1 .. k :
               /\ lacing[i].packet = kept[i].packet /\ lacing[i].part = kept[i].part
               /\ lacing[i].last = kept[i].last /\ lacing[i].granulepos = kept[i].granulepos
               /\ i # k \/ ~page.e_o_s => lacing[i] = kept[i]
    <3>1. lacing = MarkEnd(kept, page)
      BY <2>6
    <3>2. LET t == MarkEnd(kept, page)
          IN  /\ t \in Seq(SegmentRead) /\ Len(t) = Len(kept)
              /\ \A i \in 1 .. Len(kept) :
                     /\ t[i].packet = kept[i].packet /\ t[i].part = kept[i].part
                     /\ t[i].last = kept[i].last /\ t[i].granulepos = kept[i].granulepos
                     /\ i = Len(kept) /\ page.e_o_s => t[i].e_o_s = TRUE
                     /\ i # Len(kept) \/ ~page.e_o_s => t[i] = kept[i]
      BY <1>2, MarkedSegments, Zenon
    <3> HIDE DEF lacing
    <3> QED
      BY <3>1, <3>2, Zenon
  <2>8. ~page.e_o_s => lacing = kept
    BY <2>6 DEF MarkEnd
  <2> HIDE DEF lacing
  <2>9. kept # << >> => IsGap(kept[k])
    BY <2>1 DEF EndsLost, Last, Gap, IsGap
  <2>10. \A i \in 1 .. m : Alike(kept[i], lacing[i])
    <3> SUFFICES ASSUME NEW i \in 1 .. m PROVE Alike(kept[i], lacing[i])
      OBVIOUS
    <3>1. i \in 1 .. k /\ kept # << >>
      BY <1>2, <1>8, EmptyLength
    <3>2. i # k => lacing[i] = kept[i]
      BY <2>7, <3>1
    <3>3. i = k => IsGap(kept[i])
      BY <2>9, <3>1
    <3> QED
      BY <2>7, <3>1, <3>2, <3>3 DEF Alike
  <2>11. Framed(lacing, m) /\ Linked(reads, lacing, m, expects)
    BY <1>2, <2>10, AlikeFramed, AlikeLinked
  <2>12. ~InProgress(dec) /\ NextRead(dec, page) = p + 1
    <3>1. ~InProgress(dec)
      BY <1>1, <1>2, <1>8, <2>5, <2>7 DEF InProgress
    <3> QED
      BY <3>1 DEF NextRead
  <2>13. expects = p + 1
    <3>1. ~(k > m)
      BY <1>2, <1>8
    <3> QED
      BY <1>8, <3>1 DEF Expects
  <2>14. Ends(given, page) \/ EndsLost(reads, lacing)
    BY <1>4, <2>1, <2>8
  <2>15. ReadTo(dec, reads, page)
    BY <1>1, <2>5, <2>11, <2>12, <2>13, <2>14 DEF ReadTo
  <2>16. dec \in Decoder
    BY <1>1, <1>2, <1>5, <1>7, <2>5, <2>7 DEF Decoder
  <2> QED
    BY <1>1, <1>2, <1>8, <2>1, <2>5, <2>7, <2>11, <2>15, <2>16
<1>9. CASE ~(k = m /\ page.continued)
  <2>1. k = m + f - 1 /\ \A j \in 1 .. f - 1 : IsPart(kept[m + j], p, j)
    <3>1. CASE k = m
      BY <1>2, <1>3, <1>4, <1>9, <3>1
    <3>2. CASE k # m
      <4>1. k > m
        BY <1>2, <3>2
      <4> QED
        BY <4>1 DEF ReadyFor
    <3> QED
      BY <3>1, <3>2
  <2>2. expects = p
    <3>1. k > m \/ ~page.continued
      BY <1>2, <1>9
    <3> QED
      BY <3>1 DEF Expects
  <2>3. ~Orphaned(kept, page)
    <3> SUFFICES ASSUME page.continued PROVE kept # << >> /\ Last(kept) # Gap
      BY DEF Orphaned
    <3>1. f # 1 /\ f - 1 \in 1 .. f - 1 /\ m + (f - 1) = k
      BY <1>2, <1>3, <1>4, <2>1
    <3>2. kept[k].packet = p
      BY <2>1, <3>1 DEF IsPart
    <3>3. k # 0
      BY <1>2, <3>1
    <3> QED
      BY <1>2, <1>4, <3>2, <3>3, EmptyLength DEF Last, Gap
  <2>4. added = Received(page, page.segments)
    BY <2>3 DEF SegmentsToKeep
  <2>5. /\ added \in Seq(SegmentRead) /\ Len(added) = n
        /\ \A j \in 1 .. n : IsPart(added[j], p, f + j - 1) /\ added[j].e_o_s = FALSE
        /\ Completes(added) <=> Ends(given, page)
        /\ Ends(given, page) => LastEnd(added) = n /\ added[n].granulepos = given[p].granulepos
    BY <2>4, AddedSegments
  <2> DEFINE all == kept \o added
  <2>6. /\ all \in Seq(SegmentRead) /\ Len(all) = k + n
        /\ \A i \in 1 .. k : all[i] = kept[i]
        /\ \A i \in 1 .. n : all[k + i] = added[i]
    <3> HIDE DEF n
    <3> QED
      BY <1>2, <2>5, ConcatElements
  <2>7. k + n = m + l
    BY <1>2, <1>3, <2>1
  <2> HIDE DEF all
  <2>8. /\ lacing \in Seq(SegmentRead) /\ Len(lacing) = m + l
        /\ \A i \in 1 .. m + l :
               /\ lacing[i].packet = all[i].packet /\ lacing[i].part = all[i].part
               /\ lacing[i].last = all[i].last /\ lacing[i].granulepos = all[i].granulepos
               /\ i = m + l /\ page.e_o_s => lacing[i].e_o_s = TRUE
               /\ i # m + l \/ ~page.e_o_s => lacing[i] = all[i]
    <3>1. lacing = MarkEnd(all, page) /\ Len(all) = m + l
      BY <2>6, <2>7 DEF all
    <3>2. LET t == MarkEnd(all, page)
          IN  /\ t \in Seq(SegmentRead) /\ Len(t) = Len(all)
              /\ \A i \in 1 .. Len(all) :
                     /\ t[i].packet = all[i].packet /\ t[i].part = all[i].part
                     /\ t[i].last = all[i].last /\ t[i].granulepos = all[i].granulepos
                     /\ i = Len(all) /\ page.e_o_s => t[i].e_o_s = TRUE
                     /\ i # Len(all) \/ ~page.e_o_s => t[i] = all[i]
      BY <2>6, MarkedSegments, ZenonT(60)
    <3> HIDE DEF lacing, l
    <3> QED
      BY <3>1, <3>2, Zenon
  <2> HIDE DEF lacing
  <2>9. \A i \in 1 .. m : lacing[i] = kept[i] /\ Alike(kept[i], lacing[i])
    <3> SUFFICES ASSUME NEW i \in 1 .. m PROVE lacing[i] = kept[i]
      BY DEF Alike
    <3>1. i \in 1 .. k /\ i \in 1 .. m + l /\ i # m + l
      <4> HIDE DEF k, l, f, n
      <4> QED
        BY <1>2, <1>3
    <3> QED
      BY <2>6, <2>8, <3>1
  <2>10. \A j \in 1 .. l : IsPart(all[m + j], p, j)
    <3> SUFFICES ASSUME NEW j \in 1 .. l PROVE IsPart(all[m + j], p, j)
      OBVIOUS
    <3>1. CASE j \in 1 .. f - 1
      <4>1. m + j \in 1 .. k
        BY <1>2, <1>3, <2>1, <3>1
      <4> QED
        BY <2>1, <2>6, <3>1, <4>1
    <3>2. CASE j \notin 1 .. f - 1
      <4>1. j - f + 1 \in 1 .. n /\ m + j = k + (j - f + 1) /\ f + (j - f + 1) - 1 = j
        <5> HIDE DEF k, l, f, n
        <5>1. k = m + f - 1
          BY <2>1
        <5> QED
          BY <1>2, <1>3, <3>2, <5>1
      <4> QED
        BY <2>5, <2>6, <4>1
    <3> QED
      BY <3>1, <3>2
  <2>11. \A j \in 1 .. l : IsPart(lacing[m + j], p, j)
    <3>1. \A j \in 1 .. l : m + j \in 1 .. m + l
      BY <1>2, <1>3
    <3> QED
      BY <2>8, <2>10, <3>1 DEF IsPart
  <2>12. Framed(lacing, m) /\ Linked(reads, lacing, m, p)
    BY <1>2, <2>2, <2>9, AlikeFramed, AlikeLinked
  <2>13. ~failed => /\ \A i \in 1 .. m : ~IsGap(lacing[i])
                    /\ m > 0 => lacing[1].packet = Len(reads) + 1
                    /\ m = 0 => p = Len(reads) + 1
    <3>1. m > 0 => 1 \in 1 .. m
      BY <1>2
    <3> QED
      BY <2>2, <2>9, <3>1 DEF ReadyFor
  <2>14. m + l > 0 /\ m + l \in Nat /\ m <= m + l /\ m + l > m /\ l > 0
    <3>1. m \in Nat /\ l \in Nat \ {0}
      BY <1>2, <1>3
    <3> HIDE DEF k, l
    <3> QED
      BY <3>1
  <2>15. CASE Ends(given, page)
    <3>1. dec.whole = m + l /\ l = size
      BY <1>1, <1>4, <2>5, <2>7, <2>15
    <3>2. lacing[m + l].granulepos = given[p].granulepos
      <4>1. m + l \in 1 .. m + l /\ n \in 1 .. n
        BY <1>3, <2>14
      <4>2. all[m + l].granulepos = added[n].granulepos
        BY <2>6, <2>7, <4>1
      <4>3. lacing[m + l].granulepos = all[m + l].granulepos
        BY <2>8, <4>1
      <4> QED
        BY <2>5, <2>15, <4>2, <4>3
    <3>3. lacing[m + l].e_o_s = given[p].e_o_s
      <4>1. m + l \in 1 .. m + l /\ n \in 1 .. n
        BY <1>3, <2>14
      <4>2. all[m + l].e_o_s = FALSE
        BY <2>5, <2>6, <2>7, <4>1
      <4>3. /\ page.e_o_s => lacing[m + l].e_o_s = TRUE
            /\ ~page.e_o_s => lacing[m + l].e_o_s = FALSE
        BY <2>8, <4>1, <4>2
      <4>4. page.e_o_s <=> given[p].e_o_s
        BY <1>4, <2>15
      <4> QED
        BY <1>6, <4>3, <4>4, Zenon
    <3>4. Framed(lacing, m + l)
      BY <1>2, <1>3, <1>4, <2>11, <2>12, <3>1, <3>2, <3>3, PacketFramed
    <3>5. Linked(reads, lacing, m + l, p + 1)
      BY <1>2, <1>3, <1>4, <2>11, <2>12, <3>1, PacketLinked DEF ReadsInv
    <3>6. ~InProgress(dec) /\ NextRead(dec, page) = p + 1
      <4>1. ~InProgress(dec)
        BY <1>1, <2>8, <2>14, <3>1 DEF InProgress
      <4> QED
        BY <4>1 DEF NextRead
    <3>7. ReadTo(dec, reads, page)
      BY <1>1, <2>15, <3>1, <3>5, <3>6 DEF ReadTo
    <3>8. ~failed => NothingLost(dec, reads, page)
      <4> SUFFICES ASSUME ~failed PROVE NothingLost(dec, reads, page)
        OBVIOUS
      <4>1. \A i \in 1 .. m + l : i \in 1 .. m \/ \E j \in 1 .. l : i = m + j
        <5> SUFFICES ASSUME NEW i \in 1 .. m + l, i \notin 1 .. m
                     PROVE  \E j \in 1 .. l : i = m + j
          OBVIOUS
        <5>1. i - m \in 1 .. l /\ i = m + (i - m)
          BY <1>2, <1>3
        <5> QED
          BY <5>1
      <4>2. \A j \in 1 .. l : ~IsGap(lacing[m + j])
        BY <1>4, <2>11 DEF IsPart, IsGap
      <4>3. \A i \in 1 .. m + l : ~IsGap(lacing[i])
        BY <2>13, <4>1, <4>2
      <4>4. lacing[1].packet = Len(reads) + 1
        <5>1. CASE m = 0
          <6>1. 1 \in 1 .. l /\ m + 1 = 1
            BY <1>3, <5>1
          <6>2. lacing[1].packet = p
            BY <2>11, <6>1 DEF IsPart
          <6> QED
            BY <2>13, <5>1, <6>2
        <5>2. CASE m # 0
          BY <1>2, <2>13, <5>2
        <5> QED
          BY <5>1, <5>2
      <4> QED
        BY <1>1, <2>14, <3>1, <4>3, <4>4 DEF NothingLost
    <3>9. dec \in Decoder
      BY <1>1, <1>5, <1>7, <2>8, <2>14, <3>1 DEF Decoder
    <3> QED
      BY <1>1, <2>8, <2>14, <3>1, <3>4, <3>7, <3>8, <3>9
  <2>16. CASE ~Ends(given, page)
    <3>1. dec.whole = m
      BY <1>1, <2>5, <2>16
    <3>2. InProgress(dec) /\ NextRead(dec, page) = p
      <4>1. InProgress(dec)
        BY <1>1, <2>8, <2>14, <3>1 DEF InProgress
      <4> QED
        BY <4>1 DEF NextRead
    <3>3. ReadTo(dec, reads, page)
      BY <1>1, <2>8, <2>11, <2>12, <2>16, <3>1, <3>2 DEF ReadTo
    <3>4. ~failed => NothingLost(dec, reads, page)
      BY <1>1, <2>13, <3>1, <3>2 DEF NothingLost
    <3>5. dec \in Decoder
      BY <1>1, <1>2, <1>5, <1>7, <2>8, <3>1 DEF Decoder
    <3> QED
      BY <1>1, <2>8, <2>12, <2>14, <3>1, <3>3, <3>4, <3>5
  <2> QED
    BY <2>15, <2>16
<1> QED
  BY <1>8, <1>9
(* The invariant is about the packets that are given, which no step of the  *)
(* reader changes.                                                          *)
LEMMA ReadsKept ==
    ASSUME ReadsInv, UNCHANGED <<reads, given, failed>> PROVE ReadsInv'
  BY DEF ReadsInv, WholePacket, ReadsFollow, IsPacket

LEMMA ReadPageStep ==
    ASSUME GivenInv, PagesInv, ReadsInv, DecoderInv, ReadPage PROVE ReadsInv' /\ DecoderInv'
<1> DEFINE page == file[position].page
           kept == Resequenced(rs, page)
           same == page.pageno = rs.pageno
           m == IF same THEN rs.whole ELSE Len(kept)
           added == Received(page, SegmentsToKeep(kept, page))
<1>1. /\ position \in 1 .. Len(file) /\ position' = position + 1 /\ rs' = PageIn(rs, page)
      /\ UNCHANGED <<reads, given, failed, file>>
  <2>1. position <= Len(file) /\ position \in 1 .. Len(file) + 1 /\ Len(file) \in Nat
    BY DEF ReadPage, Synced, DecoderInv, PagesInv
  <2> QED
    BY <2>1 DEF ReadPage, historyVars, fileVars
<1>2. /\ rs \in Decoder /\ rs.whole <= Len(rs.lacing) /\ Framed(rs.lacing, rs.whole)
      /\ rs.whole \in Nat
  BY DEF DecoderInv, Decoder
<1>3. PageInv(given, page) /\ page.pageno \in Nat
  BY <1>1, PageNumbers DEF PagesInv
<1>4. position \in Nat /\ Len(file) \in Nat
  BY <1>1 DEF PagesInv
<1>5. ~failed => page.pageno = position - 1
  BY <1>1 DEF PagesInv
<1> HIDE DEF page
<1>6. kept = IF same THEN rs.lacing
             ELSE IF rs.pageno = -1 THEN SubSeq(rs.lacing, 1, rs.whole)
             ELSE Append(SubSeq(rs.lacing, 1, rs.whole), Gap)
  BY DEF Resequenced, Unrolled
<1>7. ReadyFor(kept, m, page)
  <2>1. CASE rs = NewDecoder /\ reads = << >> /\ (~failed => position = 1)
    <3>1. rs.lacing = << >> /\ rs.whole = 0 /\ rs.pageno = -1
      BY <2>1 DEF NewDecoder
    <3>2. ~same
      BY <1>3, <3>1
    <3>3. SubSeq(<< >>, 1, 0) = << >> /\ Len(<< >>) = 0
      OBVIOUS
    <3>4. kept = << >> /\ m = 0
      BY <1>6, <3>1, <3>2, <3>3
    <3>5. ~failed => page.pageno = 0
      BY <1>5, <2>1
    <3> HIDE DEF kept, m
    <3> QED
      BY <1>3, <2>1, <3>4, <3>5, ReadyFirst
  <2>2. CASE \E x \in 1 .. position - 1 :
                 /\ ReadTo(rs, reads, file[x].page)
                 /\ ~failed => x = position - 1 /\ NothingLost(rs, reads, file[x].page)
    <3>1. PICK x \in 1 .. position - 1 :
              /\ ReadTo(rs, reads, file[x].page)
              /\ ~failed => x = position - 1 /\ NothingLost(rs, reads, file[x].page)
      BY <2>2
    <3> DEFINE old == file[x].page
    <3>2. x \in 1 .. Len(file) /\ x < position
      BY <1>1, <1>4
    <3>3. /\ PageInv(given, old)
          /\ After(given, old, page.pageno, PagePacket(page), PageFirst(page))
          /\ old.pageno \in Nat
      BY <1>1, <3>2, PageNumbers DEF PagesInv, page
    <3>4. ~failed => old.pageno = x - 1
      BY <3>2 DEF PagesInv
    <3> HIDE DEF old
    <3>5. rs.pageno = old.pageno + 1
      BY <3>1 DEF ReadTo, old
    <3>6. CASE same
      <4>1. kept = rs.lacing /\ m = rs.whole
        BY <1>6, <3>6
      <4>2. ReadyFor(rs.lacing, rs.whole, page)
        BY <1>2, <1>3, <3>1, <3>3, <3>6, ReadyInSequence DEF old
      <4> QED
        BY <4>1, <4>2
    <3>7. CASE ~same
      <4>1. rs.pageno # -1
        BY <3>3, <3>5
      <4>2. kept = Append(SubSeq(rs.lacing, 1, rs.whole), Gap)
        BY <1>6, <3>7, <4>1
      <4>3. failed
        <5> SUFFICES ASSUME ~failed PROVE FALSE
          OBVIOUS
        <5>1. x = position - 1 /\ old.pageno = x - 1 /\ page.pageno = position - 1
          BY <1>5, <3>1, <3>4
        <5>2. page.pageno = rs.pageno
          BY <1>4, <3>5, <5>1
        <5> QED
          BY <3>7, <5>2
      <4>4. Len(kept) = rs.whole + 1 /\ ReadyFor(kept, rs.whole + 1, page)
        BY <1>2, <1>3, <3>1, <3>3, <3>7, <4>2, <4>3, ReadyAcross DEF old
      <4>5. m = rs.whole + 1
        BY <3>7, <4>4
      <4> QED
        BY <4>4, <4>5
    <3> QED
      BY <3>6, <3>7
  <2> QED
    BY <2>1, <2>2 DEF DecoderInv
<1>8. rs' = [lacing |-> MarkEnd(kept \o added, page),
             whole |-> IF Completes(added) THEN Len(kept) + LastEnd(added) ELSE m,
             pageno |-> page.pageno + 1]
  BY <1>1 DEF PageIn, page
<1> HIDE DEF kept, m, added
<1>9. /\ rs' \in Decoder /\ rs'.whole <= Len(rs'.lacing)
      /\ Framed(rs'.lacing, rs'.whole) /\ ReadTo(rs', reads, page)
      /\ ~failed => NothingLost(rs', reads, page)
  BY <1>3, <1>7, <1>8, PageTaken DEF added
<1>10. Framed(rs.lacing, rs.whole)'
  BY <1>1, <1>9 DEF Framed, InPacket
<1>11. ASSUME NEW x, x = position
       PROVE  /\ ReadTo(rs, reads, file[x].page)'
              /\ ~failed => NothingLost(rs, reads, file[x].page)'
  <2>1. file'[x].page = page /\ given' = given /\ reads' = reads
    BY <1>1, <1>11 DEF page
  <2> QED
    BY <1>9, <2>1 DEF ReadTo, NothingLost, IsPart
<1>12. DecoderInv'
  <2>1. /\ position \in 1 .. position' - 1 /\ position = position' - 1
        /\ position' \in 1 .. Len(file') + 1
        /\ position' <= WholePages(file') + 1
    <3>1. file[position].missing = 0
      BY DEF ReadPage, Synced
    <3> QED
      BY <1>1, <1>4, <3>1 DEF WholePages
  <2> QED
    BY <1>1, <1>9, <1>10, <1>11, <2>1 DEF DecoderInv
<1> QED
  BY <1>1, <1>12, ReadsKept

LEMMA SkipPageStep ==
    ASSUME GivenInv, PagesInv, ReadsInv, DecoderInv, failed \in BOOLEAN, SkipPage
    PROVE  ReadsInv' /\ DecoderInv'
<1>1. /\ position \in 1 .. Len(file) /\ position' = position + 1
      /\ UNCHANGED <<rs, reads, given, failed, file>>
  <2>1. position <= Len(file) /\ position \in 1 .. Len(file) + 1 /\ Len(file) \in Nat
    BY DEF SkipPage, SyncFails, DecoderInv, PagesInv
  <2> QED
    BY <2>1 DEF SkipPage, historyVars, fileVars
<1>2. failed
  <2> SUFFICES ASSUME ~failed PROVE FALSE
    OBVIOUS
  <2>1. position # Len(file)
    BY DEF SkipPage, SyncFails
  <2>2. file[position].missing = 0
    BY <1>1, <2>1 DEF PagesInv
  <2>3. file[position].missing \in 1 .. BytesAfter(file, position)
    BY DEF SkipPage, SyncFails
  <2> QED
    BY <2>2, <2>3
<1>3. Framed(rs.lacing, rs.whole)'
  BY <1>1 DEF DecoderInv, Framed, InPacket
<1>4. rs' \in Decoder /\ rs'.whole <= Len(rs'.lacing) /\ position' \in 1 .. Len(file') + 1
  BY <1>1 DEF DecoderInv, PagesInv
<1>5. CASE rs = NewDecoder /\ reads = << >>
  <2>1. rs' = NewDecoder /\ reads' = << >> /\ (~failed' => position' = 1)
    BY <1>1, <1>2, <1>5
  <2> QED
    BY <1>1, <1>3, <1>4, <2>1, ReadsKept DEF DecoderInv
<1>6. CASE \E x \in 1 .. position - 1 : ReadTo(rs, reads, file[x].page)
  <2>1. PICK x \in 1 .. position - 1 : ReadTo(rs, reads, file[x].page)
    BY <1>6
  <2>2. x \in 1 .. position' - 1
    BY <1>1
  <2>3. ReadTo(rs, reads, file[x].page)'
    BY <1>1, <2>1 DEF ReadTo, IsPart
  <2>4. \E y \in 1 .. position' - 1 :
            /\ ReadTo(rs, reads, file[y].page)'
            /\ ~failed' => y = position' - 1 /\ NothingLost(rs, reads, file[y].page)'
    BY <1>1, <1>2, <2>2, <2>3
  <2> QED
    BY <1>1, <1>2, <1>3, <1>4, <2>4, ReadsKept DEF DecoderInv
<1> QED
  BY <1>5, <1>6 DEF DecoderInv
-----------------------------------------------------------------------------
(* A packet that is taken out. *)

LEMMA HeadPacket ==
    ASSUME GivenInv, NEW lacing \in Seq(SegmentRead), NEW w \in 1 .. Len(lacing),
           Framed(lacing, w), ~IsGap(lacing[1])
    PROVE  LET n == FirstEnd(lacing)
               q == lacing[1].packet
           IN  /\ n \in 1 .. w /\ q \in 1 .. Len(given) /\ n = given[q].segments
               /\ lacing[1].part = 1 /\ lacing[n].packet = q /\ lacing[n].last
               /\ \A j \in 1 .. n : lacing[j].packet = q /\ lacing[j].part = j
               /\ lacing[n].granulepos = given[q].granulepos
               /\ lacing[n].e_o_s = given[q].e_o_s
<1> DEFINE n == FirstEnd(lacing)
           q == lacing[n].packet
           part == lacing[n].part
<1>1. DOMAIN lacing = 1 .. Len(lacing) /\ w \in Nat \ {0} /\ Len(lacing) \in Nat
  OBVIOUS
<1>2. lacing[w].last /\ w \in DOMAIN lacing
  BY <1>1 DEF Framed
<1>3. Completes(lacing)
  BY <1>2 DEF Completes
<1>4. n \in 1 .. Len(lacing) /\ lacing[n].last /\ \A j \in 1 .. n - 1 : ~lacing[j].last
  BY <1>3, FirstEndPlace
<1> HIDE DEF n
<1>5. n \in 1 .. w
  <2>1. ~(w \in 1 .. n - 1)
    BY <1>2, <1>4
  <2> QED
    BY <1>1, <1>4, <2>1
<1>6. ~IsGap(lacing[n])
  <2> SUFFICES ASSUME IsGap(lacing[n]) PROVE FALSE
    OBVIOUS
  <2>1. n > 1
    BY <1>5
  <2>2. lacing[n - 1].last
    BY <1>5, <2>1 DEF Framed
  <2>3. n - 1 \in 1 .. n - 1
    BY <1>5, <2>1
  <2> QED
    BY <1>4, <2>2, <2>3
<1>7. InPacket(lacing, n)
  BY <1>5, <1>6 DEF Framed
<1>8. /\ q \in 1 .. Len(given) /\ part \in 1 .. n /\ part = given[q].segments
      /\ lacing[n].granulepos = given[q].granulepos /\ lacing[n].e_o_s = given[q].e_o_s
      /\ \A j \in 1 .. part : lacing[n - part + j].packet = q /\ lacing[n - part + j].part = j
  BY <1>4, <1>7 DEF InPacket
<1> HIDE DEF q, part
<1>9. part = n
  <2> SUFFICES ASSUME part # n PROVE FALSE
    OBVIOUS
  <2>1. 1 \in 1 .. part /\ n - part + 1 \in 1 .. w /\ n - part + 1 > 1 /\ n - part \in 1 .. n - 1
        /\ n - part + 1 - 1 = n - part
    BY <1>5, <1>8, SMTT(30)
  <2>2. lacing[n - part + 1].part = 1
    BY <1>8, <2>1
  <2>3. lacing[n - part + 1 - 1].last
    BY <2>1, <2>2 DEF Framed
  <2> QED
    BY <1>4, <2>1, <2>3
<1>10. \A j \in 1 .. n : n - part + j = j
  BY <1>5, <1>9
<1>11. \A j \in 1 .. n : lacing[j].packet = q /\ lacing[j].part = j
  BY <1>8, <1>9, <1>10
<1>12. lacing[1].packet = q /\ lacing[1].part = 1
  BY <1>5, <1>11
<1> QED
  BY <1>4, <1>5, <1>8, <1>9, <1>11, <1>12 DEF q, n

LEMMA RestFramed ==
    ASSUME GivenInv, NEW lacing, NEW w \in Nat, NEW n \in 1 .. w, Framed(lacing, w), lacing[n].last,
           NEW rest, \A i \in 1 .. w - n : rest[i] = lacing[n + i]
    PROVE  /\ Framed(rest, w - n)
           /\ \A i \in 1 .. w - n : i = 1 => IsGap(rest[i]) \/ rest[i].part = 1
<1>1. ASSUME NEW i \in 1 .. w - n, ~IsGap(rest[i])
      PROVE  InPacket(rest, i)
  <2> DEFINE q == rest[i].packet
             part == rest[i].part
  <2>1. n + i \in 1 .. w /\ rest[i] = lacing[n + i]
    OBVIOUS
  <2>2. ~IsGap(lacing[n + i])
    BY <1>1, <2>1
  <2>3. InPacket(lacing, n + i)
    BY <2>1, <2>2 DEF Framed
  <2>4. q \in 1 .. Len(given) /\ part \in 1 .. n + i /\ part <= given[q].segments
    BY <2>1, <2>3 DEF InPacket
  <2>a. rest[i].last <=> part = given[q].segments
    BY <2>1, <2>3 DEF InPacket
  <2>b. rest[i].last => /\ rest[i].granulepos = given[q].granulepos
                        /\ rest[i].e_o_s = given[q].e_o_s
    BY <2>1, <2>3 DEF InPacket
  <2>c. \A j \in 1 .. part : /\ lacing[n + i - part + j].packet = q
                            /\ lacing[n + i - part + j].part = j
    BY <2>1, <2>3, SMTT(30) DEF InPacket
  <2> HIDE DEF q, part
  <2>5. given[q].segments \in Nat /\ q # 0
    <3>1. given[q] \in PacketType
      BY <2>4, ElementType DEF GivenInv
    <3> QED
      BY <2>4, <3>1, SMTT(30) DEF PacketType, GivenInv
  <2>6. part <= i
    <3> SUFFICES ASSUME part > i PROVE FALSE
      BY <2>4
    <3>1. part - i \in 1 .. part /\ n + i - part + (part - i) = n
      BY <2>4
    <3>2. lacing[n].packet = q /\ lacing[n].part = part - i
      BY <2>c, <3>1
    <3>3. ~IsGap(lacing[n]) /\ n \in 1 .. w
      BY <2>5, <3>2 DEF IsGap
    <3>4. part - i = given[q].segments
      BY <3>2, <3>3 DEF Framed, InPacket
    <3> QED
      BY <2>4, <2>5, <3>4
  <2>7. \A j \in 1 .. part : rest[i - part + j].packet = q /\ rest[i - part + j].part = j
    <3> SUFFICES ASSUME NEW j \in 1 .. part
                 PROVE  rest[i - part + j].packet = q /\ rest[i - part + j].part = j
      OBVIOUS
    <3>1. i - part + j \in 1 .. w - n /\ n + (i - part + j) = n + i - part + j
      BY <2>4, <2>6
    <3> QED
      BY <2>c, <3>1
  <2>8. part \in 1 .. i
    BY <2>4, <2>6
  <2> QED
    BY <2>4, <2>a, <2>b, <2>7, <2>8 DEF InPacket, q, part
<1>2. ASSUME NEW i \in 1 .. w - n
      PROVE  /\ IsGap(rest[i]) => rest[i].last
             /\ i > 1 /\ (IsGap(rest[i]) \/ rest[i].part = 1) => rest[i - 1].last
  <2>1. n + i \in 1 .. w /\ n + i > 1 /\ rest[i] = lacing[n + i]
    OBVIOUS
  <2>2. i > 1 => i - 1 \in 1 .. w - n /\ n + (i - 1) = n + i - 1
    OBVIOUS
  <2>3. i > 1 => rest[i - 1] = lacing[n + i - 1]
    BY <2>2
  <2> QED
    BY <2>1, <2>3 DEF Framed
<1>3. w - n > 0 => rest[w - n].last
  <2>1. w - n > 0 => w - n \in 1 .. w - n /\ n + (w - n) = w /\ w > 0
    OBVIOUS
  <2> QED
    BY <2>1 DEF Framed
<1>4. ASSUME NEW i \in 1 .. w - n, i = 1, ~IsGap(rest[i]) PROVE rest[i].part = 1
  <2>1. rest[i].part \in 1 .. i
    BY <1>1, <1>4 DEF InPacket
  <2> QED
    BY <1>4, <2>1
<1> QED
  BY <1>1, <1>2, <1>3, <1>4 DEF Framed

LEMMA RestLinked ==
    ASSUME NEW lacing, NEW w \in Nat, NEW n \in 1 .. w, NEW rest,
           \A i \in 1 .. w - n : rest[i] = lacing[n + i],
           NEW got, NEW more, Len(got) \in Nat, Len(more) = Len(got) + 1,
           \A r \in 1 .. Len(got) : more[r] = got[r],
           more[Len(got) + 1][1] = lacing[1],
           IsGap(lacing[1]) \/ (IsEnd(lacing[n]) /\ lacing[n].packet = lacing[1].packet),
           NEW next, Linked(got, lacing, w, next)
    PROVE  Linked(more, rest, w - n, next)
<1>1. \A r \in 1 .. Len(more) : r \in 1 .. Len(got) \/ r = Len(got) + 1
  OBVIOUS
<1>2. \A j \in 1 .. w - n : n + j \in 1 .. w /\ n + j # 1 /\ rest[j] = lacing[n + j]
  OBVIOUS
<1>3. ASSUME NEW r \in 1 .. Len(got), IsPacket(got[r])
      PROVE  /\ Follows(more[r][1].packet, next, r = Len(more) /\ w - n = 0)
             /\ \A j \in 1 .. w - n : IsStart(rest[j]) =>
                    Follows(more[r][1].packet, rest[j].packet, r = Len(more) /\ j = 1)
  <2>1. r # Len(more) /\ w # 0 /\ more[r] = got[r]
    OBVIOUS
  <2>2. Follows(got[r][1].packet, next, r = Len(got) /\ w = 0)
    BY <1>3 DEF Linked
  <2>3. \A j \in 1 .. w - n : IsStart(rest[j]) =>
            Follows(got[r][1].packet, rest[j].packet, r = Len(got) /\ n + j = 1)
    BY <1>2, <1>3 DEF Linked
  <2> QED
    BY <1>2, <2>1, <2>2, <2>3 DEF Follows
<1>4. ASSUME NEW r, r = Len(got) + 1, IsPacket(more[r])
      PROVE  /\ Follows(more[r][1].packet, next, r = Len(more) /\ w - n = 0)
             /\ \A j \in 1 .. w - n : IsStart(rest[j]) =>
                    Follows(more[r][1].packet, rest[j].packet, r = Len(more) /\ j = 1)
  <2>1. IsEnd(lacing[n]) /\ more[r][1].packet = lacing[n].packet /\ r = Len(more)
    BY <1>4 DEF IsPacket
  <2>2. Follows(lacing[n].packet, next, n = w)
    BY <2>1 DEF Linked
  <2>3. \A j \in 1 .. w - n : n + j \in n + 1 .. w /\ (j = 1 <=> n + j = n + 1)
    OBVIOUS
  <2>4. \A j \in 1 .. w - n : IsStart(rest[j]) =>
            Follows(lacing[n].packet, rest[j].packet, n + j = n + 1)
    BY <1>2, <2>1, <2>3 DEF Linked
  <2>5. n = w <=> w - n = 0
    OBVIOUS
  <2> QED
    BY <2>1, <2>2, <2>3, <2>4, <2>5 DEF Follows
<1>5. ASSUME NEW i \in 1 .. w - n, IsEnd(rest[i])
      PROVE  /\ Follows(rest[i].packet, next, i = w - n)
             /\ \A j \in i + 1 .. w - n : IsStart(rest[j]) =>
                    Follows(rest[i].packet, rest[j].packet, j = i + 1)
  <2>1. n + i \in 1 .. w /\ rest[i] = lacing[n + i] /\ (i = w - n <=> n + i = w)
    OBVIOUS
  <2>2. Follows(rest[i].packet, next, n + i = w)
    BY <1>5, <2>1 DEF Linked
  <2>3. \A j \in i + 1 .. w - n : /\ n + j \in n + i + 1 .. w /\ rest[j] = lacing[n + j]
                                  /\ j = i + 1 <=> n + j = n + i + 1
    OBVIOUS
  <2>4. \A j \in i + 1 .. w - n : IsStart(rest[j]) =>
            Follows(rest[i].packet, rest[j].packet, n + j = n + i + 1)
    BY <1>5, <2>1, <2>3 DEF Linked
  <2> QED
    BY <2>1, <2>2, <2>3, <2>4 DEF Follows
<1>6. ASSUME NEW r \in 1 .. Len(more), IsPacket(more[r])
      PROVE  /\ Follows(more[r][1].packet, next, r = Len(more) /\ w - n = 0)
             /\ \A j \in 1 .. w - n : IsStart(rest[j]) =>
                    Follows(more[r][1].packet, rest[j].packet, r = Len(more) /\ j = 1)
  <2>1. CASE r \in 1 .. Len(got)
    BY <1>3, <1>6, <2>1
  <2>2. CASE r = Len(got) + 1
    BY <1>4, <1>6, <2>2
  <2> QED
    BY <1>1, <2>1, <2>2
<1> QED
  BY <1>5, <1>6 DEF Linked
(* A packet that has been got is behind all others.                         *)
LEMMA ReadsAppended ==
    ASSUME GivenInv, NEW got, NEW more, Len(got) \in Nat, Len(more) = Len(got) + 1,
           \A r \in 1 .. Len(got) : more[r] = got[r], ReadsFollow(got),
           NEW lacing, NEW w \in Nat \ {0}, NEW next, Linked(got, lacing, w, next),
           more[Len(got) + 1][1] = lacing[1],
           IsGap(lacing[1]) \/ lacing[1].part = 1
    PROVE  ReadsFollow(more)
<1> SUFFICES ASSUME NEW r \in 1 .. Len(more), NEW t \in 1 .. Len(more), r < t,
                    IsPacket(more[r]), IsPacket(more[t])
             PROVE  Follows(more[r][1].packet, more[t][1].packet, t = r + 1)
  BY DEF ReadsFollow
<1>1. r \in 1 .. Len(got) /\ (t \in 1 .. Len(got) \/ t = Len(got) + 1)
  OBVIOUS
<1>2. CASE t \in 1 .. Len(got)
  BY <1>1, <1>2 DEF ReadsFollow
<1>3. CASE t = Len(got) + 1
  <2>1. IsStart(lacing[1]) /\ more[t][1].packet = lacing[1].packet
    BY <1>3 DEF IsPacket, IsStart
  <2>2. 1 \in 1 .. w /\ more[r] = got[r] /\ (t = r + 1 <=> r = Len(got))
    BY <1>1, <1>3
  <2>3. Follows(got[r][1].packet, lacing[1].packet, r = Len(got))
    BY <1>1, <2>1, <2>2 DEF Linked
  <2> QED
    BY <2>1, <2>2, <2>3 DEF Follows
<1> QED
  BY <1>1, <1>2, <1>3

LEMMA ReadPacketStep ==
    ASSUME GivenInv, PagesInv, ReadsInv, DecoderInv, ReadPacket PROVE ReadsInv' /\ DecoderInv'
<1> DEFINE lacing == rs.lacing
           w == rs.whole
           n == PacketSize(rs)
           rest == SubSeq(lacing, n + 1, Len(lacing))
           front == SubSeq(lacing, 1, n)
<1>1. /\ rs.whole > 0 /\ rs' = PacketOut(rs) /\ reads' = Append(reads, front)
      /\ UNCHANGED <<position, file, given, failed>>
  BY DEF ReadPacket, PacketReady, historyVars, fileVars
<1>2. /\ lacing \in Seq(SegmentRead) /\ w \in Nat \ {0} /\ Len(lacing) \in Nat /\ w <= Len(lacing)
      /\ w \in 1 .. Len(lacing) /\ rs.pageno \in Int /\ Framed(lacing, w)
  BY <1>1 DEF DecoderInv, Decoder
<1>3. reads \in Seq(Seq(SegmentRead)) /\ Len(reads) \in Nat
  BY DEF ReadsInv
<1>4. n = IF IsGap(lacing[1]) THEN 1 ELSE FirstEnd(lacing)
  <2>1. lacing # << >>
    BY <1>2, EmptyLength
  <2>2. Head(lacing) = lacing[1]
    BY <1>2, <2>1
  <2> QED
    BY <2>2 DEF PacketSize
<1>5. /\ n \in 1 .. w /\ lacing[n].last
      /\ IsGap(lacing[1]) => n = 1
  <2>1. CASE IsGap(lacing[1])
    <3>1. 1 \in 1 .. w
      BY <1>2
    <3> QED
      BY <1>2, <1>4, <2>1, <3>1 DEF Framed
  <2>2. CASE ~IsGap(lacing[1])
    <3> HIDE DEF lacing, w, n
    <3> QED
      BY <1>2, <1>4, <2>2, HeadPacket
  <2> QED
    BY <2>1, <2>2
<1>6. ASSUME ~IsGap(lacing[1])
      PROVE  LET q == lacing[1].packet
             IN  /\ q \in 1 .. Len(given) /\ n = given[q].segments
                 /\ lacing[1].part = 1 /\ lacing[n].packet = q
                 /\ \A j \in 1 .. n : lacing[j].packet = q /\ lacing[j].part = j
                 /\ lacing[n].granulepos = given[q].granulepos
                 /\ lacing[n].e_o_s = given[q].e_o_s
  <2> HIDE DEF lacing, w, n
  <2> QED
    BY <1>2, <1>4, <1>6, HeadPacket
<1>7. /\ rs'.lacing = rest /\ rs'.whole = w - n /\ rs'.pageno = rs.pageno
      /\ rs' = [lacing |-> rest, whole |-> w - n, pageno |-> rs.pageno]
  BY <1>1 DEF PacketOut
<1> HIDE DEF n, w, lacing
<1>8. /\ front \in Seq(SegmentRead) /\ Len(front) = n /\ \A i \in 1 .. n : front[i] = lacing[i]
  <2>1. n \in 0 .. Len(lacing)
    BY <1>2, <1>5
  <2> QED
    BY <1>2, <2>1, FrontElements
<1>9. /\ rest \in Seq(SegmentRead) /\ Len(rest) = Len(lacing) - n
      /\ \A i \in 1 .. Len(lacing) - n : rest[i] = lacing[n + i]
  <2>1. n \in Nat /\ Len(lacing) \in 0 .. Len(lacing) /\ n <= Len(lacing)
    BY <1>2, <1>5
  <2> QED
    BY <1>2, <2>1, SubSeqElements
<1> HIDE DEF rest, front
<1>10. \A i \in 1 .. w - n : rest[i] = lacing[n + i]
  BY <1>2, <1>5, <1>9
<1>11. /\ reads' \in Seq(Seq(SegmentRead)) /\ Len(reads') = Len(reads) + 1
       /\ reads'[Len(reads) + 1] = front
       /\ \A r \in 1 .. Len(reads) : reads'[r] = reads[r]
  BY <1>1, <1>3, <1>8
<1>12. front[1] = lacing[1]
  BY <1>5, <1>8
<1>13. Framed(rest, w - n) /\ \A i \in 1 .. w - n : i = 1 => IsGap(rest[i]) \/ rest[i].part = 1
  BY <1>2, <1>5, <1>10, RestFramed
<1>14. IsGap(lacing[1]) \/ (IsEnd(lacing[n]) /\ lacing[n].packet = lacing[1].packet)
  <2> SUFFICES ASSUME ~IsGap(lacing[1])
               PROVE  IsEnd(lacing[n]) /\ lacing[n].packet = lacing[1].packet
    OBVIOUS
  <2>1. lacing[n].packet = lacing[1].packet
    BY <1>6
  <2> QED
    BY <1>5, <2>1 DEF IsEnd, IsGap
<1>15. PICK x \in 1 .. position - 1 :
           /\ ReadTo(rs, reads, file[x].page)
           /\ ~failed => x = position - 1 /\ NothingLost(rs, reads, file[x].page)
  <2>1. rs # NewDecoder
    BY <1>1 DEF NewDecoder
  <2> QED
    BY <2>1 DEF DecoderInv
<1> DEFINE old == file[x].page
           next == NextRead(rs, old)
<1> HIDE DEF old
<1>16. Linked(reads, lacing, w, next)
  BY <1>15 DEF ReadTo, old, lacing, w
<1>17. InProgress(rs') <=> InProgress(rs)
  <2>1. InProgress(rs') <=> Len(lacing) - n > w - n
    BY <1>7, <1>9 DEF InProgress
  <2>2. Len(lacing) - n > w - n <=> Len(lacing) > w
    BY <1>2, <1>5
  <2> QED
    BY <2>1, <2>2 DEF InProgress, lacing, w
<1>18. NextRead(rs', old) = next
  BY <1>17 DEF NextRead
<1> HIDE DEF next
<1>19. Linked(reads', rest, w - n, next)
  <2>1. w \in Nat
    BY <1>2
  <2> QED
    BY <1>3, <1>5, <1>10, <1>11, <1>12, <1>14, <1>16, <2>1, RestLinked
<1>20. ReadsFollow(reads')
  <2>1. IsGap(lacing[1]) \/ lacing[1].part = 1
    BY <1>6
  <2>2. ReadsFollow(reads)
    BY DEF ReadsInv
  <2> QED
    BY <1>2, <1>3, <1>11, <1>12, <1>16, <2>1, <2>2, ReadsAppended
<1>21. IsPacket(front) => WholePacket(front)
  <2> SUFFICES ASSUME ~IsGap(lacing[1]) PROVE WholePacket(front)
    BY <1>12 DEF IsPacket
  <2>1. n \in 1 .. n
    BY <1>5
  <2> QED
    BY <1>6, <1>8, <1>12, <2>1 DEF WholePacket
<1>22. ~failed => IsPacket(front) /\ front[1].packet = Len(reads) + 1
  <2>1. 1 \in 1 .. w /\ w > 0
    BY <1>2
  <2> QED
    BY <1>12, <1>15, <2>1 DEF NothingLost, IsPacket, lacing, w
<1>23. \A r \in 1 .. Len(reads') : r \in 1 .. Len(reads) \/ r = Len(reads) + 1
  BY <1>3, <1>11
<1>24. ReadsInv'
  <2>1. \A r \in 1 .. Len(reads') : IsPacket(reads'[r]) => WholePacket(reads'[r])
    BY <1>11, <1>21, <1>23 DEF ReadsInv
  <2>2. \A r \in 1 .. Len(reads') : IsPacket(reads[r])' => WholePacket(reads[r])'
    BY <1>1, <2>1 DEF WholePacket, IsPacket
  <2>3. ~failed' => \A r \in 1 .. Len(reads') :
                        IsPacket(reads'[r]) /\ reads'[r][1].packet = r
    BY <1>1, <1>11, <1>22, <1>23 DEF ReadsInv
  <2> QED
    BY <1>11, <1>20, <2>2, <2>3 DEF ReadsInv, ReadsFollow, IsPacket
<1>25. ReadTo(rs', reads', old)
  <2>1. rs'.pageno = old.pageno + 1
    BY <1>7, <1>15 DEF ReadTo, old
  <2>2. Linked(reads', rs'.lacing, rs'.whole, NextRead(rs', old))
    BY <1>7, <1>18, <1>19
  <2>3. ASSUME InProgress(rs')
        PROVE  /\ ~Ends(given, old) /\ Len(rs'.lacing) = rs'.whole + PageLast(old)
               /\ \A j \in 1 .. PageLast(old) : IsPart(rs'.lacing[rs'.whole + j], PagePacket(old), j)
    <3>1. /\ ~Ends(given, old) /\ Len(lacing) = w + PageLast(old)
          /\ \A j \in 1 .. PageLast(old) : IsPart(lacing[w + j], PagePacket(old), j)
      BY <1>15, <1>17, <2>3 DEF ReadTo, old, lacing, w
    <3>2. PageLast(old) \in Nat
      <4>1. x \in 1 .. Len(file)
        BY DEF DecoderInv, PagesInv
      <4>2. PageInv(given, old)
        BY <4>1 DEF PagesInv, old
      <4> QED
        BY <4>2, PageNumbers
    <3>3. Len(rest) = w - n + PageLast(old)
      BY <1>2, <1>5, <1>9, <3>1, <3>2
    <3>4. ASSUME NEW j \in 1 .. PageLast(old)
          PROVE  IsPart(rest[w - n + j], PagePacket(old), j)
      <4>1. w - n + j \in 1 .. Len(lacing) - n /\ n + (w - n + j) = w + j
        BY <1>2, <1>5, <3>1, <3>2
      <4> QED
        BY <1>9, <3>1, <4>1
    <3> QED
      BY <1>7, <3>1, <3>3, <3>4
  <2>4. ASSUME ~InProgress(rs'), ~Ends(given, old)
        PROVE  EndsLost(reads', rest)
    <3>1. EndsLost(reads, lacing) /\ Len(lacing) = w
      <4>1. ~InProgress(rs)
        BY <1>17, <2>4
      <4> QED
        BY <1>2, <1>15, <2>4, <4>1 DEF ReadTo, InProgress, old, lacing, w
    <3>2. lacing # << >>
      BY <1>2, EmptyLength
    <3>3. lacing[w] = Gap
      BY <3>1, <3>2 DEF EndsLost, Last
    <3>4. CASE n = w
      <4>1. Len(rest) = 0
        BY <1>2, <1>9, <3>1, <3>4
      <4>2. rest = << >>
        BY <1>9, <4>1, EmptyLength
      <4>3. IsGap(lacing[1])
        BY <1>14, <3>3, <3>4 DEF IsEnd, IsGap, Gap
      <4>4. reads'[Len(reads')] = front
        BY <1>11
      <4> QED
        BY <1>12, <4>2, <4>3, <4>4 DEF EndsLost
    <3>5. CASE n # w
      <4>1. Len(rest) = w - n /\ Len(rest) # 0 /\ w - n \in 1 .. Len(lacing) - n
            /\ n + (w - n) = w
        BY <1>2, <1>5, <1>9, <3>1, <3>5
      <4>2. rest # << >>
        BY <1>9, <4>1, EmptyLength
      <4>3. rest[w - n] = Gap
        BY <1>9, <3>3, <4>1
      <4> QED
        BY <4>1, <4>2, <4>3 DEF EndsLost, Last
    <3> QED
      BY <3>4, <3>5
  <2> QED
    BY <1>7, <2>1, <2>2, <2>3, <2>4 DEF ReadTo
<1>26. ~failed => NothingLost(rs', reads', old)
  <2> SUFFICES ASSUME ~failed PROVE NothingLost(rs', reads', old)
    OBVIOUS
  <2>1. /\ \A i \in 1 .. w : ~IsGap(lacing[i])
        /\ lacing[1].packet = Len(reads) + 1
    BY <1>2, <1>15 DEF NothingLost, lacing, w
  <2>2. ~IsGap(lacing[1])
    <3>1. 1 \in 1 .. w
      BY <1>2
    <3> QED
      BY <2>1, <3>1
  <2>3. IsEnd(lacing[n]) /\ lacing[n].packet = Len(reads) + 1
    BY <1>14, <2>1, <2>2
  <2>4. \A i \in 1 .. w - n : ~IsGap(rest[i])
    <3>1. \A i \in 1 .. w - n : n + i \in 1 .. w
      BY <1>2, <1>5
    <3> QED
      BY <1>10, <2>1, <3>1
  <2>5. ASSUME w - n > 0 PROVE rest[1].packet = Len(reads') + 1
    <3>1. 1 \in 1 .. w - n /\ n + 1 \in n + 1 .. w
      BY <1>2, <1>5, <2>5
    <3>2. IsStart(lacing[n + 1]) /\ rest[1] = lacing[n + 1]
      BY <1>10, <1>13, <2>4, <3>1 DEF IsStart
    <3>3. Follows(lacing[n].packet, lacing[n + 1].packet, n + 1 = n + 1)
      BY <1>5, <1>16, <2>3, <3>1, <3>2 DEF Linked
    <3> QED
      BY <1>11, <2>3, <3>2, <3>3 DEF Follows
  <2>6. ASSUME w - n = 0 PROVE NextRead(rs', old) = Len(reads') + 1
    <3>1. n = w
      BY <1>2, <1>5, <2>6
    <3>2. Follows(lacing[n].packet, next, n = w)
      BY <1>5, <1>16, <2>3 DEF Linked
    <3> QED
      BY <1>11, <1>18, <2>3, <3>1, <3>2 DEF Follows
  <2> QED
    BY <1>7, <2>4, <2>5, <2>6 DEF NothingLost
<1>27. rs' \in Decoder /\ rs'.whole <= Len(rs'.lacing)
  <2>1. w - n \in Nat /\ w - n <= Len(lacing) - n
    BY <1>2, <1>5
  <2> QED
    BY <1>2, <1>7, <1>9, <2>1 DEF Decoder
<1>28. Framed(rs.lacing, rs.whole)'
  BY <1>1, <1>7, <1>13 DEF Framed, InPacket
<1>29. /\ ReadTo(rs, reads, file[x].page)'
       /\ ~failed => NothingLost(rs, reads, file[x].page)'
  <2>1. file'[x].page = old /\ given' = given
    BY <1>1 DEF old
  <2> QED
    BY <1>25, <1>26, <2>1 DEF ReadTo, NothingLost, IsPart
<1>30. DecoderInv'
  <2>1. position' \in 1 .. Len(file') + 1 /\ (~failed => position' <= WholePages(file') + 1)
    BY <1>1 DEF DecoderInv, WholePages
  <2> QED
    BY <1>1, <1>15, <1>27, <1>28, <1>29, <2>1 DEF DecoderInv
<1> QED
  BY <1>24, <1>30
-----------------------------------------------------------------------------
(* The recorder and the reader together. *)

VoiceInv == RecorderInv /\ FileInv /\ ReaderInv

LEMMA NewDecoderInv ==
    ASSUME rs = NewDecoder, reads = << >>, position = 1, PagesInv
    PROVE  ReadsInv /\ DecoderInv
<1>1. /\ << >> \in Seq(SegmentRead) /\ << >> \in Seq(Seq(SegmentRead)) /\ Len(<< >>) = 0
  OBVIOUS
<1>2. rs.lacing = << >> /\ rs.whole = 0 /\ rs \in Decoder
  BY <1>1 DEF NewDecoder, Decoder
<1>3. Framed(rs.lacing, rs.whole)
  BY <1>2 DEF Framed
<1>4. position \in 1 .. Len(file) + 1 /\ position <= WholePages(file) + 1
  BY DEF PagesInv, WholePages
<1>5. ReadsInv
  BY <1>1 DEF ReadsInv, ReadsFollow
<1> QED
  BY <1>1, <1>2, <1>3, <1>4, <1>5 DEF DecoderInv

LEMMA VoiceInit == Init => VoiceInv
<1> SUFFICES ASSUME Init PROVE VoiceInv
  OBVIOUS
<1>1. RecorderInv /\ FileInv
  BY RecorderInit, FileInit
<1>2. rs = NewDecoder /\ reads = << >> /\ position = 1
  BY DEF Init
<1>3. ReadsInv /\ DecoderInv
  BY <1>1, <1>2, NewDecoderInv DEF FileInv
<1> QED
  BY <1>1, <1>2, <1>3 DEF VoiceInv, ReaderInv

LEMMA ReaderStep ==
    ASSUME RecorderInv, FileInv, FileInv', ReaderInv, [Next]_vars PROVE ReaderInv'
<1>0. GivenInv /\ PagesInv /\ PagesInv' /\ ReadsInv /\ DecoderInv /\ failed \in BOOLEAN
  BY DEF RecorderInv, TypesInv, FileInv, ReaderInv
<1>1. CASE ReadPage
  <2>1. pc' = "closed"
    BY <1>1 DEF ReadPage
  <2> QED
    BY <1>0, <1>1, <2>1, ReadPageStep DEF ReaderInv
<1>2. CASE SkipPage
  <2>1. pc' = "closed"
    BY <1>2 DEF SkipPage
  <2> QED
    BY <1>0, <1>2, <2>1, SkipPageStep DEF ReaderInv
<1>3. CASE ReadPacket
  <2>1. pc' = "closed"
    BY <1>3 DEF ReadPacket
  <2> QED
    BY <1>0, <1>3, <2>1, ReadPacketStep DEF ReaderInv
<1>4. CASE pc # "closed" /\ UNCHANGED readVars
  <2>1. rs' = NewDecoder /\ reads' = << >> /\ position' = 1
    BY <1>4 DEF ReaderInv, readVars
  <2>2. << >> \in Seq(SegmentRead) /\ << >> \in Seq(Seq(SegmentRead)) /\ Len(<< >>) = 0
    OBVIOUS
  <2>3. rs'.lacing = << >> /\ rs'.whole = 0 /\ rs' \in Decoder
    BY <2>1, <2>2 DEF NewDecoder, Decoder
  <2>4. Framed(rs.lacing, rs.whole)'
    BY <2>3 DEF Framed
  <2>5. position' \in 1 .. Len(file') + 1 /\ position' <= WholePages(file') + 1
    BY <1>0, <2>1 DEF PagesInv, WholePages
  <2>6. ReadsInv'
    BY <2>1, <2>2 DEF ReadsInv, ReadsFollow
  <2>7. DecoderInv'
    BY <2>1, <2>2, <2>3, <2>4, <2>5 DEF DecoderInv
  <2> QED
    BY <2>1, <2>6, <2>7 DEF ReaderInv
<1>5. CASE UNCHANGED vars
  <2>1. UNCHANGED <<pc, rs, reads, position, given, failed, file>>
    BY <1>5 DEF vars, readVars, historyVars, fileVars
  <2>0. Framed(rs.lacing, rs.whole)
    BY <1>0 DEF ReaderInv, DecoderInv
  <2>2. Framed(rs.lacing, rs.whole)'
    BY <2>0, <2>1, SMTT(60) DEF Framed, InPacket
  <2>3. \A x : ReadTo(rs, reads, file[x].page) => ReadTo(rs, reads, file[x].page)'
    BY <2>1 DEF ReadTo, IsPart
  <2>4. DecoderInv'
    BY <1>0, <2>1, <2>2, <2>3 DEF DecoderInv, NothingLost, WholePages
  <2> QED
    BY <1>0, <2>1, <2>4, ReadsKept DEF ReaderInv
<1>6. CASE \/ InitRecorder \/ WriteHeader \/ GiveComments \/ Started
           \/ \E n \in 1 .. FrameSize, size \in FrameSegments : WriteFrame(n, size)
           \/ \E n \in 1 .. FrameSize : EncodingFails(n)
           \/ WriteEmptyFrame \/ FlushBefore \/ GiveFrame \/ FlushAfter \/ FrameWritten
           \/ StopRecord
  <2>1. pc # "closed" /\ UNCHANGED readVars
    BY <1>6 DEF InitRecorder, WriteHeader, GiveComments, Started, WriteFrame, EncodingFails,
                WriteEmptyFrame, BeginFrame, FlushBefore, GiveFrame, FlushAfter, FlushPage,
                FrameWritten, StopRecord
  <2> QED
    BY <1>4, <2>1
<1> QED
  BY <1>1, <1>2, <1>3, <1>5, <1>6 DEF Next

LEMMA VoiceStep == VoiceInv /\ [Next]_vars => VoiceInv'
  BY RecorderStep, FileStep, ReaderStep DEF VoiceInv

LEMMA WholeShows == VoiceInv => PacketsWhole
<1> SUFFICES ASSUME VoiceInv, NEW i \in DOMAIN reads \ Gaps
             PROVE  LET segments == reads[i]
                        packet == given[PacketRead(i)]
                    IN  /\ Len(segments) = packet.segments
                        /\ \A j \in DOMAIN segments :
                               segments[j].packet = PacketRead(i) /\ segments[j].part = j
                        /\ Last(segments).granulepos = packet.granulepos
                        /\ Last(segments).e_o_s = packet.e_o_s
                        /\ \A j \in DOMAIN reads \ Gaps : j < i => PacketRead(j) < PacketRead(i)
  BY DEF PacketsWhole
<1>1. GivenInv /\ ReadsInv /\ reads \in Seq(Seq(SegmentRead)) /\ DOMAIN reads = 1 .. Len(reads)
  BY DEF VoiceInv, RecorderInv, ReaderInv, ReadsInv
<1>2. \A r \in DOMAIN reads \ Gaps : r \in 1 .. Len(reads) /\ IsPacket(reads[r])
  BY <1>1 DEF Gaps, IsPacket
<1>3. WholePacket(reads[i]) /\ reads[i] \in Seq(SegmentRead)
  BY <1>1, <1>2, ElementType DEF ReadsInv
<1>4. DOMAIN reads[i] = 1 .. Len(reads[i])
  BY <1>3
<1>5. ASSUME NEW j \in DOMAIN reads \ Gaps, j < i
      PROVE  PacketRead(j) < PacketRead(i)
  <2>1. Follows(reads[j][1].packet, reads[i][1].packet, i = j + 1)
    BY <1>1, <1>2, <1>5 DEF ReadsInv, ReadsFollow
  <2>2. reads[j][1].packet \in Nat /\ reads[i][1].packet \in Nat
    BY <1>1, <1>2, ReadPackets DEF ReadsInv
  <2> QED
    BY <2>1, <2>2 DEF Follows, PacketRead
<1> QED
  BY <1>3, <1>4, <1>5 DEF WholePacket, PacketRead, Last

(* Whatever was not written or torn, what is read is a packet that was      *)
(* given, whole and in its place: for frames of any size, pages of any size *)
(* and a file that any of the pages is missing from.                        *)
THEOREM PacketsReadWhole == Spec => []PacketsWhole
<1> QED
  BY VoiceInit, VoiceStep, WholeShows, PTL DEF Spec

LEMMA GapsShow == VoiceInv => GapsReported
<1> SUFFICES ASSUME VoiceInv PROVE GapsReported
  OBVIOUS
<1>1. /\ GivenInv /\ ReadsInv /\ reads \in Seq(Seq(SegmentRead)) /\ DOMAIN reads = 1 .. Len(reads)
      /\ PagesInv /\ ClosedInv /\ DecoderInv /\ Len(reads) \in Nat /\ Len(file) \in Nat
  BY DEF VoiceInv, RecorderInv, ReaderInv, ReadsInv, FileInv, PagesInv
<1>2. \A r \in DOMAIN reads \ Gaps : r \in 1 .. Len(reads) /\ IsPacket(reads[r])
  BY <1>1 DEF Gaps, IsPacket
<1>3. ASSUME NEW i \in DOMAIN reads \ Gaps, NEW j \in DOMAIN reads \ Gaps, i < j
      PROVE  PacketRead(j) > PacketRead(i) + 1 <=> i + 1 .. j - 1 # {}
  <2>1. Follows(reads[i][1].packet, reads[j][1].packet, j = i + 1)
    BY <1>1, <1>2, <1>3 DEF ReadsInv, ReadsFollow
  <2>2. reads[j][1].packet \in Nat /\ reads[i][1].packet \in Nat
    BY <1>1, <1>2, ReadPackets DEF ReadsInv
  <2>3. i + 1 .. j - 1 # {} <=> j # i + 1
    <3>1. i \in Nat /\ j \in Nat
      BY <1>2
    <3>2. j # i + 1 => i + 1 \in i + 1 .. j - 1
      BY <1>3, <3>1
    <3>3. j = i + 1 => i + 1 .. j - 1 = {}
      BY <3>1
    <3> QED
      BY <3>2, <3>3
  <2> QED
    BY <2>1, <2>2, <2>3 DEF Follows, PacketRead
<1>4. ASSUME Exhausted, ~failed
      PROVE  /\ Gaps = {} /\ \A i \in DOMAIN reads : PacketRead(i) = i
             /\ Len(given) - Len(reads) <= LostAtClose
  <2> DEFINE n == WholePages(file)
             page == file[n].page
  <2>1. Gaps = {} /\ \A i \in DOMAIN reads : PacketRead(i) = i
    BY <1>1, <1>4 DEF Gaps, ReadsInv, IsPacket, PacketRead
  <2>2. /\ pc = "closed" /\ ~Synced(file, position) /\ rs.whole = 0
        /\ position \in 1 .. Len(file) + 1
    BY <1>1, <1>4 DEF Exhausted, PacketReady, DecoderInv, Decoder
  <2>3. n = position - 1
    <3>1. n <= Len(file) /\ position \in 1 .. n + 1 /\ n \in Nat
      BY <1>1, <1>4 DEF DecoderInv, WholePages
    <3>2. CASE position = Len(file) + 1
      BY <1>1, <3>1, <3>2
    <3>3. CASE position # Len(file) + 1
      <4>1. position \in 1 .. Len(file) /\ file[position].missing # 0
        BY <1>1, <2>2, <3>3 DEF Synced
      <4>2. position = Len(file)
        BY <1>1, <1>4, <4>1 DEF PagesInv
      <4> QED
        BY <1>1, <4>1, <4>2 DEF WholePages
    <3> QED
      BY <3>2, <3>3
  <2>4. /\ Len(given) - Completed(given, file, n) <= LostAtClose
        /\ Len(given) \in Nat /\ LostAtClose \in Nat
    BY <1>1, <1>4, <2>2, RecorderAssumption DEF ClosedInv, GivenInv, LostAtClose
  <2> HIDE DEF n
  <2>5. CASE position = 1
    <3>1. Completed(given, file, n) = 0
      BY <2>3, <2>5 DEF Completed
    <3> QED
      BY <1>1, <2>1, <2>4, <3>1
  <2>6. CASE position # 1
    <3>1. n \in 1 .. Len(file) /\ n # 0
      BY <1>1, <2>2, <2>3, <2>6
    <3>2. ReadTo(rs, reads, page) /\ NothingLost(rs, reads, page)
      <4>1. PICK x \in 1 .. position - 1 :
                /\ ReadTo(rs, reads, file[x].page)
                /\ ~failed => x = position - 1 /\ NothingLost(rs, reads, file[x].page)
        BY <1>1, <1>4, <2>6 DEF DecoderInv
      <4> QED
        BY <1>4, <2>3, <4>1
    <3>3. PageInv(given, page) /\ PagePacket(page) \in 1 .. Len(given)
      BY <1>1, <3>1 DEF PagesInv, PageInv
    <3>4. Completed(given, file, n) = IF Ends(given, page) THEN PagePacket(page)
                                      ELSE PagePacket(page) - 1
      BY <3>1 DEF Completed
    <3> HIDE DEF page
    <3>5. NextRead(rs, page) = Len(reads) + 1
      BY <2>2, <3>2 DEF NothingLost
    <3>6. CASE InProgress(rs)
      <4>1. ~Ends(given, page) /\ PagePacket(page) = Len(reads) + 1
        BY <3>2, <3>5, <3>6 DEF ReadTo, NextRead
      <4> QED
        BY <1>1, <2>1, <2>4, <3>4, <4>1
    <3>7. CASE ~InProgress(rs)
      <4>1. PagePacket(page) = Len(reads)
        BY <1>1, <3>3, <3>5, <3>7 DEF NextRead
      <4>2. rs.lacing = << >>
        <5>1. Len(rs.lacing) = 0 /\ rs.lacing \in Seq(SegmentRead)
          BY <1>1, <2>2, <3>7 DEF InProgress, DecoderInv, Decoder
        <5> QED
          BY <5>1, EmptyLength
      <4>3. ~EndsLost(reads, rs.lacing)
        <5>1. Len(reads) \in 1 .. Len(reads) /\ reads # << >>
          BY <1>1, <3>3, <4>1, EmptyLength
        <5>2. ~IsGap(reads[Len(reads)][1])
          BY <1>1, <1>4, <5>1 DEF ReadsInv, IsPacket
        <5> QED
          BY <4>2, <5>1, <5>2 DEF EndsLost
      <4>4. Ends(given, page)
        BY <3>2, <3>7, <4>3 DEF ReadTo
      <4> QED
        BY <1>1, <2>1, <2>4, <3>4, <4>1, <4>4
    <3> QED
      BY <3>6, <3>7
  <2> QED
    BY <2>5, <2>6
<1> QED
  BY <1>3, <1>4 DEF GapsReported

(* The decoder is told of each gap between two packets; and a recording of  *)
(* which no call failed is read as it was given, but for at most as many    *)
(* packets at its end as the buffer holds pages, if closing the file lost   *)
(* them.                                                                    *)
THEOREM GapsAreReported == Spec => []GapsReported
<1> QED
  BY VoiceInit, VoiceStep, GapsShow, PTL DEF Spec

LEMMA TypesShow == VoiceInv => TypeOK
<1> SUFFICES ASSUME VoiceInv PROVE TypeOK
  OBVIOUS
<1>1. TypesInv /\ GivenInv /\ PagesInv /\ DecoderInv
  BY DEF VoiceInv, RecorderInv, FileInv, ReaderInv
<1>2. DOMAIN os = DOMAIN NewEncoder
  BY <1>1 DEF TypesInv, Encoder, NewEncoder
<1>3. DOMAIN rs = DOMAIN NewDecoder /\ rs.whole \in 0 .. Len(rs.lacing)
  BY <1>1 DEF DecoderInv, Decoder, NewDecoder
<1>4. \A i \in DOMAIN file : file[i].missing < PageLength(file[i].page)
  BY <1>1 DEF PagesInv
<1>6. flushed \in 0 .. Len(file) /\ Len(file) - flushed <= BufferPages /\ closeFailed \in BOOLEAN
  BY DEF VoiceInv, FileInv, BufferedInv
<1>5. given \in Seq(PacketType) /\ position \in 1 .. Len(file) + 1
  BY <1>1 DEF GivenInv, DecoderInv
<1> QED
  BY <1>1, <1>2, <1>3, <1>4, <1>5, <1>6 DEF TypeOK, TypesInv

(* The types of the recorder's, the stream's and the reader's state; a page *)
(* in the file has its header at least.                                     *)
THEOREM TypeCorrect == Spec => []TypeOK
<1> QED
  BY VoiceInit, VoiceStep, TypesShow, PTL DEF Spec
=============================================================================
