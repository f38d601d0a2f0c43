----------------------------- MODULE OggStream -----------------------------
(***************************************************************************)
(* Ogg framing (opus/ogg/framing.c): packets are cut into segments, and    *)
(* segments are put on numbered pages; at the other end pages become       *)
(* packets again.  A page that does not arrive costs the packets that have *)
(* a segment on it, and the reader is told that there is a gap.            *)
(*                                                                         *)
(* A segment is known by its packet and its place in it, and by whether it *)
(* is the last one (lacing value below 255).  One logical stream, and      *)
(* memory does not run out.  The limit of four packets and nfill bytes on  *)
(* a page is left out: no caller here reaches it.                          *)
(***************************************************************************)
EXTENDS Integers, Sequences, SequencesExt, FiniteSetsExt

CONSTANT PageSegments   \* 255

ASSUME PageAssumption == PageSegments \in Nat \ {0}

NoGranule == -1

Completes(segments) == \E i \in DOMAIN segments : segments[i].last
FirstEnd(segments) == Min({i \in DOMAIN segments : segments[i].last})
LastEnd(segments) == Max({i \in DOMAIN segments : segments[i].last})

-----------------------------------------------------------------------------
(***************************************************************************)
(* The writer: what is buffered, and what the next page needs to know.     *)
(***************************************************************************)
NewEncoder ==
    [lacing |-> <<>>, granulepos |-> 0, pageno |-> 0, b_o_s |-> FALSE, e_o_s |-> FALSE]

Lacing(os, op) ==
    [i \in 1 .. op.segments |->
        [packet |-> op.packetno, part |-> i, last |-> i = op.segments,
         granulepos |-> IF i = op.segments THEN op.granulepos ELSE os.granulepos]]

PacketIn(os, op) ==
    [os EXCEPT !.lacing = @ \o Lacing(os, op),
               !.granulepos = op.granulepos,
               !.e_o_s = @ \/ op.e_o_s]

(* The first page has the first packet only.                               *)
PageSize(os) ==
    LET maxvals == Min({PageSegments, Len(os.lacing)})
    IN  IF ~os.b_o_s /\ Completes(SubSeq(os.lacing, 1, maxvals))
        THEN FirstEnd(os.lacing) ELSE maxvals

GranuleOfPage(os, segments) ==
    IF ~os.b_o_s THEN 0
    ELSE IF Completes(segments) THEN segments[LastEnd(segments)].granulepos
    ELSE NoGranule

FlushedPage(os) ==
    LET segments == SubSeq(os.lacing, 1, PageSize(os))
    IN  [pageno |-> os.pageno,
         continued |-> segments[1].part # 1,
         b_o_s |-> ~os.b_o_s,
         e_o_s |-> os.e_o_s /\ Len(os.lacing) = PageSize(os),
         granulepos |-> GranuleOfPage(os, segments),
         segments |-> segments]

AfterFlush(os) ==
    [os EXCEPT !.lacing = SubSeq(@, PageSize(os) + 1, Len(@)),
               !.pageno = @ + 1,
               !.b_o_s = TRUE]

Flushable(os) == os.lacing # <<>>
PageDue(os) == Flushable(os) /\ (os.e_o_s \/ ~os.b_o_s \/ Len(os.lacing) >= PageSegments)

-----------------------------------------------------------------------------
(***************************************************************************)
(* The bytes between them: pages, of which the last `missing' bytes may be *)
(* missing.  ogg_sync_pageout goes on from a page that is not whole once   *)
(* it has as many bytes as the page should have, and waits until then.     *)
(***************************************************************************)
PageLength(page) == Len(page.segments) + 1
BytesAfter(file, position) ==
    FoldLeft(LAMBDA sum, chunk : sum + PageLength(chunk.page) - chunk.missing, 0,
             SubSeq(file, position + 1, Len(file)))

Synced(file, position) == position <= Len(file) /\ file[position].missing = 0
SyncFails(file, position) ==
    /\ position < Len(file)
    /\ file[position].missing \in 1 .. BytesAfter(file, position)

-----------------------------------------------------------------------------
(***************************************************************************)
(* The reader: segments of which the first `whole' make up whole packets,  *)
(* and gaps among them.  What was returned is forgotten at once.           *)
(***************************************************************************)
NewDecoder == [lacing |-> <<>>, whole |-> 0, pageno |-> -1]

Gap == [packet |-> 0, part |-> 0, last |-> TRUE, granulepos |-> NoGranule, e_o_s |-> FALSE]
IsGap(segment) == segment.packet = 0

(* A page out of sequence: the packet that was under way is dropped.       *)
Unrolled(rs) == SubSeq(rs.lacing, 1, rs.whole)
KeepPartial(rs, page) == rs.lacing
UnrollSilently(rs, page) == IF page.pageno = rs.pageno THEN rs.lacing ELSE Unrolled(rs)
Resequenced(rs, page) ==
    IF page.pageno = rs.pageno THEN rs.lacing
    ELSE IF rs.pageno = -1 THEN Unrolled(rs)
    ELSE Append(Unrolled(rs), Gap)

(* The end of a packet whose beginning is lost is skipped.                 *)
Orphaned(lacing, page) == page.continued /\ (lacing = <<>> \/ Last(lacing) = Gap)
SegmentsToKeep(lacing, page) ==
    IF ~Orphaned(lacing, page) THEN page.segments
    ELSE IF ~Completes(page.segments) THEN <<>>
    ELSE SubSeq(page.segments, FirstEnd(page.segments) + 1, Len(page.segments))

(* A page has one granule position: it is the last whole packet's.         *)
Received(page, segments) ==
    [i \in DOMAIN segments |->
        [packet |-> segments[i].packet, part |-> segments[i].part, last |-> segments[i].last,
         granulepos |-> IF Completes(segments) /\ i = LastEnd(segments)
                        THEN page.granulepos ELSE NoGranule,
         e_o_s |-> FALSE]]

MarkEnd(lacing, page) ==
    IF page.e_o_s /\ lacing # <<>> THEN [lacing EXCEPT ![Len(lacing)].e_o_s = TRUE] ELSE lacing

PageIn(rs, page) ==
    LET kept == Resequenced(rs, page)
        added == Received(page, SegmentsToKeep(kept, page))
    IN  [lacing |-> MarkEnd(kept \o added, page),
         whole |-> IF Completes(added) THEN Len(kept) + LastEnd(added)
                   ELSE IF page.pageno = rs.pageno THEN rs.whole ELSE Len(kept),
         pageno |-> page.pageno + 1]

PacketReady(rs) == rs.whole > 0

AllSegments(rs) == Len(rs.lacing)
PacketSize(rs) == IF IsGap(Head(rs.lacing)) THEN 1 ELSE FirstEnd(rs.lacing)
PacketOut(rs) ==
    [lacing |-> SubSeq(rs.lacing, PacketSize(rs) + 1, Len(rs.lacing)),
     whole |-> rs.whole - PacketSize(rs),
     pageno |-> rs.pageno]
=============================================================================
