----------------------- MODULE DocumentChunksProofs -----------------------
(***************************************************************************)
(* Chunks for every text and every number of saves: SplitSections keeps    *)
(* the text, the bound and the headings, and the transactions of           *)
(* SaveDocumentChunks implement ChunkLists.                                *)
(***************************************************************************)
EXTENDS DocumentChunks, TLAPS

USE TitlesAssumption, TextsAssumption

----------------------------------------------------------------------------
(* The loop of SplitSections *)

(***************************************************************************)
(* What the loop knows of its buffer: it is empty only before the first    *)
(* line; with two filled lines in it, it fits; no heading comes after a    *)
(* filled line; and currentHeading is the title of the last heading read.  *)
(***************************************************************************)
LoopInv ==
    /\ step = "called" => read = 0 /\ start = 1 /\ sections = <<>> /\ heading = NoTitle
    /\ step = "split" =>
          /\ start <= read \/ (read = 0 /\ start = 1)
          /\ \A i, j \in Buffered : i < j => text[read].end - text[start].at <= MaxRunes
          /\ \A i \in Buffered : \A j \in (i + 1)..read : ~LooksLikeHeading(text[j])
          /\ TitleAt(heading, read)

ChunkingInv == ChunkingTypeOK /\ TextKept /\ SectionBound /\ HeadingLeads /\ LoopInv

\* Before the first line nothing can have been lost, cut or misplaced.
LEMMA ChunkingInitInv == ChunkingInit => ChunkingInv
  <1> SUFFICES ASSUME ChunkingInit PROVE ChunkingInv
    OBVIOUS
  <1>1. IsText(text)
    BY DEF ChunkingInit
  <1>2. Len(text) \in Nat
    BY <1>1 DEF IsText
  <1>3. ChunkingTypeOK /\ TextKept /\ SectionBound /\ HeadingLeads
    BY <1>1, <1>2 DEF ChunkingInit, ChunkingTypeOK, TextKept, SectionBound, HeadingLeads, Filled
  <1> QED BY <1>3 DEF ChunkingInit, ChunkingInv, LoopInv

\* The same after a step that leads there, from the call or back to it.
LEMMA NothingReadYet ==
  ASSUME Len(text') \in Nat, sections' = <<>>, start' = 1, read' = 0, heading' = NoTitle,
         step' # "build"
  PROVE  TextKept' /\ SectionBound' /\ HeadingLeads' /\ LoopInv'
  <1>1. \A i \in Filled' : i \in Nat /\ i >= 1
    BY DEF Filled
  <1>2. Buffered' = {}
    BY <1>1 DEF Buffered
  <1>3. TextKept' /\ SectionBound' /\ HeadingLeads'
    BY <1>1 DEF TextKept, SectionBound, HeadingLeads
  <1>4. TitleAt(heading, read)'
    BY DEF TitleAt
  <1> QED BY <1>2, <1>3, <1>4 DEF LoopInv

\* White space taken off its ends, a text is still one.
LEMMA TrimKeepsText == ASSUME ChunkingInv, TrimText PROVE ChunkingInv'
  <1>1. PICK first, last \in Filled :
            /\ Trimmed(Filled, first, last)
            /\ text' = [i \in 1..(last - first + 1) |->
                   [text[first + i - 1] EXCEPT
                       !.at = IF i = 1 THEN text[first].from ELSE @,
                       !.end = IF i = last - first + 1 THEN text[last].to ELSE @]]
    BY DEF TrimText
  <1>2. /\ IsText(text) /\ text \in Seq(Line) /\ Len(text) \in Nat
        /\ first \in 1..Len(text) /\ last \in 1..Len(text) /\ first <= last
    <2>1. IsText(text)
      BY DEF ChunkingInv, ChunkingTypeOK
    <2>2. text \in Seq(Line)
      BY <2>1 DEF IsText
    <2>3. Len(text) \in Nat
      BY <2>2
    <2> QED BY <1>1, <2>1, <2>2, <2>3 DEF Filled, Trimmed
  <1> DEFINE n == last - first + 1
             Old(i) == text[first + i - 1]
             New1(i) == [Old(i) EXCEPT !.at = IF i = 1 THEN text[first].from ELSE Old(i).at,
                                       !.end = IF i = n THEN text[last].to ELSE Old(i).end]
  <1>3. n \in Nat /\ \A i \in 1..n : first + i - 1 \in 1..Len(text)
    BY <1>2
  <1>4. ASSUME NEW i \in 1..n
        PROVE  /\ Old(i) \in Line /\ New1(i) \in Line
               /\ New1(i).at = (IF i = 1 THEN Old(i).from ELSE Old(i).at)
               /\ New1(i).end = (IF i = n THEN Old(i).to ELSE Old(i).end)
               /\ New1(i).from = Old(i).from /\ New1(i).to = Old(i).to
    <2>1. Old(i) \in Line /\ text[first] \in Line /\ text[last] \in Line
      BY <1>2, <1>3
    <2>2. (i = 1 => Old(i) = text[first]) /\ (i = n => Old(i) = text[last])
      BY <1>2
    <2> HIDE DEF Old, n
    <2> QED BY <2>1, <2>2 DEF Line
  <1>5. text' = [i \in 1..n |-> New1(i)]
    BY <1>1
  <1>6. text' \in Seq(Line) /\ Len(text') = n /\ \A i \in 1..n : text'[i] = New1(i)
    <2> HIDE DEF New1, n
    <2> QED BY <1>3, <1>4, <1>5
  <1>7. \A i \in 1..n : /\ Old(i).at <= Old(i).from /\ Old(i).from <= Old(i).to
                        /\ Old(i).to <= Old(i).end
    BY <1>2, <1>3 DEF IsText
  <1>8. \A i \in 1..n : i + 1 \in 1..n => Old(i + 1).at = Old(i).end + 1
    <2> SUFFICES ASSUME NEW i \in 1..n, i + 1 \in 1..n
                 PROVE  text[first + (i + 1) - 1].at = text[first + i - 1].end + 1
      OBVIOUS
    <2>1. PICK k \in 1..(Len(text) - 1) : k = first + i - 1
      BY <1>2
    <2>2. first + (i + 1) - 1 = k + 1
      BY <1>2, <2>1
    <2> QED BY <1>2, <2>1, <2>2 DEF IsText
  <1>9. \A i, j \in 1..n : i < j => Old(i).end < Old(j).at
    <2> SUFFICES ASSUME NEW i \in 1..n, NEW j \in 1..n, i < j
                 PROVE  text[first + i - 1].end < text[first + j - 1].at
      OBVIOUS
    <2>1. first + i - 1 < first + j - 1
      BY <1>2
    <2> QED BY <1>2, <1>3, <2>1 DEF IsText
  <1>10. \A i \in 1..n : /\ Old(i).at \in Nat /\ Old(i).from \in Nat
                         /\ Old(i).to \in Nat /\ Old(i).end \in Nat
    <2> HIDE DEF Old
    <2> QED BY <1>4 DEF Line
  <1>11. IsText(text')
    <2> HIDE DEF New1, Old, n
    <2>1. \A i \in 1..n : /\ text'[i].at <= text'[i].from /\ text'[i].from <= text'[i].to
                          /\ text'[i].to <= text'[i].end
      BY <1>4, <1>6, <1>7, <1>10
    <2>2. \A i \in 1..(n - 1) : text'[i + 1].at = text'[i].end + 1
      <3> SUFFICES ASSUME NEW i \in 1..(n - 1) PROVE text'[i + 1].at = text'[i].end + 1
        OBVIOUS
      <3>1. i \in 1..n /\ i + 1 \in 1..n /\ i # n /\ i + 1 # 1
        BY <1>3
      <3> QED BY <1>4, <1>6, <1>8, <3>1
    <2>3. \A i, j \in 1..n : i < j => text'[i].end < text'[j].at
      <3> SUFFICES ASSUME NEW i \in 1..n, NEW j \in 1..n, i < j
                   PROVE  text'[i].end < text'[j].at
        OBVIOUS
      <3>1. i # n /\ j # 1
        BY <1>3
      <3> QED BY <1>4, <1>6, <1>9, <3>1
    <2> QED BY <1>6, <2>1, <2>2, <2>3 DEF IsText
  <1>12. /\ sections = <<>> /\ start = 1 /\ read = 0 /\ heading = NoTitle
         /\ UNCHANGED <<read, start, heading, sections, chunks>> /\ step' = "split"
    BY DEF ChunkingInv, LoopInv, TrimText
  <1>13. ChunkingTypeOK'
    <2> HIDE DEF n, New1, Old
    <2>1. Len(text') \in Nat
      BY <1>3, <1>6
    <2> QED BY <1>11, <1>12, <2>1 DEF ChunkingInv, ChunkingTypeOK
  <1>14. Len(text') \in Nat
    BY <1>13 DEF ChunkingTypeOK, IsText
  <1> QED BY <1>12, <1>13, <1>14, NothingReadYet DEF ChunkingInv

\* The lines of a text, one by one.
LEMMA LinesOfText ==
  ASSUME IsText(text)
  PROVE  /\ Len(text) \in Nat
         /\ \A i \in 1..Len(text) : /\ text[i] \in Line
                                    /\ text[i].at \in Nat /\ text[i].from \in Nat
                                    /\ text[i].to \in Nat /\ text[i].end \in Nat
                                    /\ text[i].title \in Titles \cup {NoTitle}
                                    /\ text[i].at <= text[i].from
                                    /\ text[i].from <= text[i].to /\ text[i].to <= text[i].end
         /\ \A i, j \in 1..Len(text) : i < j => text[i].end < text[j].at
  <1>1. text \in Seq(Line)
    BY DEF IsText
  <1>2. Len(text) \in Nat /\ \A i \in 1..Len(text) : text[i] \in Line
    BY <1>1
  <1>3. \A line \in Line : /\ line.at \in Nat /\ line.from \in Nat
                           /\ line.to \in Nat /\ line.end \in Nat
                           /\ line.title \in Titles \cup {NoTitle}
    BY DEF Line
  <1> QED BY <1>2, <1>3 DEF IsText

\* currentHeading follows the headings: it is replaced at each but the first line's.
LEMMA HeadingRead ==
  ASSUME ChunkingInv, step = "split", read < Len(text)
  PROVE  TitleAt(HeadingAfter(text[read + 1]), read + 1)
  <1>1. /\ read \in Nat /\ start \in Nat /\ TitleAt(heading, read)
        /\ start <= read \/ (read = 0 /\ start = 1)
    BY LinesOfText DEF ChunkingInv, ChunkingTypeOK, LoopInv
  <1> DEFINE line == text[read + 1]
  <1>2. CASE ~LooksLikeHeading(line)
    <2>1. HeadingAfter(line) = heading
      BY <1>2 DEF HeadingAfter
    <2>2. CASE heading = NoTitle /\ \A i \in 1..read : ~LooksLikeHeading(text[i])
      <3>1. \A i \in 1..(read + 1) : i \in 1..read \/ i = read + 1
        BY <1>1
      <3> QED BY <1>2, <2>1, <2>2, <3>1 DEF TitleAt
    <2>3. CASE \E h \in 1..read : /\ LooksLikeHeading(text[h]) /\ heading = text[h].title
                                  /\ \A i \in (h + 1)..read : ~LooksLikeHeading(text[i])
      <3>1. PICK h \in 1..read : /\ LooksLikeHeading(text[h]) /\ heading = text[h].title
                                 /\ \A i \in (h + 1)..read : ~LooksLikeHeading(text[i])
        BY <2>3
      <3>2. \A i \in (h + 1)..(read + 1) : i \in (h + 1)..read \/ i = read + 1
        BY <1>1
      <3>3. h \in 1..(read + 1)
        BY <1>1
      <3> QED BY <1>2, <2>1, <3>1, <3>2, <3>3 DEF TitleAt
    <2> QED BY <1>1, <2>2, <2>3 DEF TitleAt
  <1>3. CASE LooksLikeHeading(line)
    <2>1. HeadingAfter(line) = line.title
      <3>1. CASE start <= read
        BY <1>3, <3>1 DEF HeadingAfter
      <3>2. CASE read = 0
        <4>1. heading = NoTitle
          BY <1>1, <3>2 DEF TitleAt
        <4> QED BY <1>3, <4>1 DEF HeadingAfter
      <3> QED BY <1>1, <3>1, <3>2
    <2>2. \A i \in ((read + 1) + 1)..(read + 1) : FALSE
      BY <1>1
    <2>3. read + 1 \in 1..(read + 1)
      BY <1>1
    <2> QED BY <1>3, <2>1, <2>2, <2>3 DEF TitleAt
  <1> QED BY <1>2, <1>3

\* What the buffer holds becomes one more section: the next lines, a bounded
\* number of runes, under the last heading.
LEMMA FlushKeeps ==
  ASSUME ChunkingInv, step = "split", Flushed, text' = text, start' = read + 1,
         step' = "build" => read = Len(text)
  PROVE  /\ sections' \in Seq(Section)
         /\ \A k \in 1..Len(sections') : {sections'[k].first, sections'[k].last} \subseteq Filled'
         /\ TextKept' /\ SectionBound' /\ HeadingLeads'
  <1>1. PICK first, last \in Buffered :
            /\ Trimmed(Buffered, first, last)
            /\ sections' = Append(sections, [heading |-> heading, first |-> first, last |-> last])
    BY DEF Flushed
  <1> DEFINE new == [heading |-> heading, first |-> first, last |-> last]
             m == Len(sections)
  <1>2. /\ IsText(text) /\ sections \in Seq(Section) /\ heading \in Titles \cup {NoTitle}
        /\ \A k \in 1..m : {sections[k].first, sections[k].last} \subseteq Filled
        /\ read \in 0..Len(text) /\ start \in 1..(Len(text) + 1)
        /\ TextKept /\ SectionBound /\ HeadingLeads
    BY DEF ChunkingInv, ChunkingTypeOK
  <1>3. /\ \A i, j \in Buffered : i < j => text[read].end - text[start].at <= MaxRunes
        /\ \A i \in Buffered : \A j \in (i + 1)..read : ~LooksLikeHeading(text[j])
        /\ TitleAt(heading, read)
    BY DEF ChunkingInv, LoopInv
  <1>4. Len(text) \in Nat /\ read \in Nat /\ start \in Nat /\ m \in Nat
    BY <1>2, LinesOfText
  <1>5. /\ first \in 1..Len(text) /\ last \in 1..Len(text) /\ first <= last
        /\ first \in Filled /\ last \in Filled /\ start <= first /\ last <= read
        /\ \A i \in Buffered : first <= i /\ i <= last
    BY <1>1 DEF Buffered, Filled, Trimmed
  <1>6. new \in Section /\ new.heading = heading /\ new.first = first /\ new.last = last
    BY <1>2, <1>4, <1>5 DEF Section
  <1>7. /\ sections' \in Seq(Section) /\ Len(sections') = m + 1
        /\ \A k \in 1..m : sections'[k] = sections[k]
        /\ sections'[m + 1] = new
        /\ \A k \in 1..(m + 1) : k \in 1..m \/ k = m + 1
    <2>1. sections' = Append(sections, new)
      BY <1>1
    <2> HIDE DEF new
    <2>2. \A k \in 1..(m + 1) : k \in 1..m \/ k = m + 1
      BY <1>4
    <2>3. sections' \in Seq(Section) /\ Len(sections') = m + 1
      BY <1>2, <1>6, <2>1
    <2>4. sections'[m + 1] = new /\ \A k \in 1..m : sections'[k] = sections[k]
      BY <1>2, <1>6, <2>1
    <2> QED BY <2>2, <2>3, <2>4
  <1> HIDE DEF new, m
  <1>8. Filled' = Filled
    BY DEF Filled, Blank
  <1>9. \A k \in 1..Len(sections') : {sections'[k].first, sections'[k].last} \subseteq Filled'
    BY <1>2, <1>5, <1>6, <1>7, <1>8 DEF m
  <1>10. \A k \in 1..m : /\ sections[k].first \in Nat /\ sections[k].last \in Nat
                         /\ sections[k].first <= sections[k].last /\ sections[k].last < start
                         /\ \A l \in 1..m : k < l => sections[k].last < sections[l].first
    <2>1. \A k \in 1..m : sections[k] \in Section
      BY <1>2 DEF m
    <2>2. /\ \A k \in 1..m : sections[k].first \in Nat /\ sections[k].last \in Nat
      BY <2>1 DEF Section
    <2> QED BY <1>2, <2>2 DEF TextKept, m
  <1>11. TextKept'
    <2>1. ASSUME NEW k \in 1..(m + 1)
          PROVE  /\ sections'[k].first <= sections'[k].last /\ sections'[k].last < start'
                 /\ \A l \in 1..(m + 1) : k < l => sections'[k].last < sections'[l].first
      <3>1. CASE k \in 1..m
        <4>1. /\ sections[k].last < start /\ sections[k].last \in Nat
              /\ sections[k].first <= sections[k].last /\ sections'[k] = sections[k]
          BY <1>7, <1>10, <3>1
        <4>2. sections[k].last < start' /\ sections[k].last < first
          BY <1>4, <1>5, <4>1
        <4>3. \A l \in 1..m : k < l => sections'[k].last < sections'[l].first
          BY <1>7, <1>10, <3>1
        <4>4. sections'[m + 1].first = first
          BY <1>6, <1>7
        <4> QED BY <1>7, <4>1, <4>2, <4>3, <4>4
      <3>2. CASE k = m + 1
        BY <1>4, <1>5, <1>6, <1>7, <3>2
      <3> QED BY <1>7, <3>1, <3>2
    <2>2. ASSUME NEW i \in Filled, i < read + 1
          PROVE  \E k \in 1..(m + 1) : sections'[k].first <= i /\ i <= sections'[k].last
      <3>0. i \in Nat
        BY <1>4 DEF Filled
      <3>1. CASE i < start
        <4>1. PICK k \in 1..m : sections[k].first <= i /\ i <= sections[k].last
          BY <1>2, <3>1 DEF TextKept, m
        <4>2. k \in 1..(m + 1)
          BY <1>4
        <4> QED BY <1>7, <4>1, <4>2
      <3>2. CASE ~(i < start)
        <4>1. i \in Buffered
          BY <1>4, <2>2, <3>0, <3>2 DEF Buffered
        <4>2. m + 1 \in 1..(m + 1)
          BY <1>4
        <4> QED BY <1>5, <1>6, <1>7, <4>1, <4>2
      <3> QED BY <3>1, <3>2
    <2>3. step' = "build" => start' = Len(text') + 1
      OBVIOUS
    <2> QED BY <1>7, <1>8, <2>1, <2>2, <2>3 DEF TextKept
  <1>12. SectionBound'
    <2>1. Runes(new) <= MaxRunes \/ first = last
      <3> SUFFICES ASSUME first # last PROVE text[last].to - text[first].from <= MaxRunes
        BY <1>6 DEF Runes
      <3>1. text[read].end - text[start].at <= MaxRunes
        BY <1>1, <1>3, <1>5
      <3>2. start \in 1..Len(text) /\ read \in 1..Len(text)
        BY <1>2, <1>4, <1>5
      <3>3. text[last].to <= text[read].end
        <4>1. CASE last = read
          BY <1>2, <3>2, <4>1, LinesOfText
        <4>2. CASE last < read
          <5>1. /\ text[last].to <= text[last].end /\ text[last].end < text[read].at
                /\ text[read].at <= text[read].from /\ text[read].from <= text[read].to
                /\ text[read].to <= text[read].end
            BY <1>2, <1>5, <3>2, <4>2, LinesOfText
          <5>2. /\ text[last].to \in Nat /\ text[last].end \in Nat /\ text[read].at \in Nat
                /\ text[read].from \in Nat /\ text[read].to \in Nat /\ text[read].end \in Nat
            BY <1>2, <1>5, <3>2, LinesOfText
          <5> QED BY <5>1, <5>2
        <4> QED BY <1>4, <1>5, <4>1, <4>2
      <3>4. text[start].at <= text[first].from
        <4>1. CASE start = first
          BY <1>2, <3>2, <4>1, LinesOfText
        <4>2. CASE start < first
          <5>1. /\ text[start].end < text[first].at /\ text[start].at <= text[start].from
                /\ text[start].from <= text[start].to /\ text[start].to <= text[start].end
                /\ text[first].at <= text[first].from
            BY <1>2, <1>5, <3>2, <4>2, LinesOfText
          <5>2. /\ text[start].at \in Nat /\ text[start].from \in Nat /\ text[start].to \in Nat
                /\ text[start].end \in Nat /\ text[first].at \in Nat /\ text[first].from \in Nat
            BY <1>2, <1>5, <3>2, LinesOfText
          <5> QED BY <5>1, <5>2
        <4> QED BY <1>4, <1>5, <4>1, <4>2
      <3>5. /\ text[last].to \in Nat /\ text[read].end \in Nat
            /\ text[start].at \in Nat /\ text[first].from \in Nat
        BY <1>2, <1>5, <3>2, LinesOfText
      <3> QED BY <3>1, <3>3, <3>4, <3>5 DEF MaxRunes
    <2>2. \A k \in 1..m : Runes(sections[k]) <= MaxRunes \/ sections[k].first = sections[k].last
      BY <1>2 DEF SectionBound, m
    <2> QED BY <1>6, <1>7, <2>1, <2>2 DEF SectionBound, Runes
  <1>13. HeadingLeads'
    <2>1. \A i \in (first + 1)..last : ~LooksLikeHeading(text[i])
      BY <1>1, <1>3, <1>4, <1>5
    <2>2. TitleAt(heading, first)
      <3>1. CASE heading = NoTitle /\ \A i \in 1..read : ~LooksLikeHeading(text[i])
        BY <1>4, <1>5, <3>1 DEF TitleAt
      <3>2. CASE \E h \in 1..read : /\ LooksLikeHeading(text[h]) /\ heading = text[h].title
                                    /\ \A i \in (h + 1)..read : ~LooksLikeHeading(text[i])
        <4>1. PICK h \in 1..read : /\ LooksLikeHeading(text[h]) /\ heading = text[h].title
                                   /\ \A i \in (h + 1)..read : ~LooksLikeHeading(text[i])
          BY <3>2
        <4>2. h \notin (first + 1)..read
          BY <1>1, <1>3, <4>1
        <4>3. h \in 1..first
          BY <1>4, <1>5, <4>2
        <4>4. \A i \in (h + 1)..first : i \in (h + 1)..read
          BY <1>4, <1>5
        <4> QED BY <4>1, <4>3, <4>4 DEF TitleAt
      <3> QED BY <1>3, <3>1, <3>2 DEF TitleAt
    <2>3. \A k \in 1..m :
              /\ \A i \in (sections[k].first + 1)..sections[k].last : ~LooksLikeHeading(text[i])
              /\ TitleAt(sections[k].heading, sections[k].first)
      BY <1>2 DEF HeadingLeads, m
    <2> SUFFICES ASSUME NEW k \in 1..(m + 1)
                 PROVE /\ \A i \in (sections'[k].first + 1)..sections'[k].last :
                              ~LooksLikeHeading(text[i])
                       /\ TitleAt(sections'[k].heading, sections'[k].first)
      BY <1>7 DEF HeadingLeads, TitleAt, LooksLikeHeading, Blank
    <2> QED BY <1>6, <1>7, <2>1, <2>2, <2>3
  <1> QED BY <1>7, <1>9, <1>11, <1>12, <1>13

\* A line that joins the buffer keeps what the loop knows of it: it fits, and
\* it is no heading below a filled line.
LEMMA WriteKeeps == ASSUME ChunkingInv, WriteLine PROVE ChunkingInv'
  <1> DEFINE line == text[read + 1]
  <1>1. /\ IsText(text) /\ step = "split" /\ heading \in Titles \cup {NoTitle}
        /\ read \in 0..Len(text) /\ start \in 1..(Len(text) + 1)
        /\ start <= read \/ (read = 0 /\ start = 1)
        /\ \A i \in Buffered : \A j \in (i + 1)..read : ~LooksLikeHeading(text[j])
        /\ TextKept /\ SectionBound /\ HeadingLeads
    BY DEF WriteLine, ChunkingInv, ChunkingTypeOK, LoopInv
  <1>2. /\ read < Len(text)
        /\ CutBefore(line) => Buffered = {}
        /\ read' = read + 1 /\ heading' = HeadingAfter(line)
        /\ UNCHANGED <<text, step, start, sections, chunks>>
    BY DEF WriteLine
  <1>3. Len(text) \in Nat /\ read \in Nat /\ start \in Nat /\ read + 1 \in 1..Len(text)
    BY <1>1, <1>2, LinesOfText
  <1>4. ChunkingTypeOK'
    <2>1. line.title \in Titles \cup {NoTitle}
      BY <1>1, <1>3, LinesOfText
    <2>2. heading' \in Titles \cup {NoTitle}
      BY <1>1, <1>2, <2>1 DEF HeadingAfter
    <2>3. read' \in 0..Len(text')
      BY <1>2, <1>3
    <2> HIDE DEF line
    <2> QED BY <1>2, <2>2, <2>3 DEF ChunkingInv, ChunkingTypeOK, Filled, Blank
  <1>5. TextKept' /\ SectionBound' /\ HeadingLeads'
    <2> HIDE DEF line
    <2>1. TextKept'
      BY <1>1, <1>2 DEF TextKept, Filled, Blank
    <2>2. SectionBound'
      BY <1>1, <1>2 DEF SectionBound, Runes
    <2>3. HeadingLeads'
      BY <1>1, <1>2 DEF HeadingLeads, TitleAt, LooksLikeHeading, Blank
    <2> QED BY <2>1, <2>2, <2>3
  <1>6. \A i \in Buffered' : i \in Nat /\ (i \in Buffered \/ i = read + 1)
    BY <1>2, <1>3 DEF Buffered, Filled, Blank
  <1>7. ASSUME NEW i \in Buffered
        PROVE  start <= read /\ ~Full(line) /\ ~LooksLikeHeading(line)
    <2>1. start <= read
      BY <1>3 DEF Buffered, Filled
    <2> QED BY <1>2, <2>1 DEF CutBefore
  <1>8. \A i, j \in Buffered' : i < j => text'[read'].end - text'[start'].at <= MaxRunes
    <2> SUFFICES ASSUME NEW i \in Buffered', NEW j \in Buffered', i < j
                 PROVE  line.end - text[start].at <= MaxRunes
      BY <1>2
    <2>1. i \in Buffered
      <3>1. j \in Buffered => j <= read
        BY DEF Buffered
      <3> QED BY <1>3, <1>6, <3>1
    <2>2. start <= read /\ ~Full(line)
      BY <1>7, <2>1
    <2>3. start \in 1..Len(text) /\ read \in 1..Len(text)
      BY <1>1, <1>3, <2>2
    <2>4. /\ text[read].end \in Nat /\ text[start].at \in Nat
          /\ line.end \in Nat /\ line.at \in Nat
      BY <1>1, <1>3, <2>3, LinesOfText
    <2>5. line.at = text[read].end + 1
      <3>1. read \in 1..(Len(text) - 1)
        BY <1>2, <1>3, <2>3
      <3> QED BY <1>1, <3>1 DEF IsText
    <2>6. text[read].end + 1 - text[start].at + (line.end - line.at) <= MaxRunes
      BY <2>2, <2>4 DEF Full, RuneCount, MaxRunes
    <2> QED BY <2>4, <2>5, <2>6 DEF MaxRunes
  <1>9. \A i \in Buffered' : \A j \in (i + 1)..read' : ~LooksLikeHeading(text'[j])
    <2> SUFFICES ASSUME NEW i \in Buffered', NEW j \in (i + 1)..(read + 1)
                 PROVE  ~LooksLikeHeading(text[j])
      BY <1>2 DEF LooksLikeHeading, Blank
    <2>1. i \in Buffered
      BY <1>3, <1>6
    <2>2. j \in (i + 1)..read \/ j = read + 1
      BY <1>3, <1>6
    <2> QED BY <1>1, <1>7, <2>1, <2>2
  <1>10. TitleAt(heading, read)'
    BY <1>1, <1>2, HeadingRead DEF TitleAt, LooksLikeHeading, Blank
  <1>11. start' <= read' \/ (read' = 0 /\ start' = 1)
    BY <1>1, <1>2, <1>3
  <1>12. LoopInv'
    BY <1>1, <1>2, <1>8, <1>9, <1>10, <1>11 DEF LoopInv
  <1> QED BY <1>4, <1>5, <1>12 DEF ChunkingInv

\* After a cut the buffer holds one line, whose heading is the last one read.
LEMMA CutKeeps == ASSUME ChunkingInv, FlushAndWrite PROVE ChunkingInv'
  <1> DEFINE line == text[read + 1]
  <1>1. /\ IsText(text) /\ step = "split" /\ heading \in Titles \cup {NoTitle}
        /\ read \in 0..Len(text) /\ chunks \in Seq(ChunkRecord)
    BY DEF FlushAndWrite, ChunkingInv, ChunkingTypeOK
  <1>2. /\ read < Len(text) /\ Flushed
        /\ start' = read + 1 /\ read' = read + 1 /\ heading' = HeadingAfter(line)
        /\ UNCHANGED <<text, step, chunks>>
    BY DEF FlushAndWrite
  <1>3. Len(text) \in Nat /\ read \in Nat /\ read + 1 \in 1..Len(text)
    BY <1>1, <1>2, LinesOfText
  <1>4. /\ sections' \in Seq(Section)
        /\ \A k \in 1..Len(sections') : {sections'[k].first, sections'[k].last} \subseteq Filled'
        /\ TextKept' /\ SectionBound' /\ HeadingLeads'
    BY <1>1, <1>2, FlushKeeps
  <1>5. ChunkingTypeOK'
    <2>1. line.title \in Titles \cup {NoTitle}
      BY <1>1, <1>3, LinesOfText
    <2>2. heading' \in Titles \cup {NoTitle}
      BY <1>1, <1>2, <2>1 DEF HeadingAfter
    <2>3. read' \in 0..Len(text') /\ start' \in 1..(Len(text') + 1)
      BY <1>2, <1>3
    <2> HIDE DEF line
    <2> QED BY <1>1, <1>2, <1>4, <2>2, <2>3 DEF ChunkingTypeOK
  <1>6. \A i \in Buffered' : i = read + 1
    BY <1>2, <1>3 DEF Buffered, Filled
  <1>7. /\ \A i, j \in Buffered' : i < j => text'[read'].end - text'[start'].at <= MaxRunes
        /\ \A i \in Buffered' : \A j \in (i + 1)..read' : ~LooksLikeHeading(text'[j])
    BY <1>2, <1>3, <1>6
  <1>8. TitleAt(heading, read)'
    BY <1>1, <1>2, HeadingRead DEF TitleAt, LooksLikeHeading, Blank
  <1>9. LoopInv'
    BY <1>1, <1>2, <1>3, <1>7, <1>8 DEF LoopInv
  <1> QED BY <1>4, <1>5, <1>9 DEF ChunkingInv

\* With the last flush the whole text is in the sections.
LEMMA LastFlushKeeps == ASSUME ChunkingInv, FlushLast PROVE ChunkingInv'
  <1>1. /\ IsText(text) /\ step = "split" /\ heading \in Titles \cup {NoTitle}
        /\ read \in 0..Len(text) /\ chunks \in Seq(ChunkRecord) /\ Len(text) \in Nat
    BY LinesOfText DEF FlushLast, ChunkingInv, ChunkingTypeOK
  <1>2. /\ read = Len(text) /\ Flushed /\ start' = read + 1 /\ step' = "build"
        /\ UNCHANGED <<text, read, heading, chunks>>
    BY DEF FlushLast
  <1>3. /\ sections' \in Seq(Section)
        /\ \A k \in 1..Len(sections') : {sections'[k].first, sections'[k].last} \subseteq Filled'
        /\ TextKept' /\ SectionBound' /\ HeadingLeads'
    BY <1>1, <1>2, FlushKeeps
  <1>4. ChunkingTypeOK' /\ LoopInv'
    BY <1>1, <1>2, <1>3 DEF ChunkingTypeOK, LoopInv
  <1> QED BY <1>3, <1>4 DEF ChunkingInv

\* Nothing is left of the loop when BuildChunks has returned.
LEMMA ReturnKeeps == ASSUME ChunkingInv, BuildNothing \/ ReturnChunks PROVE ChunkingInv'
  <1>1. /\ text' = <<>> /\ read' = 0 /\ start' = 1 /\ heading' = NoTitle
        /\ sections' = <<>> /\ step' = "returned"
    BY DEF BuildNothing, ReturnChunks, ChunkingInv, LoopInv
  <1>2. IsText(<<>>) /\ Len(<<>>) = 0
    BY DEF IsText
  <1>3. chunks' \in Seq(ChunkRecord)
    <2>1. CASE BuildNothing
      BY <2>1 DEF BuildNothing, ChunkingInv, ChunkingTypeOK
    <2>2. CASE ReturnChunks
      <3>1. sections \in Seq(Section)
        BY DEF ChunkingInv, ChunkingTypeOK
      <3>2. Len(sections) \in Nat /\ \A n \in 1..Len(sections) : sections[n] \in Section
        BY <3>1
      <3>3. \A n \in 1..Len(sections) : Chunk(n) \in ChunkRecord
        BY <3>2 DEF Chunk, ChunkRecord, Section
      <3>4. chunks' = [n \in 1..Len(sections) |-> Chunk(n)]
        BY <2>2 DEF ReturnChunks
      <3> QED BY <3>2, <3>3, <3>4
    <2> QED BY <2>1, <2>2
  <1>4. ChunkingTypeOK'
    BY <1>1, <1>2, <1>3 DEF ChunkingTypeOK
  <1>5. TextKept' /\ SectionBound' /\ HeadingLeads' /\ LoopInv'
    BY <1>1, <1>2, NothingReadYet
  <1> QED BY <1>4, <1>5 DEF ChunkingInv

\* Every round of the loop keeps what it knows.
LEMMA ChunkingNextInv == ASSUME ChunkingInv, ChunkingNext PROVE ChunkingInv'
  BY TrimKeepsText, WriteKeeps, CutKeeps, LastFlushKeeps, ReturnKeeps DEF ChunkingNext

\* So does what others do while it stands still.
LEMMA ChunkingStutters == ASSUME ChunkingInv, UNCHANGED chunking PROVE ChunkingInv'
  <1> USE DEF chunking
  <1>1. ChunkingTypeOK'
    BY DEF ChunkingInv, ChunkingTypeOK, Filled, Blank
  <1>2. TextKept'
    BY DEF ChunkingInv, TextKept, Filled, Blank
  <1>3. SectionBound'
    BY DEF ChunkingInv, SectionBound, Runes
  <1>4. HeadingLeads'
    BY DEF ChunkingInv, HeadingLeads, TitleAt, LooksLikeHeading, Blank
  <1>5. LoopInv'
    BY DEF ChunkingInv, LoopInv, Buffered, Filled, TitleAt, LooksLikeHeading, Blank
  <1> QED BY <1>1, <1>2, <1>3, <1>4, <1>5 DEF ChunkingInv

----------------------------------------------------------------------------
(* The transactions that save the chunks *)

IInv == ChunkingInv /\ TypeOK

\* Nothing is saved, and nothing is split, at the beginning.
LEMMA IInvInit == Init => IInv
  <1> SUFFICES ASSUME Init PROVE IInv
    OBVIOUS
  <1>1. ChunkingInv
    BY ChunkingInitInv DEF Init
  <1>2. TypeOK
    BY <1>1 DEF Init, TypeOK, ChunkingInv, Rows, SaveRecord, ChunkingInit
  <1> QED BY <1>1, <1>2 DEF IInv

\* What the type invariant says of one call, and of the rows a call has seen.
LEMMA SaveFields ==
  ASSUME TypeOK, NEW c \in Calls
  PROVE  /\ saves[c] \in SaveRecord /\ saves[c].put \in Nat /\ saves[c].seen \subseteq Rows
         /\ saves[c].pc \in {"idle", "delete", "insert", "over"}
  BY DEF TypeOK, SaveRecord

\* BuildChunks is over before the first save begins, so nobody sees it at work.
LEMMA NoSaveYet == ASSUME TypeOK, ChunkingNext PROVE \A c \in Calls : saves[c].pc = "idle"
  <1>1. step # "returned"
    BY DEF ChunkingNext, BuildNothing, TrimText, WriteLine, FlushAndWrite, FlushLast, ReturnChunks
  <1> QED BY <1>1 DEF TypeOK

\* A statement of one call keeps the other calls' records and the rows in order.
LEMMA SaveKeepsTypeOK ==
  ASSUME IInv, NEW c \in Calls, SaveDocumentChunks(c)
  PROVE  IInv'
  <1>1. TypeOK /\ ChunkingInv /\ UNCHANGED chunking
    BY DEF IInv, SaveDocumentChunks, BeginSave, DeleteDocumentChunks, CreateDocumentChunk,
           CommitSave, RollbackSave
  <1>2. ChunkingInv' /\ ChunkingTypeOK' /\ Len(chunks) \in Nat /\ chunks' = chunks /\ step' = step
    BY <1>1, ChunkingStutters DEF ChunkingInv, ChunkingTypeOK, chunking
  <1>3. saves[c] \in SaveRecord /\ saves \in [Calls -> SaveRecord] /\ rows \subseteq Rows
    BY <1>1, SaveFields DEF TypeOK
  <1>4. /\ saves'[c] \in SaveRecord /\ saves' = [saves EXCEPT ![c] = saves'[c]]
        /\ saves'[c].put <= Len(chunks) /\ (saves'[c].pc # "idle" => step = "returned")
        /\ saves'[c].pc \in {"idle", "over"} => saves'[c].seen = {} /\ saves'[c].put = 0
        /\ saves[c].pc # "over"
        /\ saves'[c].seen = saves[c].seen \/ saves'[c].seen = rows \/ saves'[c].seen = {}
    <2>1. CASE BeginSave(c)
      BY <1>1, <1>3, <2>1 DEF BeginSave, SaveRecord, TypeOK
    <2>2. CASE DeleteDocumentChunks(c)
      BY <1>1, <1>3, <2>2 DEF DeleteDocumentChunks, SaveRecord, TypeOK
    <2>3. CASE CreateDocumentChunk(c)
      <3>1. saves[c].put \in Nat /\ saves[c].put + 1 <= Len(chunks)
        BY <1>1, <1>2, <2>3, SaveFields DEF CreateDocumentChunk
      <3> QED BY <1>1, <1>3, <2>3, <3>1 DEF CreateDocumentChunk, Holds, SaveRecord, TypeOK
    <2>4. CASE CommitSave(c)
      BY <1>1, <1>2, <1>3, <2>4 DEF CommitSave, Holds, SaveRecord, TypeOK
    <2>5. CASE RollbackSave(c)
      BY <1>1, <1>2, <1>3, <2>5 DEF RollbackSave, SaveRecord, TypeOK
    <2> QED BY <2>1, <2>2, <2>3, <2>4, <2>5 DEF SaveDocumentChunks
  <1>5. saves' \in [Calls -> SaveRecord] /\ \A d \in Calls : d # c => saves'[d] = saves[d]
    BY <1>3, <1>4
  <1>6. \A row \in Rows : row[1] \in Calls
    BY DEF Rows
  <1>7. \A d \in Calls : saves[d].pc = "over" => saves'[d].pc = "over"
    BY <1>4, <1>5
  <1>8. /\ rows' \subseteq Rows
        /\ \A row \in rows' : saves'[row[1]].pc = "over"
    <2>1. CASE CommitSave(c)
      <3> DEFINE list == {<<c, n>> : n \in 1..saves[c].put}
      <3>1. rows' \subseteq rows \cup list
        BY <2>1 DEF CommitSave
      <3>2. saves'[c].pc = "over"
        BY <1>3, <2>1 DEF CommitSave
      <3>3. \A row \in list : row \in Rows /\ row[1] = c
        BY <1>1, SaveFields DEF Rows
      <3> HIDE DEF list
      <3> QED BY <1>1, <1>3, <1>6, <1>7, <3>1, <3>2, <3>3 DEF TypeOK
    <2>2. CASE rows' = rows
      BY <1>1, <1>3, <1>6, <1>7, <2>2 DEF TypeOK
    <2> QED BY <2>1, <2>2 DEF SaveDocumentChunks, BeginSave, DeleteDocumentChunks,
                              CreateDocumentChunk, RollbackSave
  <1>9. ASSUME NEW d \in Calls
        PROVE  /\ saves'[d].put <= Len(chunks')
               /\ \A row \in saves'[d].seen : saves'[row[1]].pc = "over"
               /\ (saves'[d].pc # "idle" => step' = "returned")
               /\ saves'[d].pc \in {"idle", "over"} => saves'[d].seen = {} /\ saves'[d].put = 0
    <2>1. CASE d # c
      <3>1. saves[d].seen \subseteq Rows
        BY <1>1, SaveFields
      <3> QED BY <1>1, <1>2, <1>5, <1>6, <1>7, <2>1, <3>1 DEF TypeOK
    <2>2. CASE d = c
      <3>1. \A row \in saves'[c].seen : row \in Rows /\ saves[row[1]].pc = "over"
        BY <1>1, <1>3, <1>4, SaveFields DEF TypeOK
      <3> QED BY <1>2, <1>4, <1>6, <1>7, <2>2, <3>1
    <2> QED BY <2>1, <2>2
  <1>10. TypeOK'
    BY <1>2, <1>5, <1>8, <1>9 DEF TypeOK
  <1> QED BY <1>2, <1>10 DEF IInv

\* Every step, of the loop or of a call, keeps the invariant.
LEMMA IInvNext == IInv /\ [Next]_vars => IInv'
  <1> SUFFICES ASSUME IInv, [Next]_vars PROVE IInv'
    OBVIOUS
  <1>1. CASE Build
    <2>1. ChunkingInv' /\ rows' = rows /\ saves' = saves
      BY <1>1, ChunkingNextInv DEF Build, IInv, saving
    <2>2. \A c \in Calls : saves[c].pc = "idle"
      BY <1>1, NoSaveYet DEF Build, IInv
    <2>3. \A c \in Calls : saves[c].put = 0 /\ 0 <= Len(chunks')
      BY <2>1, <2>2 DEF IInv, TypeOK, ChunkingInv, ChunkingTypeOK
    <2>4. ChunkingTypeOK'
      BY <2>1 DEF ChunkingInv
    <2>5. TypeOK'
      BY <2>1, <2>2, <2>3, <2>4 DEF IInv, TypeOK
    <2> QED BY <2>1, <2>5 DEF IInv
  <1>2. CASE \E c \in Calls : SaveDocumentChunks(c)
    BY <1>2, SaveKeepsTypeOK
  <1>3. CASE UNCHANGED vars
    <2>1. ChunkingInv'
      BY <1>3, ChunkingStutters DEF IInv, vars, chunking
    <2>2. ChunkingTypeOK'
      BY <2>1 DEF ChunkingInv
    <2>3. TypeOK'
      BY <1>3, <2>2 DEF IInv, TypeOK, vars
    <2> QED BY <2>1, <2>3 DEF IInv
  <1> QED BY <1>1, <1>2, <1>3 DEF Next

\* The invariant holds of every text and any number of calls.
THEOREM IInvHolds == Spec => []IInv
  BY IInvInit, IInvNext, PTL DEF Spec

----------------------------------------------------------------------------
\* Texts, sections, chunks, rows and calls stay well typed, for every text and
\* any number of calls of SaveDocumentChunks.
THEOREM TypesHold == Spec => []TypeOK
  <1>1. IInv => TypeOK
    BY DEF IInv
  <1> QED BY <1>1, IInvHolds, PTL

\* SplitSections loses, doubles and moves no line of any text.
THEOREM KeepsText == Spec => []TextKept
  <1>1. IInv => TextKept
    BY DEF IInv, ChunkingInv
  <1> QED BY <1>1, IInvHolds, PTL

\* Every section of every text is at most MaxRunes long or a single line.
THEOREM BoundsSections == Spec => []SectionBound
  <1>1. IInv => SectionBound
    BY DEF IInv, ChunkingInv
  <1> QED BY <1>1, IInvHolds, PTL

\* Headings begin sections and title them, in every text.
THEOREM LeadsWithHeadings == Spec => []HeadingLeads
  <1>1. IInv => HeadingLeads
    BY DEF IInv, ChunkingInv
  <1> QED BY <1>1, IInvHolds, PTL

----------------------------------------------------------------------------
(* The refinement *)

\* The empty table is an initial state of the promise.
LEMMA RefinesInit == Init => Lists!Init
  BY DEF Init, ChunkingInit, Lists!Init, Open, Begun, New

\* A commit replaces what the DELETE saw and leaves to each other call what
\* is new to both of them, and the list.
LEMMA CommitSaves ==
  ASSUME IInv, NEW c \in Calls, CommitSave(c)
  PROVE  Lists!Save(c)
  <1>1. TypeOK /\ saves[c].pc = "insert" /\ saves[c].put = Len(chunks) /\ saves[c] \in SaveRecord
    BY SaveFields DEF IInv, CommitSave, Holds
  <1>2. /\ saves' = [saves EXCEPT ![c] = [pc |-> "over", seen |-> {}, put |-> 0]]
        /\ rows' = (rows \ saves[c].seen) \cup Lists!List(c)
        /\ UNCHANGED chunking
    BY <1>1 DEF CommitSave, Lists!List
  <1>3. /\ saves'[c].pc = "over" /\ saves'[c].seen = {}
        /\ \A d \in Calls : d # c => saves'[d] = saves[d]
    BY <1>1, <1>2 DEF TypeOK
  <1>4. c \in Open /\ Open' = Open \ {c} /\ Begun' = Begun
    BY <1>1, <1>3 DEF Open, Begun
  <1>5. New[c] = rows \ saves[c].seen
    BY <1>4 DEF New
  <1>6. ASSUME NEW d \in Calls
        PROVE  New'[d] = IF d \in Open \ {c} THEN (New[d] \cap New[c]) \cup Lists!List(c) ELSE {}
    <2>1. CASE d \in Open \ {c}
      <3>1. \A row \in Lists!List(c) : row \notin saves[d].seen
        <4>1. \A row \in Lists!List(c) : saves[row[1]].pc = "insert"
          BY <1>1 DEF Lists!List
        <4> QED BY <1>1, <4>1 DEF TypeOK
      <3>2. New'[d] = rows' \ saves[d].seen /\ New[d] = rows \ saves[d].seen
        BY <1>3, <1>4, <2>1 DEF New
      <3> QED BY <1>2, <1>5, <2>1, <3>1, <3>2
    <2>2. CASE d \notin Open \ {c}
      BY <1>4, <2>2 DEF New
    <2> QED BY <2>1, <2>2
  <1>7. New' = [d \in Calls |-> IF d \in Open \ {c} THEN (New[d] \cap New[c]) \cup Lists!List(c)
                                ELSE {}]
    BY <1>6 DEF New
  <1> QED BY <1>2, <1>4, <1>5, <1>7 DEF Lists!Save, chunking

\* What a call that rolls back has seen is of no account any more.
LEMMA RollbackFails ==
  ASSUME IInv, NEW c \in Calls, RollbackSave(c)
  PROVE  Lists!Fail(c)
  <1>1. TypeOK /\ saves[c].pc \in {"delete", "insert"} /\ UNCHANGED <<rows, chunking>>
    BY DEF IInv, RollbackSave
  <1>2. /\ saves'[c].pc = "over"
        /\ \A d \in Calls : d # c => saves'[d] = saves[d]
    BY <1>1 DEF RollbackSave, TypeOK
  <1>3. c \in Open /\ Open' = Open \ {c} /\ Begun' = Begun
    BY <1>1, <1>2 DEF Open, Begun
  <1>4. \A d \in Calls : New'[d] = IF d = c THEN {} ELSE New[d]
    BY <1>1, <1>2, <1>3 DEF New
  <1>5. New' = [New EXCEPT ![c] = {}]
    BY <1>4 DEF New
  <1> QED BY <1>1, <1>3, <1>5 DEF Lists!Fail, chunking

\* The start of the DELETE begins the call; the statements between change nothing.
LEMMA BeginBegins ==
  ASSUME IInv, NEW c \in Calls, BeginSave(c)
  PROVE  Lists!Begin(c)
  <1>1. TypeOK /\ saves[c].pc = "idle" /\ UNCHANGED <<rows, chunking>>
    BY DEF IInv, BeginSave
  <1>2. /\ saves'[c].pc = "delete" /\ saves'[c].seen = rows
        /\ \A d \in Calls : d # c => saves'[d] = saves[d]
    BY <1>1 DEF BeginSave, TypeOK, SaveRecord
  <1>3. c \notin Begun /\ c \notin Open /\ Open' = Open \cup {c} /\ Begun' = Begun \cup {c}
    BY <1>1, <1>2 DEF Open, Begun
  <1>4. \A d \in Calls : New'[d] = New[d]
    BY <1>1, <1>2, <1>3 DEF New
  <1>5. New' = New
    BY <1>4 DEF New
  <1> QED BY <1>1, <1>3, <1>5 DEF Lists!Begin, chunking

\* The DELETE and the INSERTs of a transaction change nothing anybody sees.
LEMMA StatementsStutter ==
  ASSUME IInv, NEW c \in Calls, DeleteDocumentChunks(c) \/ CreateDocumentChunk(c)
  PROVE  UNCHANGED <<chunks, rows, Open, Begun, New>>
  <1>1. TypeOK /\ UNCHANGED <<rows, chunking>>
    BY DEF IInv, DeleteDocumentChunks, CreateDocumentChunk
  <1>2. /\ \A d \in Calls : saves'[d].seen = saves[d].seen
        /\ \A d \in Calls : d # c => saves'[d].pc = saves[d].pc
        /\ saves[c].pc \in {"delete", "insert"} /\ saves'[c].pc = "insert"
    BY <1>1 DEF DeleteDocumentChunks, CreateDocumentChunk, Holds, TypeOK, SaveRecord
  <1>3. Open' = Open /\ Begun' = Begun
    BY <1>2 DEF Open, Begun
  <1>4. New' = New
    BY <1>1, <1>2, <1>3 DEF New
  <1> QED BY <1>1, <1>3, <1>4 DEF chunking

\* Every step is a step of the promise or changes nothing of it.
LEMMA RefinesNext == IInv /\ [Next]_vars => [Lists!Next]_Lists!vars
  <1> SUFFICES ASSUME IInv, [Next]_vars PROVE [Lists!Next]_Lists!vars
    OBVIOUS
  <1>1. CASE Build
    <2>1. \A c \in Calls : saves[c].pc = "idle"
      BY <1>1, NoSaveYet DEF Build, IInv
    <2>2. Begun = {}
      BY <2>1 DEF Begun
    <2>3. UNCHANGED <<rows, Open, Begun, New>>
      BY <1>1 DEF Build, saving, Open, Begun, New
    <2> QED BY <2>2, <2>3 DEF Lists!Next, Lists!Prepare
  <1>2. CASE \E c \in Calls : SaveDocumentChunks(c)
    <2>1. PICK c \in Calls : SaveDocumentChunks(c)
      BY <1>2
    <2>2. CASE BeginSave(c)
      BY <2>2, BeginBegins DEF Lists!Next
    <2>3. CASE DeleteDocumentChunks(c) \/ CreateDocumentChunk(c)
      BY <2>3, StatementsStutter DEF Lists!vars
    <2>4. CASE CommitSave(c)
      BY <2>4, CommitSaves DEF Lists!Next
    <2>5. CASE RollbackSave(c)
      BY <2>5, RollbackFails DEF Lists!Next
    <2> QED BY <2>1, <2>2, <2>3, <2>4, <2>5 DEF SaveDocumentChunks
  <1>3. CASE UNCHANGED vars
    BY <1>3 DEF vars, Lists!vars, Open, Begun, New
  <1> QED BY <1>1, <1>2, <1>3 DEF Next

\* The transactions of SaveDocumentChunks keep the promise of ChunkLists,
\* however many of them overlap, fail or are retried.
THEOREM SavesRefineLists == Spec => RefinesChunkLists
  <1>1. Spec => Lists!Init /\ [][Lists!Next]_Lists!vars
    BY RefinesInit, RefinesNext, IInvHolds, PTL DEF Spec
  <1> QED BY <1>1 DEF RefinesChunkLists, Lists!Spec

----------------------------------------------------------------------------
(* What a reader of document_chunks finds. *)

\* The part of a set of rows that call c has put there.
Of(S, c) == {row \in S : row[1] = c}

\* Of each call's list there is all or nothing.
Whole(S) == \A c \in Calls : Of(S, c) \in {{}, Lists!List(c)}

WholeLists == Whole(rows)

\* The same of what each DELETE has seen; lists are made of rows.
WholeInv == WholeLists /\ \A c \in Calls : Whole(saves[c].seen)

\* Taking lists away from lists, and putting one of a call that had none, leaves lists.
LEMMA WholeReplaced ==
  ASSUME NEW S, NEW D, NEW c \in Calls, Whole(S), Whole(D), Of(S, c) = {}
  PROVE  Whole((S \ D) \cup Lists!List(c))
  <1> SUFFICES ASSUME NEW d \in Calls
               PROVE  Of((S \ D) \cup Lists!List(c), d) \in {{}, Lists!List(d)}
    BY DEF Whole
  <1>1. Of(S, d) \in {{}, Lists!List(d)} /\ Of(D, d) \in {{}, Lists!List(d)}
    BY DEF Whole
  <1>2. \A row \in Lists!List(c) : row[1] = c
    BY DEF Lists!List
  <1>3. CASE d = c
    <2>1. Of((S \ D) \cup Lists!List(c), c) = Lists!List(c)
      BY <1>2 DEF Of
    <2> QED BY <1>3, <2>1
  <1>4. CASE d # c
    <2>1. Of((S \ D) \cup Lists!List(c), d) = Of(S, d) \ Of(D, d)
      BY <1>2, <1>4 DEF Of
    <2> QED BY <1>1, <2>1
  <1> QED BY <1>3, <1>4

\* Rows and lists stay as they are unless a call commits.
LEMMA WholeFrame ==
  ASSUME WholeInv, rows' = rows, chunks' = chunks,
         \A c \in Calls : saves'[c].seen \in {{}, rows, saves[c].seen}
  PROVE  WholeInv'
  <1>1. \A c \in Calls : Lists!List(c)' = Lists!List(c)
    BY DEF Lists!List
  <1>2. \A T : Whole(T) => (\A c \in Calls : Of(T, c) \in {{}, Lists!List(c)'})
    BY <1>1 DEF Whole
  <1>3. Whole({})
    BY DEF Whole, Of
  <1> QED BY <1>1, <1>2, <1>3 DEF WholeInv, WholeLists, Whole, Of

\* Every step leaves whole lists.
LEMMA NextKeepsWhole == IInv /\ WholeInv /\ [Next]_vars => WholeInv'
  <1> SUFFICES ASSUME IInv, WholeInv, [Next]_vars PROVE WholeInv'
    OBVIOUS
  <1>0. TypeOK /\ \A c \in Calls : saves[c] \in SaveRecord
    BY SaveFields DEF IInv
  <1>1. CASE Build
    <2>1. \A c \in Calls : saves[c].pc = "idle"
      BY <1>1, NoSaveYet DEF Build, IInv
    <2>2. rows = {} /\ rows' = {} /\ saves' = saves /\ \A c \in Calls : saves[c].seen = {}
      BY <1>0, <1>1, <2>1 DEF Build, saving, TypeOK, Rows
    <2> QED BY <2>2 DEF WholeInv, WholeLists, Whole, Of
  <1>2. ASSUME NEW c \in Calls, BeginSave(c) \/ DeleteDocumentChunks(c)
                                 \/ CreateDocumentChunk(c) \/ RollbackSave(c)
        PROVE  WholeInv'
    <2>1. rows' = rows /\ chunks' = chunks
      BY <1>2 DEF BeginSave, DeleteDocumentChunks, CreateDocumentChunk, RollbackSave, chunking
    <2>2. \A d \in Calls : saves'[d].seen \in {{}, rows, saves[d].seen}
      BY <1>0, <1>2 DEF BeginSave, DeleteDocumentChunks, CreateDocumentChunk, RollbackSave,
         TypeOK, SaveRecord
    <2> QED BY <2>1, <2>2, WholeFrame
  <1>3. ASSUME NEW c \in Calls, CommitSave(c) PROVE WholeInv'
    <2>1. /\ rows' = (rows \ saves[c].seen) \cup Lists!List(c)
          /\ chunks' = chunks /\ saves[c].pc = "insert"
          /\ \A d \in Calls : saves'[d].seen \in {{}, saves[d].seen}
      BY <1>0, <1>3 DEF CommitSave, Holds, Lists!List, chunking, TypeOK
    <2>2. Of(rows, c) = {}
      BY <1>0, <2>1 DEF TypeOK, Of
    <2>3. Whole(rows')
      BY <2>1, <2>2, WholeReplaced DEF WholeInv, WholeLists
    <2>4. \A d \in Calls : Lists!List(d)' = Lists!List(d)
      BY <2>1 DEF Lists!List
    <2>5. Whole({})
      BY DEF Whole, Of
    <2>6. \A T : Whole(T) => (\A d \in Calls : Of(T, d) \in {{}, Lists!List(d)'})
      BY <2>4 DEF Whole
    <2>7. \A d \in Calls : Whole(saves'[d].seen)
      BY <2>1, <2>5 DEF WholeInv
    <2> QED BY <2>3, <2>6, <2>7 DEF WholeInv, WholeLists, Whole, Of
  <1>4. CASE UNCHANGED vars
    BY <1>4, WholeFrame DEF vars
  <1> QED BY <1>1, <1>2, <1>3, <1>4 DEF Next, SaveDocumentChunks

(***************************************************************************)
(* A reader finds of the chunks of a call either all or none, in the order *)
(* of the list, at every moment: a failed, cancelled or dead call leaves   *)
(* no chunk behind, and one that replaces a list leaves none of it.        *)
(***************************************************************************)
THEOREM ListsStayWhole == Spec => []WholeLists
  <1>1. Init => WholeInv
    BY DEF Init, WholeInv, WholeLists, Whole, Of
  <1>2. WholeInv => WholeLists
    BY DEF WholeInv
  <1> QED BY <1>1, <1>2, NextKeepsWhole, IInvHolds, PTL DEF Spec

\* At most one call of SaveDocumentChunks is under way.
InTurn == \A c, d \in Open : c = d

\* All rows there are come from one call.
OneList == \A a, b \in rows : a[1] = b[1]

\* While saves take turns, a DELETE under way has seen all that is there.
SeesAll == OneList /\ \A c \in Open : saves[c].seen = rows

\* Every step with at most one call under way before and after it keeps that.
LEMMA NextKeepsSeesAll == IInv /\ InTurn /\ InTurn' /\ SeesAll /\ [Next]_vars => SeesAll'
  <1> SUFFICES ASSUME IInv, InTurn, InTurn', SeesAll, [Next]_vars PROVE SeesAll'
    OBVIOUS
  <1>0. TypeOK /\ \A c \in Calls : saves[c] \in SaveRecord
    BY SaveFields DEF IInv
  <1>1. CASE UNCHANGED saving
    BY <1>1 DEF saving, SeesAll, OneList, Open
  <1>2. ASSUME NEW c \in Calls, BeginSave(c) PROVE SeesAll'
    <2>1. /\ rows' = rows /\ saves'[c].seen = rows /\ c \in Open'
          /\ \A d \in Calls : d # c => saves'[d] = saves[d]
      BY <1>0, <1>2 DEF BeginSave, TypeOK, SaveRecord, Open
    <2>2. Open' = {c}
      BY <2>1 DEF InTurn, Open
    <2> QED BY <2>1, <2>2 DEF SeesAll, OneList
  <1>3. ASSUME NEW c \in Calls, DeleteDocumentChunks(c) \/ CreateDocumentChunk(c)
                                 \/ RollbackSave(c)
        PROVE  SeesAll'
    <2>1. /\ rows' = rows
          /\ \A d \in Calls : d \in Open' => d \in Open /\ saves'[d].seen = saves[d].seen
      BY <1>0, <1>3 DEF DeleteDocumentChunks, CreateDocumentChunk, RollbackSave, TypeOK,
         SaveRecord, Open, Holds
    <2>2. \A d \in Open' : d \in Calls
      BY DEF Open
    <2> QED BY <2>1, <2>2 DEF SeesAll, OneList
  <1>4. ASSUME NEW c \in Calls, CommitSave(c) PROVE SeesAll'
    <2>1. /\ rows' = (rows \ saves[c].seen) \cup {<<c, n>> : n \in 1..saves[c].put}
          /\ c \in Open /\ saves'[c].pc = "over"
          /\ \A d \in Calls : d # c => saves'[d] = saves[d]
      BY <1>0, <1>4 DEF CommitSave, Holds, TypeOK, Open
    <2>2. rows' = {<<c, n>> : n \in 1..saves[c].put}
      BY <2>1 DEF SeesAll
    <2>3. Open' = {}
      BY <2>1 DEF Open, InTurn
    <2> QED BY <2>2, <2>3 DEF SeesAll, OneList
  <1> QED BY <1>1, <1>2, <1>3, <1>4 DEF Next, Build, SaveDocumentChunks, vars, saving

(***************************************************************************)
(* SaveDocumentChunks replaces the chunks of a document as its name says   *)
(* when its calls come one after the other, retries and other jobs' calls  *)
(* included: the rows are then never of two lists.                         *)
(***************************************************************************)
THEOREM SavesInTurnLeaveOneList == Spec /\ []InTurn => []OneList
  <1>1. Init => SeesAll
    BY DEF Init, SeesAll, OneList, Open
  <1>2. SeesAll => OneList
    BY DEF SeesAll
  <1> QED BY <1>1, <1>2, NextKeepsSeesAll, IInvHolds, PTL DEF Spec
=============================================================================
