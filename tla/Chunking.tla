------------------------------ MODULE Chunking ------------------------------
(***************************************************************************)
(* document/chunking.go: BuildChunks cuts the text of a document into      *)
(* chunks, line by line, at headings and where a section would exceed      *)
(* MaxRunes.  One action is one round of the loop of SplitSections.        *)
(*                                                                         *)
(* A text is the sequence of its lines, and a line is where it stands in   *)
(* the text: it begins at rune `at' and ends before the newline at `end';  *)
(* without white space around it, it is what lies between `from' and `to'. *)
(* Of what it says only what makes it a heading is kept, and the title     *)
(* NormalizeHeading takes from it.                                         *)
(***************************************************************************)
EXTENDS Integers, Sequences

CONSTANTS
    Texts,    \* the texts BuildChunks is called with
    Titles,   \* titles of headings
    NoTitle   \* the empty title

MaxRunes == 3500
MaxHeadingRunes == 120
MaxHeadingWords == 8

Line == [at : Nat, from : Nat, to : Nat, end : Nat,
         mark : {"hash", "numbered", "colon", "none"}, words : Nat,
         title : Titles \cup {NoTitle}]

\* Lines follow one another, a newline between them.
IsText(t) ==
    /\ t \in Seq(Line)
    /\ \A i \in 1..Len(t) : t[i].at <= t[i].from /\ t[i].from <= t[i].to /\ t[i].to <= t[i].end
    /\ \A i \in 1..(Len(t) - 1) : t[i + 1].at = t[i].end + 1
    /\ \A i, j \in 1..Len(t) : i < j => t[i].end < t[j].at

ASSUME TitlesAssumption == NoTitle \notin Titles
ASSUME TextsAssumption == \A t \in Texts : IsText(t)

VARIABLES
    text,      \* the text, as a sequence of lines
    step,      \* where BuildChunks is: "called", "split", "build" or "returned"
    read,      \* the lines the loop has been through
    start,     \* the buffer `current' holds the lines start..read
    heading,   \* currentHeading
    sections,  \* the sections so far: heading, first and last line of the body
    chunks     \* what BuildChunks returns

chunking == <<text, step, read, start, heading, sections, chunks>>

Blank(line) == line.from = line.to

Filled == {i \in 1..Len(text) : ~Blank(text[i])}

LooksLikeHeading(line) ==
    /\ ~Blank(line)
    /\ line.to - line.from <= MaxHeadingRunes
    /\ \/ line.mark \in {"hash", "numbered"}
       \/ line.mark = "colon" /\ line.words <= MaxHeadingWords

\* strings.TrimSpace of some lines keeps what lies between the first and the last filled one.
Trimmed(lines, first, last) ==
    /\ first \in lines /\ last \in lines
    /\ \A i \in lines : first <= i /\ i <= last

----------------------------------------------------------------------------
ChunkingInit ==
    /\ text \in Texts
    /\ step = "called"
    /\ read = 0
    /\ start = 1
    /\ heading = NoTitle
    /\ sections = <<>>
    /\ chunks = <<>>

\* A text of white space has no chunks.
BuildNothing ==
    /\ step = "called"
    /\ Filled = {}
    /\ step' = "returned"
    /\ text' = <<>>
    /\ UNCHANGED <<read, start, heading, sections, chunks>>

TrimText ==
    /\ step = "called"
    /\ \E first, last \in Filled :
           /\ Trimmed(Filled, first, last)
           /\ text' = [i \in 1..(last - first + 1) |->
                  [text[first + i - 1] EXCEPT
                      !.at = IF i = 1 THEN text[first].from ELSE @,
                      !.end = IF i = last - first + 1 THEN text[last].to ELSE @]]
    /\ step' = "split"
    /\ UNCHANGED <<read, start, heading, sections, chunks>>

----------------------------------------------------------------------------
(* SplitSections *)

Buffered == {i \in Filled : start <= i /\ i <= read}

\* utf8.RuneCountInString(current.String()), the newline of each line included.
RuneCount == IF start <= read THEN text[read].end + 1 - text[start].at ELSE 0

\* Slip: the line at hand is not counted.
FullBefore(line) == RuneCount > MaxRunes

Full(line) == RuneCount + (line.end - line.at) > MaxRunes

CutBefore(line) == Full(line) \/ (LooksLikeHeading(line) /\ start <= read)

\* Slip: only the first heading of a text is taken.
FirstHeading(line) ==
    IF LooksLikeHeading(line) /\ heading = NoTitle THEN line.title ELSE heading

HeadingAfter(line) ==
    IF LooksLikeHeading(line) /\ (start <= read \/ heading = NoTitle)
    THEN line.title ELSE heading

Flushed ==
    \E first, last \in Buffered :
        /\ Trimmed(Buffered, first, last)
        /\ sections' = Append(sections, [heading |-> heading, first |-> first, last |-> last])

\* The line joins the buffer: no cut, or a flush of a blank buffer, which empties nothing.
WriteLine ==
    /\ step = "split" /\ read < Len(text)
    /\ CutBefore(text[read + 1]) => Buffered = {}
    /\ read' = read + 1
    /\ heading' = HeadingAfter(text[read + 1])
    /\ UNCHANGED <<text, step, start, sections, chunks>>

\* The buffer becomes a section under the heading so far, the line begins the next one.
FlushAndWrite ==
    /\ step = "split" /\ read < Len(text)
    /\ CutBefore(text[read + 1])
    /\ Flushed
    /\ start' = read + 1
    /\ read' = read + 1
    /\ heading' = HeadingAfter(text[read + 1])
    /\ UNCHANGED <<text, step, chunks>>

\* Slip: what is left in the buffer after the loop is forgotten.
ForgetLast ==
    /\ step = "split" /\ read = Len(text)
    /\ step' = "build"
    /\ UNCHANGED <<text, read, start, heading, sections, chunks>>

\* As the text is not blank there is a section now: the one without a heading
\* line, "Introduction", is for callers other than BuildChunks.
FlushLast ==
    /\ step = "split" /\ read = Len(text)
    /\ Flushed
    /\ start' = read + 1
    /\ step' = "build"
    /\ UNCHANGED <<text, read, heading, chunks>>

----------------------------------------------------------------------------
\* A section without a title is called "Section n".
Chunk(n) ==
    [heading |-> sections[n].heading, nth |-> IF sections[n].heading = NoTitle THEN n ELSE 0]

ReturnChunks ==
    /\ step = "build"
    /\ chunks' = [n \in 1..Len(sections) |-> Chunk(n)]
    /\ step' = "returned"
    /\ text' = <<>> /\ read' = 0 /\ start' = 1 /\ heading' = NoTitle /\ sections' = <<>>

ChunkingNext ==
    BuildNothing \/ TrimText \/ WriteLine \/ FlushAndWrite \/ FlushLast \/ ReturnChunks

----------------------------------------------------------------------------
(* Properties *)

Section == [heading : Titles \cup {NoTitle}, first : Nat, last : Nat]

ChunkRecord == [heading : Titles \cup {NoTitle}, nth : Nat]

\* The loop is somewhere in the text; sections are lines of it.
ChunkingTypeOK ==
    /\ IsText(text)
    /\ step \in {"called", "split", "build", "returned"}
    /\ read \in 0..Len(text) /\ start \in 1..(Len(text) + 1)
    /\ heading \in Titles \cup {NoTitle}
    /\ sections \in Seq(Section)
    /\ \A k \in 1..Len(sections) : {sections[k].first, sections[k].last} \subseteq Filled
    /\ chunks \in Seq(ChunkRecord)

(***************************************************************************)
(* No line is lost, doubled or moved: the sections follow one another in   *)
(* the text, each line with something in it that has left the buffer lies  *)
(* in one of them, and at the end none is left in the buffer.              *)
(***************************************************************************)
TextKept ==
    /\ \A k \in 1..Len(sections) :
           /\ sections[k].first <= sections[k].last /\ sections[k].last < start
           /\ \A l \in 1..Len(sections) : k < l => sections[k].last < sections[l].first
    /\ \A i \in Filled : i < start =>
           \E k \in 1..Len(sections) : sections[k].first <= i /\ i <= sections[k].last
    /\ step = "build" => start = Len(text) + 1

(***************************************************************************)
(* A section is no longer than MaxRunes, white space around it left out,   *)
(* or it is one line; however many blank lines came before it.             *)
(***************************************************************************)
Runes(section) == text[section.last].to - text[section.first].from

SectionBound ==
    \A k \in 1..Len(sections) :
        Runes(sections[k]) <= MaxRunes \/ sections[k].first = sections[k].last

\* t is the title of the last heading among the first n lines, NoTitle if there is none.
TitleAt(t, n) ==
    \/ t = NoTitle /\ \A i \in 1..n : ~LooksLikeHeading(text[i])
    \/ \E h \in 1..n :
          /\ LooksLikeHeading(text[h]) /\ t = text[h].title
          /\ \A i \in (h + 1)..n : ~LooksLikeHeading(text[i])

(***************************************************************************)
(* A heading begins a section: it is never inside one, and a section bears *)
(* the title of the last heading at or above its first line, also after a  *)
(* cut for length and after headings without a title.                      *)
(***************************************************************************)
HeadingLeads ==
    \A k \in 1..Len(sections) :
        /\ \A i \in (sections[k].first + 1)..sections[k].last : ~LooksLikeHeading(text[i])
        /\ TitleAt(sections[k].heading, sections[k].first)
=============================================================================
