-------------------------------- MODULE Novel -------------------------------
(***************************************************************************)
(* A novel made of a session: the tab (components/editor/NovelPanel.tsx)   *)
(* and the stream it reads (generateNovelStream in services/api.ts,        *)
(* api/novel.py): an outline, then each chapter in pieces and once more as *)
(* a whole.  A chapter that fails is given up and the next one begun.      *)
(***************************************************************************)
EXTENDS Integers, Sequences

CONSTANTS MaxNovels,    \* bound: how often a novel is asked for
          MaxPieces     \* bound: pieces of one chapter

VARIABLE panel

Sessions == {"none", "s", "t"}

Counts == 1..2

NoStream == [phase |-> "none", index |-> 0, parts |-> <<>>, count |-> 0]

\* "chapters" holds for each chapter how many pieces are shown of it and
\* "written" how many the backend has sent; "whole" are the chapters it has
\* finished and "failed" those it has given up.
Init == panel = [mounted |-> FALSE, session |-> "s", count |-> 2, loading |-> FALSE,
                 error |-> FALSE, chapters |-> <<>>, active |-> 1, streaming |-> 0,
                 stream |-> NoStream, written |-> <<>>, whole |-> {}, failed |-> {},
                 ended |-> "none", novels |-> 0]

-----------------------------------------------------------------------------
(* The tab                                                                 *)

Mount ==
    /\ ~panel.mounted
    /\ panel' = [panel EXCEPT !.mounted = TRUE]

\* What was made is gone, and the stream is not stopped: it goes on unread.
Unmount ==
    /\ panel.mounted
    /\ panel' = [panel EXCEPT !.mounted = FALSE, !.loading = FALSE, !.error = FALSE,
                              !.chapters = <<>>, !.active = 1, !.streaming = 0, !.count = 2,
                              !.stream = NoStream, !.written = <<>>, !.whole = {},
                              !.failed = {}, !.ended = "none"]

\* The chapters of another session stay where they are.
ChangeSession ==
    \E session \in Sessions \ {panel.session} : panel' = [panel EXCEPT !.session = session]

Shown == panel.mounted /\ panel.session # "none"

SetChapterCount ==
    /\ Shown /\ ~panel.loading
    /\ \E count \in Counts \ {panel.count} : panel' = [panel EXCEPT !.count = count]

HandleGenerate ==
    /\ Shown /\ ~panel.loading /\ panel.novels < MaxNovels
    /\ panel' = [panel EXCEPT !.loading = TRUE, !.error = FALSE, !.chapters = <<>>, !.active = 1,
                              !.streaming = 0, !.novels = @ + 1, !.written = <<>>, !.whole = {},
                              !.failed = {}, !.ended = "none",
                              !.stream = [NoStream EXCEPT !.phase = "outline",
                                                          !.count = panel.count]]

Settled(p, how) == [p EXCEPT !.loading = FALSE, !.ended = how, !.stream = NoStream]

\* An abort is no error; the mark of the chapter being written stays.
HandleStop ==
    /\ Shown /\ panel.loading
    /\ panel' = Settled(panel, "stopped")

SelectChapter ==
    /\ Shown
    /\ \E i \in DOMAIN panel.chapters \ {panel.active} : panel' = [panel EXCEPT !.active = i]

\* Every chapter goes into the file, whether it is finished or not.
Download(chapters) ==
    IF \E i \in DOMAIN chapters : chapters[i] > 0 THEN chapters ELSE <<>>

-----------------------------------------------------------------------------
(* The stream                                                              *)

\* The language model need not keep to the number of chapters.
Outline ==
    /\ panel.stream.phase = "outline"
    /\ \E n \in {panel.stream.count, 0} :
          panel' = [panel EXCEPT !.chapters = [i \in 1..n |-> 0],
                                 !.written = [i \in 1..n |-> 0],
                                 !.stream = [@ EXCEPT !.phase = "chapters", !.index = 1]]

OutlineFails ==
    /\ panel.stream.phase = "outline"
    /\ panel' = [Settled(panel, "failed") EXCEPT !.error = TRUE]

Writing == panel.stream.phase = "chapters" /\ panel.stream.index \in DOMAIN panel.written

Piece ==
    /\ Writing
    /\ LET i == panel.stream.index
       IN  /\ panel.written[i] < MaxPieces
           /\ panel' = [panel EXCEPT !.written[i] = @ + 1, !.chapters[i] = @ + 1,
                                     !.streaming = i, !.active = i]

Chapter ==
    /\ Writing
    /\ LET i == panel.stream.index
       IN  panel' = [panel EXCEPT !.chapters[i] = panel.written[i], !.streaming = 0,
                                  !.whole = @ \cup {i}, !.stream.index = @ + 1]

\* The error stays to the end, and the mark until another piece comes.
ChapterFails ==
    /\ Writing
    /\ panel' = [panel EXCEPT !.error = TRUE, !.failed = @ \cup {panel.stream.index},
                              !.stream.index = @ + 1]

Done ==
    /\ panel.stream.phase = "chapters" /\ ~Writing
    /\ panel' = [Settled(panel, "done") EXCEPT !.streaming = 0]

ConnectionLost ==
    /\ panel.loading
    /\ panel' = [Settled(panel, "lost") EXCEPT !.error = TRUE]

-----------------------------------------------------------------------------

Next == \/ Mount \/ Unmount \/ ChangeSession \/ SetChapterCount \/ HandleGenerate
        \/ HandleStop \/ SelectChapter \/ Outline \/ OutlineFails \/ Piece \/ Chapter
        \/ ChapterFails \/ Done \/ ConnectionLost

Spec == Init /\ [][Next]_panel

-----------------------------------------------------------------------------

TypeOK ==
    /\ panel.session \in Sessions /\ panel.count \in Counts
    /\ DOMAIN panel.chapters = DOMAIN panel.written
    /\ panel.streaming \in 0..Len(panel.chapters)
    /\ panel.chapters # <<>> => panel.active \in DOMAIN panel.chapters
    /\ panel.loading <=> panel.stream.phase # "none"

\* A novel that ended without an error is complete: every chapter is there as
\* the backend finished it, in the file as well, and none is marked as being
\* written; whatever was written before a failure is still there.
CompleteWithoutError ==
    /\ (panel.ended = "done" /\ ~panel.error) =>
          /\ DOMAIN panel.chapters = panel.whole
          /\ Download(panel.chapters) \in {panel.written, <<>>}
          /\ panel.streaming = 0
    /\ panel.chapters = panel.written
=============================================================================
