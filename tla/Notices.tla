------------------------------ MODULE Notices ------------------------------
(***************************************************************************)
(* PopupsService and AnnouncementBarsService, which differ in this: bars   *)
(* have a place that an edit may change, and pop-ups share one.  At a      *)
(* place one notice may be active, and the windows of those scheduled may  *)
(* not overlap; both are checked only when a request states the status.    *)
(* Either end of a window may be left open, also of a scheduled notice.    *)
(* Texts and looks are left out; ended stands like draft.                  *)
(***************************************************************************)
EXTENDS Handlers, FiniteSetsExt

CONSTANTS
  NoticeIds,      \* bound: the notices there can be
  NoticeWindows   \* pairs of a start and an end, positive or Null; ends may precede starts

VARIABLES
  notices,        \* popup and thanh_thong_bao by id
  unstated        \* auxiliary: notices whose place or window was edited without their status

noticeVars == <<notices, unstated>>

Null == 0         \* an end that is not set; as a parameter of the check, the moment 0
Undefined == -1   \* a date nobody gave, which no row compares with

Place == {"popup", "top", "bottom"}
NoticeStatus == {"draft", "active", "scheduled"}
Notice == [place : Place, status : NoticeStatus, window : NoticeWindows]

NoticesInit == notices = <<>> /\ unstated = {}

\* A window with both its ends.
Whole(w) == w[1] # Null /\ w[2] # Null

\* The condition of the query: a NULL column or an undefined date meets no comparison.
Overlap(row, asked) ==
  /\ Whole(row) /\ asked[1] # Undefined /\ asked[2] # Undefined
  /\ row[1] < asked[2] /\ row[2] > asked[1]

OthersAt(n, i) == {k \in DOMAIN notices \ {i} : notices[k].place = n.place}

\* checkActiveConflict
NoActiveConflict(n, i) == \A k \in OthersAt(n, i) : notices[k].status # "active"

\* checkScheduleOverlap
NoScheduleOverlap(n, i, asked) ==
  \A k \in OthersAt(n, i) :
    notices[k].status = "scheduled" => ~Overlap(notices[k].window, asked)

\* The checks of a request that states the status of n, with the window it asks about.
Passes(n, i, asked) ==
  /\ n.status = "active" => NoActiveConflict(n, i)
  /\ n.status = "scheduled" => NoScheduleOverlap(n, i, asked)

\* What create asks about: an end that is not set was left out, or given as null.
AsGiven(end) == IF end = Null THEN {Undefined, Null} ELSE {end}

\* What update asks about: dto.startDate ?? existing.startDate, so an end that is taken away
\* is asked about as it was.
OrExisting(end, old) ==
  IF end # Null THEN end ELSE IF old # Null THEN old ELSE Undefined

FreeIds == NoticeIds \ DOMAIN notices

\* create: the checks ...
CreateNotice(r) ==
  \E n \in Notice :
    /\ FreeIds # {}
    /\ \E start \in AsGiven(n.window[1]), end \in AsGiven(n.window[2]) :
         Passes(n, 0, <<start, end>>)
    /\ Begin(r, "insert", n) /\ UNCHANGED noticeVars

\* ... and the INSERT.
InsertNotice(r) ==
  LET i == Min(FreeIds \cup {Max(NoticeIds) + 1}) IN
  /\ pc[r] = "insert" /\ i \in NoticeIds /\ Finish(r)
  /\ notices' = [k \in DOMAIN notices \cup {i} |-> IF k = i THEN job[r] ELSE notices[k]]
  /\ UNCHANGED unstated

\* update: the row and the checks, of what the request gives of it ...
UpdateNotice(r, i) ==
  \E n \in Notice, stated \in BOOLEAN :
    /\ (n.place = "popup") = (notices[i].place = "popup")
    /\ IF stated
       THEN Passes(n, i, <<OrExisting(n.window[1], notices[i].window[1]),
                           OrExisting(n.window[2], notices[i].window[2])>>)
       ELSE n.status = notices[i].status
    /\ Begin(r, "update", [id |-> i, stated |-> stated, row |-> n,
                           given |-> {f \in {"place", "window"} : n[f] # notices[i][f]}])
    /\ UNCHANGED noticeVars

\* ... and the UPDATE of the columns that are given.
SaveNotice(r) ==
  LET i == job[r].id  given == job[r].given \cup IF job[r].stated THEN {"status"} ELSE {} IN
  /\ pc[r] = "update" /\ Finish(r)
  /\ notices' = [k \in DOMAIN notices |->
       IF k = i THEN [f \in DOMAIN notices[k] |-> IF f \in given THEN job[r].row[f] ELSE notices[k][f]]
       ELSE notices[k]]
  /\ unstated' = IF i \notin DOMAIN notices \/ given = {} THEN unstated
                 ELSE IF job[r].stated THEN unstated \ {i} ELSE unstated \cup {i}

RemoveNotice(r, i) ==
  /\ AtOnce(r) /\ notices' = [k \in DOMAIN notices \ {i} |-> notices[k]]
  /\ unstated' = unstated \ {i}

Abandon(r) == GiveUp(r) /\ UNCHANGED noticeVars

Next == \E r \in Requests :
  \/ CreateNotice(r) \/ InsertNotice(r) \/ SaveNotice(r) \/ Abandon(r)
  \/ \E i \in DOMAIN notices : UpdateNotice(r, i) \/ RemoveNotice(r, i)

-----------------------------------------------------------------------------
TypeOK ==
  /\ DOMAIN notices \subseteq NoticeIds /\ \A i \in DOMAIN notices : notices[i] \in Notice
  /\ unstated \subseteq DOMAIN notices

\* findActive: what customers see at moment t.
ActiveAt(t) ==
  {i \in DOMAIN notices : notices[i].status = "active"
     /\ (notices[i].window[1] # Null => notices[i].window[1] <= t)
     /\ (notices[i].window[2] # Null => notices[i].window[2] >= t)}

\* While handlers do not overlap, customers see one notice at a place at any moment, and the
\* windows with both ends that are scheduled there do not meet, but for notices that were
\* last edited without their status.
OneNoticeEachPlace ==
  \A i, k \in DOMAIN notices \ unstated :
    i # k /\ notices[i].place = notices[k].place =>
      /\ ~\E t \in UNION {{w[1], w[2]} : w \in NoticeWindows} : {i, k} \subseteq ActiveAt(t)
      /\ {notices[i].status, notices[k].status} = {"scheduled"} /\ Whole(notices[k].window)
           => ~Overlap(notices[i].window, notices[k].window)
=============================================================================
