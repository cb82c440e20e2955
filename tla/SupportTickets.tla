--------------------------- MODULE SupportTickets ---------------------------
(***************************************************************************)
(* SupportService, SupportAdminQueryService and SupportScheduler: tickets, *)
(* their messages, and the counters of the board.  A handler reads the     *)
(* ticket, saves it, and then adds its line to the log.  save() reads the  *)
(* row once more, and then updates the columns in which it differs from    *)
(* the one the handler holds: two statements, with other handlers and the  *)
(* hourly job in between.                                                  *)
(***************************************************************************)
EXTENDS Handlers, SequencesExt

CONSTANTS
  Tickets,    \* bound: the tickets there can be
  Staff,      \* employees; those in Editors have the permission support.update
  Editors

VARIABLES
  tickets,   \* ticket_khieu_nai by id
  log,       \* ticket_message by ticket, oldest first
  aged,      \* the tickets that are older than a day
  late,      \* the tickets past their sla_deadline
  torn       \* auxiliary: tickets with a handler that ended half way

ticketVars == <<tickets, log, aged, late, torn>>

TicketStatus == {"Moi", "DangXuLy", "DaGiaiQuyet", "DaDong"}
Closed == {"DaDong", "DaGiaiQuyet"}

SupportTicket ==
  [status : TicketStatus, assignedTo : Staff \cup {"nobody"}, urgent : BOOLEAN,
   responded : Nat, resolved : Nat, closed : Nat]
   \* firstResponseAt, resolvedAt, closedAt: 0 for null, and else the handler that set it
TicketMessage ==
  [sender : {"KhachHang", "NhanVien", "HeThong"},
   type : {"Reply", "InternalNote", "SystemLog"}, newStatus : TicketStatus \cup {"none"}]

Columns == {"status", "assignedTo", "urgent", "responded", "resolved", "closed"}

There == DOMAIN tickets

\* The time at which a handler begins.
Now == served + 1

TicketsInit ==
  /\ tickets = [t \in {} |-> 0] /\ log = [t \in {} |-> <<>>]
  /\ aged = {} /\ late = {} /\ torn = {}

\* createTicket, adminCreateTicket
Create(r) ==
  LET t == Cardinality(There) + 1 IN
  /\ AtOnce(r) /\ t \in Tickets
  /\ \E urgent \in BOOLEAN :
       tickets' = [k \in There \cup {t} |-> IF k \in There THEN tickets[k] ELSE
         [status |-> "Moi", assignedTo |-> "nobody", urgent |-> urgent,
          responded |-> 0, resolved |-> 0, closed |-> 0]]
  /\ log' = [k \in There \cup {t} |-> IF k \in There THEN log[k] ELSE <<>>]
  /\ UNCHANGED <<aged, late, torn>>

-----------------------------------------------------------------------------
(* The handlers of a ticket: what each makes of the row it read *)

\* Mutant of Line: sender and type are swapped.
LineSwapped(sender, type, status) == [sender |-> type, type |-> sender, newStatus |-> status]

Line(sender, type, status) == [sender |-> sender, type |-> type, newStatus |-> status]

\* A handler that read the ticket is to save row and then write lines.
Edit(r, t, row, lines) ==
  Begin(r, "save", [ticket |-> t, row |-> row, columns |-> {}, lines |-> lines])

SendCustomerMessage(r, t) ==
  /\ tickets[t].status # "DaDong"
  /\ Edit(r, t, tickets[t], <<Line("KhachHang", "Reply", "none")>>) /\ UNCHANGED ticketVars

\* The row when employee e is put on it.
TakenUp(row, e) ==
  [row EXCEPT !.assignedTo = e, !.status = IF @ = "Moi" THEN "DangXuLy" ELSE @]

AssignTicket(r, t) ==
  /\ \/ \E e \in Staff \ {tickets[t].assignedTo} :
          Edit(r, t, TakenUp(tickets[t], e), <<Line("HeThong", "SystemLog", "none")>>)
     \/ tickets[t].assignedTo # "nobody" /\
          Edit(r, t, [tickets[t] EXCEPT !.assignedTo = "nobody"],
               <<Line("HeThong", "SystemLog", "none")>>)
  /\ UNCHANGED ticketVars

\* The first employee to answer takes the ticket, and the log says so before the row is
\* saved.  An answer that turns out to be empty is refused after that.
SendStaffMessage(r, t, e) ==
  LET row == tickets[t] IN
  /\ row.status # "DaDong"
  /\ row.assignedTo \in {"nobody", e} \/ e \in Editors
  /\ \E type \in {"Reply", "InternalNote"}, empty \in BOOLEAN :
       LET taken == IF row.assignedTo = "nobody" THEN TakenUp(row, e) ELSE row IN
       Edit(r, t, [taken EXCEPT !.responded = IF @ = 0 /\ type = "Reply" THEN Now ELSE @],
            IF empty THEN <<>> ELSE <<Line("NhanVien", type, "none")>>)
  /\ IF row.assignedTo = "nobody"
     THEN log' = [log EXCEPT ![t] = Append(@, Line("HeThong", "SystemLog", "none"))]
     ELSE UNCHANGED log
  /\ UNCHANGED <<tickets, aged, late, torn>>

CloseTicket(r, t) ==
  /\ tickets[t].status # "DaDong"
  /\ Edit(r, t, [tickets[t] EXCEPT !.status = "DaDong", !.closed = Now],
          <<Line("HeThong", "SystemLog", "DaDong")>>)
  /\ UNCHANGED ticketVars

ResolveTicket(r, t) ==
  /\ tickets[t].status \notin Closed
  /\ Edit(r, t, [tickets[t] EXCEPT !.status = "DaGiaiQuyet", !.resolved = Now],
          <<Line("HeThong", "SystemLog", "DaGiaiQuyet")>>)
  /\ UNCHANGED ticketVars

UpdateTicketMeta(r, t) ==
  Edit(r, t, [tickets[t] EXCEPT !.urgent = ~@], <<>>) /\ UNCHANGED ticketVars

\* Mutant of Reopened: the times of the first end stay.
ReopenedInPart(row) == [row EXCEPT !.status = "DangXuLy", !.closed = 0]

Reopened(row) == [row EXCEPT !.status = "DangXuLy", !.closed = 0, !.resolved = 0]

ReopenTicket(r, t) ==
  /\ tickets[t].status \in Closed /\ Edit(r, t, Reopened(tickets[t]), <<>>)
  /\ UNCHANGED ticketVars

\* save(): the SELECT, which finds the columns that differ ...
SaveTicket(r) ==
  LET held == job[r].row  there == tickets[job[r].ticket] IN
  /\ pc[r] = "save"
  /\ Continue(r, "update", [job[r] EXCEPT !.columns = {c \in Columns : held[c] # there[c]}])
  /\ UNCHANGED ticketVars

\* The row there, with the columns that are given taken from the row that is held.
Merged(there, held, columns) ==
  [c \in Columns |-> IF c \in columns THEN held[c] ELSE there[c]]

\* ... and the UPDATE of these columns.
UpdateColumns(r) ==
  /\ pc[r] = "update"
  /\ tickets' = [tickets EXCEPT ![job[r].ticket] = Merged(@, job[r].row, job[r].columns)]
  /\ IF job[r].lines = <<>> THEN Finish(r) ELSE Continue(r, "log", job[r])
  /\ UNCHANGED <<log, aged, late, torn>>

Logged(r) == log[job[r].ticket] \o job[r].lines

AddLines(r) ==
  /\ pc[r] = "log" /\ log' = [log EXCEPT ![job[r].ticket] = Logged(r)]
  /\ Finish(r) /\ UNCHANGED <<tickets, aged, late, torn>>

Abandon(r) ==
  /\ GiveUp(r) /\ torn' = torn \cup {job[r].ticket} /\ UNCHANGED <<tickets, log, aged, late>>

-----------------------------------------------------------------------------
(* Time and the hourly job *)

TimePasses(t) ==
  /\ \/ t \notin late /\ late' = late \cup {t} /\ UNCHANGED aged
     \/ t \notin aged /\ aged' = aged \cup {t} /\ UNCHANGED late
  /\ UNCHANGED <<handling, tickets, log, torn>>

AutoTransitionStaleTickets ==
  LET stale == {t \in aged : tickets[t].status = "Moi"} IN
  /\ stale # {}
  /\ tickets' = [t \in There |-> IF t \in stale
                   THEN [tickets[t] EXCEPT !.status = "DangXuLy"] ELSE tickets[t]]
  /\ UNCHANGED <<handling, log, aged, late, torn>>

-----------------------------------------------------------------------------
(* The board *)

\* getTicketStats
Open == {t \in There : tickets[t].status \in {"Moi", "DangXuLy"}}
Untouched == {t \in There : tickets[t].status = "Moi" /\ tickets[t].assignedTo = "nobody"}
Urgent == {t \in There : tickets[t].urgent /\ tickets[t].status \notin Closed}
SlaBreached == {t \in late : tickets[t].status \notin Closed}
Finished == {t \in There : tickets[t].closed # 0 \/ tickets[t].resolved # 0}

\* getAssigneeStats: how many open tickets each employee has.
OpenOf(e) == {t \in There : tickets[t].assignedTo = e /\ tickets[t].status \notin Closed}

\* What getMyTicketDetail shows to the customer.
Visible(t) == SelectSeq(log[t], LAMBDA m : m.type # "InternalNote")

Next ==
  \/ \E r \in Requests :
       \/ Create(r) \/ SaveTicket(r) \/ UpdateColumns(r) \/ AddLines(r) \/ Abandon(r)
       \/ \E t \in There :
            \/ SendCustomerMessage(r, t) \/ AssignTicket(r, t) \/ CloseTicket(r, t)
            \/ ResolveTicket(r, t) \/ UpdateTicketMeta(r, t) \/ ReopenTicket(r, t)
            \/ \E e \in Staff : SendStaffMessage(r, t, e)
  \/ \E t \in There : TimePasses(t)
  \/ AutoTransitionStaleTickets

-----------------------------------------------------------------------------
\* The type of every variable.
TypeOK ==
  /\ HandlersTypeOK
  /\ There \subseteq Tickets /\ \A t \in There : tickets[t] \in SupportTicket
  /\ DOMAIN log = There /\ \A t \in There : log[t] \in Seq(TicketMessage)
  /\ aged \cup late \cup torn \subseteq There

\* While handlers do not overlap, with the job of the scheduler anywhere in between and
\* wherever they end: the times of a ticket agree with its status, so that the finished
\* tickets whose time to resolution is averaged are the ones that no employee has on the
\* open list.  Saves that overlap write different columns: an assignment and a close may
\* leave an open ticket with a closing time.
TimesFitStatus ==
  /\ SlaBreached \cup Urgent \subseteq Open
  /\ Finished \cap Open = {} /\ Finished \cup Open = There
  /\ UNION {OpenOf(e) : e \in Staff} = {t \in Open : tickets[t].assignedTo # "nobody"}

\* Likewise: a ticket that someone was put on is not new any more, although a save may
\* take back what the job has done, and so the untouched tickets are all the new ones.
TakenUpIsNotNew == Untouched = {t \in There : tickets[t].status = "Moi"}

\* While handlers do not overlap, the log shows the customer what became of the ticket:
\* the last change of status it tells is the one in force.  A handler that was cut
\* short between the row and the log breaks this, and reopening is not logged.
LogTellsEnd ==
  \A t \in There \ torn :
    (tickets[t].status \in Closed /\ \A r \in Requests : pc[r] = "idle") =>
      LET told == SelectSeq(Visible(t), LAMBDA m : m.newStatus # "none") IN
      told # <<>> /\ Last(told).newStatus = tickets[t].status
=============================================================================
