---------------------------- MODULE CompanySettings ----------------------------
(***************************************************************************)
(* The companies and their logos: the requests that upload, replace and    *)
(* remove a logo or put an address in its place, each in several calls of  *)
(* the database and the bucket, and the page on which a super              *)
(* administrator creates companies and edits the details of one after the  *)
(* other.                                                                  *)
(*                                                                         *)
(* Colours, slugs and the settings of the portal are columns nothing else  *)
(* depends on; who may call what is the matter of RequestGate.             *)
(***************************************************************************)
EXTENDS Naturals, Sequences, SequencesExt

CONSTANTS
  Companies, First,  \* those that exist at first
  Kinds,             \* of images, each with its extension and path
  Urls,              \* addresses of logos elsewhere
  Calls,             \* places for requests under way
  None,
  Operations,        \* bound on what users begin
  Faults             \* bound on failures

\* The address under which the server hands out the uploaded logo.
Address(x) == [logoOf |-> x]
Addresses == {Address(x) : x \in Companies}

ASSUME NoneAssumption == None \notin Companies \cup Kinds \cup Urls \cup Addresses
ASSUME DistinctAssumption == First \subseteq Companies /\ Urls \cap Addresses = {}
ASSUME BoundsAssumption == Operations \in Nat /\ Faults \in Nat

VARIABLES
  row,       \* of each company: address and path of its logo, and whose details
             \* its name and state are
  made,      \* of each company: how much of it has been created
  objects,   \* the logos in the bucket
  call,      \* requests on logos
  selected, detail, form,  \* the page: the company opened, and the companies
                           \* whose details it holds and has in its form
  loads,     \* details asked for; live until the page goes on
  saving,    \* details being saved
  \* history
  overlapped, begun, faults

logos == <<objects, call, overlapped>>
page == <<selected, detail, form, loads, saving>>
vars == <<row, made, logos, page, begun, faults>>

Row == [url : Urls \cup Addresses \cup {None}, path : Kinds \cup {None}, details : Companies]

\* A creation goes through these: the row, its key, its two system roles.
Stages == <<"absent", "row", "key", "admin", "complete">>
Stage == Range(Stages)

\* What is left to do, in the order of the handler.
Idle == [what |-> "none"]
Call ==
  {Idle} \cup
  [what : {"upload", "remove", "update"}, company : Companies,
   kind : Kinds \cup {None}, url : Urls \cup Addresses \cup {None},
   seen : Kinds \cup {None}, left : Seq({"read", "delete", "put", "write"})]

Busy(x) == \E c \in Calls : call[c] # Idle /\ call[c].company = x
Begin == begun < Operations /\ begun' = begun + 1
Fault == faults < Faults /\ faults' = faults + 1

-----------------------------------------------------------------------------
(* Requests on logos. *)

Start(c, x, what, kind, url, steps) ==
  /\ Begin /\ call[c] = Idle /\ made[x] = "complete"
  /\ call' = [call EXCEPT ![c] = [what |-> what, company |-> x, kind |-> kind, url |-> url,
                                  seen |-> None, left |-> steps]]
  /\ overlapped' = [overlapped EXCEPT ![x] = @ \/ Busy(x)]
  /\ UNCHANGED <<row, made, objects, page, faults>>

uploadInternalLogo(c, x, kind) == Start(c, x, "upload", kind, None, <<"read", "put", "write">>)
deleteInternalLogo(c, x) == Start(c, x, "remove", None, None, <<"read", "write">>)

\* Mutant of Sent: the address of the uploaded logo is sent like any other.
SentAsShown(field) ==
  IF field = None THEN <<"read", "write">> ELSE <<"read", "read", "write">>

\* Saving sends what the field for the address holds, and not at all when it is the
\* address of an uploaded logo, of whichever company.  With an address the server
\* looks for an upload twice, once for the address and once for the request to
\* clear the upload, with none once.
Sent(field) ==
  IF field \in Addresses THEN <<"write">>
  ELSE IF field = None THEN <<"read", "write">>
  ELSE <<"read", "read", "write">>

\* The field may hold anything: it was typed, or read before someone else changed
\* the logo, or before another company was selected.
handleSaveBranding(c, x, field) == Start(c, x, "update", None, field, Sent(field))

\* The object to delete before going on: not one that is about to be replaced.
Obsolete(c, path) == path # None /\ path # call[c].kind

Next_(c, step) == call[c] # Idle /\ Head(call[c].left) = step

Read(c) ==
  LET path == row[call[c].company].path IN
  /\ Next_(c, "read")
  /\ call' = [call EXCEPT ![c].seen = path,
                          ![c].left = (IF Obsolete(c, path) THEN <<"delete">> ELSE <<>>) \o Tail(@)]
  /\ UNCHANGED <<row, made, objects, page, overlapped, begun, faults>>

\* A failure to delete is logged.
DeleteObject(c) ==
  /\ Next_(c, "delete")
  /\ call' = [call EXCEPT ![c].left = Tail(@)]
  /\ \/ objects' = objects \ {<<call[c].company, call[c].seen>>} /\ UNCHANGED faults
     \/ Fault /\ UNCHANGED objects
  /\ UNCHANGED <<row, made, page, overlapped, begun>>

PutObject(c) ==
  /\ Next_(c, "put")
  /\ call' = [call EXCEPT ![c].left = Tail(@)]
  /\ objects' = objects \cup {<<call[c].company, call[c].kind>>}
  /\ UNCHANGED <<row, made, page, overlapped, begun, faults>>

Written(c) ==
  LET old == row[call[c].company]
      url == call[c].url
  IN  CASE call[c].what = "upload" -> [old EXCEPT !.path = call[c].kind, !.url = None]
        [] call[c].what = "remove" -> [old EXCEPT !.path = None, !.url = None]
        [] OTHER ->
           IF Sent(url) = <<"write">> THEN old
           ELSE [old EXCEPT !.url = url,
                            !.path = IF url # None \/ call[c].seen # None THEN None ELSE @]

\* The columns in question, at once.
WriteRow(c) ==
  /\ Next_(c, "write")
  /\ row' = [row EXCEPT ![call[c].company] = Written(c)]
  /\ call' = [call EXCEPT ![c] = Idle]
  /\ UNCHANGED <<made, objects, page, overlapped, begun, faults>>

\* Any other failure ends the request; what is done stays done.
Break(c) ==
  /\ call[c] # Idle /\ Head(call[c].left) # "delete" /\ Fault
  /\ call' = [call EXCEPT ![c] = Idle]
  /\ UNCHANGED <<row, made, objects, page, overlapped, begun>>

-----------------------------------------------------------------------------
(* A company is created. *)

createCompany(x) ==
  /\ Begin /\ made[x] = "absent"
  /\ \A y \in Companies : made[y] \in {"absent", "complete"}
  /\ made' = [made EXCEPT ![x] = "row"]
  /\ UNCHANGED <<row, logos, page, faults>>

\* The hook behind the creation, until a query of it fails.
Seed(x) ==
  /\ made[x] \notin {"absent", "complete"}
  /\ \E i \in 2 .. 4 : made[x] = Stages[i] /\ made' = [made EXCEPT ![x] = Stages[i + 1]]
  /\ UNCHANGED <<row, logos, page, begun, faults>>

-----------------------------------------------------------------------------
(* The page: one company after the other.  What is opened lies over the list, so
   that it is closed before the next is chosen. *)

Gone(ls) == [i \in 1 .. Len(ls) |-> [ls[i] EXCEPT !.live = FALSE]]

Select(x) ==
  /\ Begin /\ selected = None /\ made[x] # "absent"
  /\ selected' = x
  /\ loads' = Append(Gone(loads), [company |-> x, live |-> TRUE])
  /\ UNCHANGED <<row, made, logos, detail, form, saving, faults>>

Close ==
  /\ selected # None
  /\ selected' = None /\ detail' = None
  /\ loads' = Gone(loads)
  /\ UNCHANGED <<row, made, logos, form, saving, begun, faults>>

\* Mutant of Loaded: an answer is taken whenever it comes.
LoadedAnyway(l) == detail' = l.company /\ form' = l.company

Loaded(l) ==
  IF l.live THEN detail' = l.company /\ form' = l.company ELSE UNCHANGED <<detail, form>>

LoadAnswered(i) ==
  /\ Loaded(loads[i])
  /\ loads' = RemoveAt(loads, i)
  /\ UNCHANGED <<row, made, logos, selected, saving, begun, faults>>

LoadFails(i) ==
  /\ Fault
  /\ loads' = RemoveAt(loads, i)
  /\ UNCHANGED <<row, made, logos, selected, detail, form, saving, begun>>

\* The form is there when the details are and nothing is being loaded.
handleSaveDetails ==
  /\ Begin /\ selected # None /\ detail # None /\ saving = None
  /\ \A i \in 1 .. Len(loads) : ~loads[i].live
  /\ saving' = [to |-> selected, body |-> form]
  /\ UNCHANGED <<row, made, logos, selected, detail, form, loads, faults>>

\* The answer goes into the details on the page, whosever they are by then.
SaveAnswered ==
  /\ saving # None
  /\ row' = [row EXCEPT ![saving.to].details = saving.body]
  /\ detail' = IF detail = None THEN None ELSE saving.to
  /\ saving' = None
  /\ UNCHANGED <<made, logos, selected, form, loads, begun, faults>>

\* It may have been written nevertheless.
SaveFails ==
  /\ saving # None /\ Fault
  /\ row' \in {row, [row EXCEPT ![saving.to].details = saving.body]}
  /\ saving' = None
  /\ UNCHANGED <<made, logos, selected, detail, form, loads, begun>>

-----------------------------------------------------------------------------
Init ==
  /\ row = [x \in Companies |-> [url |-> None, path |-> None, details |-> x]]
  /\ made = [x \in Companies |-> IF x \in First THEN "complete" ELSE "absent"]
  /\ objects = {} /\ call = [c \in Calls |-> Idle]
  /\ selected = None /\ detail = None /\ form = None /\ loads = <<>> /\ saving = None
  /\ overlapped = [x \in Companies |-> FALSE] /\ begun = 0 /\ faults = 0

Request(c) ==
  \E x \in Companies :
    \/ \E kind \in Kinds : uploadInternalLogo(c, x, kind)
    \/ deleteInternalLogo(c, x)
    \/ \E field \in Urls \cup Addresses \cup {None} : handleSaveBranding(c, x, field)

Proceed(c) == Read(c) \/ DeleteObject(c) \/ PutObject(c) \/ WriteRow(c) \/ Break(c)

Edit ==
  \/ \E x \in Companies : Select(x)
  \/ Close \/ handleSaveDetails \/ SaveAnswered \/ SaveFails
  \/ \E i \in 1 .. Len(loads) : LoadAnswered(i) \/ LoadFails(i)

Next ==
  \/ \E c \in Calls : Request(c) \/ Proceed(c)
  \/ \E x \in Companies : createCompany(x) \/ Seed(x)
  \/ Edit

Spec == Init /\ [][Next]_vars

-----------------------------------------------------------------------------
TypeOK ==
  /\ row \in [Companies -> Row] /\ made \in [Companies -> Stage]
  /\ objects \subseteq Companies \X Kinds /\ call \in [Calls -> Call]
  /\ {selected, detail, form} \subseteq Companies \cup {None}
  /\ loads \in Seq([company : Companies, live : BOOLEAN])
  /\ saving \in {None} \cup [to : Companies, body : Companies]
  /\ overlapped \in [Companies -> BOOLEAN] /\ begun \in 0 .. Operations
  /\ faults \in 0 .. Faults

\* A logo has one source, never its own address; and when all requests on it have
\* come one after the other without a failure, the uploaded logo is in the bucket
\* and nothing else of the company is.
LogoIsServable ==
  \A x \in Companies :
    /\ row[x].url # None => row[x].path = None /\ row[x].url \notin Addresses
    /\ ~Busy(x) /\ ~overlapped[x] /\ faults = 0 =>
         {k \in Kinds : <<x, k>> \in objects} = {row[x].path} \ {None}

\* No company is ever given the details of another, in whatever order the answers
\* arrive while its administrator goes from one to the next.
DetailsAreOwn == \A x \in Companies : row[x].details = x
=============================================================================
