------------------------- MODULE CompanySettingsProofs -------------------------
(***************************************************************************)
(* Theorems about CompanySettings: its types, that no company is given the *)
(* details of another, and that rows and bucket agree on the logos.        *)
(***************************************************************************)
EXTENDS CompanySettings, TLAPS, SequenceTheorems

-----------------------------------------------------------------------------
(* Sequences. *)

\* A step put before two others.
LEMMA BeforeTwo ==
  ASSUME NEW a, NEW b, NEW c
  PROVE  <<a>> \o <<b, c>> = <<a, b, c>>
<1> DEFINE S == {a, b, c}  s == <<a>>  t == <<b, c>>  u == <<a, b, c>>
<1>1. s \in Seq(S) /\ t \in Seq(S) /\ u \in Seq(S) OBVIOUS
<1>2. Len(s) = 1 /\ Len(t) = 2 /\ Len(u) = 3 OBVIOUS
<1>3. s \o t \in Seq(S) /\ Len(s \o t) = 3 BY <1>1, <1>2, ConcatProperties
<1>4. \A i \in 1 .. 3 : (s \o t)[i] = IF i <= 1 THEN s[i] ELSE t[i - 1]
  BY <1>1, <1>2, ConcatProperties
<1>5. \A i \in 1 .. 3 : (s \o t)[i] = u[i] BY <1>4
<1>6. QED BY <1>1, <1>2, <1>3, <1>5, SeqEqual

\* A step put before another.
LEMMA BeforeOne ==
  ASSUME NEW a, NEW b
  PROVE  <<a>> \o <<b>> = <<a, b>>
<1> DEFINE S == {a, b}  s == <<a>>  t == <<b>>  u == <<a, b>>
<1>1. s \in Seq(S) /\ t \in Seq(S) /\ u \in Seq(S) OBVIOUS
<1>2. Len(s) = 1 /\ Len(t) = 1 /\ Len(u) = 2 OBVIOUS
<1>3. s \o t \in Seq(S) /\ Len(s \o t) = 2 BY <1>1, <1>2, ConcatProperties
<1>4. \A i \in 1 .. 2 : (s \o t)[i] = IF i <= 1 THEN s[i] ELSE t[i - 1]
  BY <1>1, <1>2, ConcatProperties
<1>5. \A i \in 1 .. 2 : (s \o t)[i] = u[i] BY <1>4
<1>6. QED BY <1>1, <1>2, <1>3, <1>5, SeqEqual

\* What is left of a sequence without one of its elements were elements of it.
LEMMA WithoutOne ==
  ASSUME NEW S, NEW s \in Seq(S), NEW i \in 1 .. Len(s)
  PROVE  /\ RemoveAt(s, i) \in Seq(S)
         /\ \A k \in 1 .. Len(RemoveAt(s, i)) : \E j \in 1 .. Len(s) : RemoveAt(s, i)[k] = s[j]
<1> DEFINE a == SubSeq(s, 1, i - 1)  b == SubSeq(s, i + 1, Len(s))  n == Len(s)
<1>1. n \in Nat /\ i \in Nat BY LenProperties
<1>2. /\ a \in Seq(S) /\ Len(a) = i - 1
      /\ \A k \in 1 .. i - 1 : a[k] = s[k]
  <2>1. \A k \in 1 .. i - 1 : s[k] \in S BY <1>1, ElementOfSeq
  <2>2. 1 \in Int /\ i - 1 \in Int BY <1>1
  <2>3. /\ a \in Seq(S) /\ Len(a) = IF 1 <= i - 1 THEN (i - 1) - 1 + 1 ELSE 0
        /\ \A k \in 1 .. (i - 1) - 1 + 1 : a[k] = s[1 + k - 1]
    BY <2>1, <2>2, SubSeqProperties
  <2>4. Len(a) = i - 1 BY <2>3, <1>1
  <2>5. ASSUME NEW k \in 1 .. i - 1 PROVE a[k] = s[k]
    <3>1. k \in 1 .. (i - 1) - 1 + 1 /\ 1 + k - 1 = k BY <1>1
    <3>2. QED BY <3>1, <2>3
  <2>6. QED BY <2>3, <2>4, <2>5
<1>3. /\ b \in Seq(S) /\ Len(b) = n - i
      /\ \A k \in 1 .. n - i : b[k] = s[i + k]
  <2>1. \A k \in i + 1 .. n : s[k] \in S BY <1>1, ElementOfSeq
  <2>2. i + 1 \in Int /\ n \in Int BY <1>1
  <2>3. /\ b \in Seq(S) /\ Len(b) = IF i + 1 <= n THEN n - (i + 1) + 1 ELSE 0
        /\ \A k \in 1 .. n - (i + 1) + 1 : b[k] = s[(i + 1) + k - 1]
    BY <2>1, <2>2, SubSeqProperties
  <2>4. Len(b) = n - i BY <2>3, <1>1
  <2>5. ASSUME NEW k \in 1 .. n - i PROVE b[k] = s[i + k]
    <3>1. k \in 1 .. n - (i + 1) + 1 /\ (i + 1) + k - 1 = i + k BY <1>1
    <3>2. QED BY <3>1, <2>3
  <2>6. QED BY <2>3, <2>4, <2>5
<1>4. /\ a \o b \in Seq(S) /\ Len(a \o b) = n - 1
      /\ \A k \in 1 .. n - 1 : (a \o b)[k] = IF k <= i - 1 THEN a[k] ELSE b[k - (i - 1)]
  <2> HIDE DEF a, b
  <2>1. /\ a \o b \in Seq(S) /\ Len(a \o b) = Len(a) + Len(b)
        /\ \A k \in 1 .. Len(a) + Len(b) :
             (a \o b)[k] = IF k <= Len(a) THEN a[k] ELSE b[k - Len(a)]
    BY <1>2, <1>3, ConcatProperties
  <2>2. Len(a) + Len(b) = n - 1 BY <1>1, <1>2, <1>3
  <2>3. QED BY <2>1, <2>2, <1>2
<1> HIDE DEF a, b
<1>5. ASSUME NEW k \in 1 .. n - 1 PROVE \E j \in 1 .. n : (a \o b)[k] = s[j]
  <2>1. CASE k <= i - 1
    <3>1. k \in 1 .. i - 1 /\ k \in 1 .. n BY <2>1, <1>1
    <3>2. QED BY <3>1, <2>1, <1>2, <1>4
  <2>2. CASE ~(k <= i - 1)
    <3>1. k - (i - 1) \in 1 .. n - i BY <2>2, <1>1
    <3>2. (a \o b)[k] = s[i + (k - (i - 1))] BY <3>1, <2>2, <1>3, <1>4
    <3>3. i + (k - (i - 1)) = k + 1 /\ k + 1 \in 1 .. n BY <1>1
    <3>4. QED BY <3>2, <3>3
  <2>3. QED BY <2>1, <2>2
<1>6. RemoveAt(s, i) = a \o b BY DEF RemoveAt, a, b
<1>7. QED BY <1>4, <1>5, <1>6

-----------------------------------------------------------------------------
(* What a request may have left to do. *)

UploadSteps ==
  {<<"write">>, <<"put", "write">>, <<"read", "put", "write">>, <<"delete", "put", "write">>}
ChangeSteps ==
  {<<"write">>, <<"read", "write">>, <<"delete", "write">>,
   <<"read", "read", "write">>, <<"delete", "read", "write">>}

\* After a step, with and without the deletion that a read may add, the same holds.
LEMMA StepsAfter ==
  ASSUME NEW P, P = UploadSteps \/ P = ChangeSteps, NEW l \in P
  PROVE  /\ l \in Seq({"read", "delete", "put", "write"})
         /\ Head(l) = "read" =>
              /\ <<>> \o Tail(l) \in P /\ <<>> \o Tail(l) = Tail(l)
              /\ <<"delete">> \o Tail(l) \in P
              /\ Head(<<"delete">> \o Tail(l)) = "delete"
         /\ Head(l) \in {"delete", "put"} => Tail(l) \in P
         /\ Head(l) = "put" => P = UploadSteps
<1> USE DEF UploadSteps, ChangeSteps
<1>1. CASE l = <<"write">> BY <1>1
<1>2. CASE l = <<"read", "write">>
  <2>1. Head(l) = "read" /\ Tail(l) = <<"write">> BY <1>2
  <2>2. <<"delete">> \o <<"write">> = <<"delete", "write">> BY BeforeOne
  <2>3. <<"write">> \in P /\ <<"delete", "write">> \in P BY <1>2
  <2>4. <<>> \o <<"write">> = <<"write">> OBVIOUS
  <2>5. Head(<<"delete", "write">>) = "delete" OBVIOUS
  <2>6. l \in Seq({"read", "delete", "put", "write"}) BY <1>2
  <2>7. QED BY <2>1, <2>2, <2>3, <2>4, <2>5, <2>6
<1>3. CASE l = <<"delete", "write">> BY <1>3
<1>4. CASE l = <<"put", "write">> BY <1>4
<1>5. CASE l = <<"read", "read", "write">>
  <2>1. Head(l) = "read" /\ Tail(l) = <<"read", "write">> BY <1>5
  <2>2. <<"delete">> \o <<"read", "write">> = <<"delete", "read", "write">> BY BeforeTwo
  <2>3. <<"read", "write">> \in P /\ <<"delete", "read", "write">> \in P BY <1>5
  <2>4. <<>> \o <<"read", "write">> = <<"read", "write">> OBVIOUS
  <2>5. Head(<<"delete", "read", "write">>) = "delete" OBVIOUS
  <2>6. l \in Seq({"read", "delete", "put", "write"}) BY <1>5
  <2>7. QED BY <2>1, <2>2, <2>3, <2>4, <2>5, <2>6
<1>6. CASE l = <<"delete", "read", "write">> BY <1>6
<1>7. CASE l = <<"read", "put", "write">>
  <2>1. Head(l) = "read" /\ Tail(l) = <<"put", "write">> BY <1>7
  <2>2. <<"delete">> \o <<"put", "write">> = <<"delete", "put", "write">> BY BeforeTwo
  <2>3. <<"put", "write">> \in P /\ <<"delete", "put", "write">> \in P BY <1>7
  <2>4. <<>> \o <<"put", "write">> = <<"put", "write">> OBVIOUS
  <2>5. Head(<<"delete", "put", "write">>) = "delete" OBVIOUS
  <2>6. l \in Seq({"read", "delete", "put", "write"}) BY <1>7
  <2>7. QED BY <2>1, <2>2, <2>3, <2>4, <2>5, <2>6
<1>8. CASE l = <<"delete", "put", "write">> BY <1>8
<1>9. QED BY <1>1, <1>2, <1>3, <1>4, <1>5, <1>6, <1>7, <1>8

-----------------------------------------------------------------------------
(* Types. *)

StepsOf(what) == IF what = "upload" THEN UploadSteps ELSE ChangeSteps

\* Only an upload has an image, and puts it.
Fine(r) ==
  /\ r.left \in StepsOf(r.what)
  /\ IF r.what = "upload" THEN r.kind \in Kinds ELSE r.kind = None

StepsOK == \A c \in Calls : call[c] # Idle => Fine(call[c])

Typed == TypeOK /\ StepsOK

LEMMA InitTyped == Init => Typed
<1> SUFFICES ASSUME Init PROVE Typed OBVIOUS
<1> USE DEF Init
<1>1. row \in [Companies -> Row] BY NoneAssumption DEF Row
<1>2. made \in [Companies -> Stage] BY DEF Stage, Stages, Range
<1>3. call \in [Calls -> Call] /\ StepsOK BY DEF Call, StepsOK
<1>4. loads \in Seq([company : Companies, live : BOOLEAN]) OBVIOUS
<1>5. QED BY <1>1, <1>2, <1>3, <1>4, BoundsAssumption DEF Typed, TypeOK

\* One request is put in the place of another.
LEMMA OneCall ==
  ASSUME Typed, NEW c \in Calls, NEW e \in Call, e # Idle => Fine(e),
         call' = [call EXCEPT ![c] = e]
  PROVE  call' \in [Calls -> Call] /\ StepsOK'
<1> USE DEF Typed, TypeOK, StepsOK
<1>1. call' \in [Calls -> Call] OBVIOUS
<1>2. ASSUME NEW d \in Calls, call'[d] # Idle PROVE Fine(call'[d])
  <2>1. CASE d = c BY <2>1, <1>2
  <2>2. CASE d # c BY <2>2, <1>2
  <2>3. QED BY <2>1, <2>2
<1>3. QED BY <1>1, <1>2

\* A request that has begun.
LEMMA UnderWay ==
  ASSUME Typed, NEW c \in Calls, call[c] # Idle
  PROVE  /\ call[c].what \in {"upload", "remove", "update"} /\ call[c].company \in Companies
         /\ call[c].kind \in Kinds \cup {None} /\ call[c].seen \in Kinds \cup {None}
         /\ call[c].url \in Urls \cup Addresses \cup {None}
         /\ Fine(call[c])
  BY DEF Typed, TypeOK, StepsOK, Call

\* A step of the request keeps all but what it saw and has left.
Becomes(e, r, seen, left) ==
  /\ e \in Call /\ e # Idle /\ Fine(e)
  /\ e.seen = seen /\ e.left = left /\ e.what = r.what
  /\ e.company = r.company /\ e.kind = r.kind /\ e.url = r.url

LEMMA Updated ==
  ASSUME Typed, NEW c \in Calls, call[c] # Idle,
         NEW seen \in Kinds \cup {None}, NEW left \in StepsOf(call[c].what),
         NEW e, e = [call[c] EXCEPT !.seen = seen, !.left = left]
  PROVE  Becomes(e, call[c], seen, left)
<1> DEFINE R == [what : {"upload", "remove", "update"}, company : Companies,
                 kind : Kinds \cup {None}, url : Urls \cup Addresses \cup {None},
                 seen : Kinds \cup {None}, left : Seq({"read", "delete", "put", "write"})]
           r == call[c]
           r1 == [r EXCEPT !.seen = seen]
           r2 == [r1 EXCEPT !.left = left]
<1>1. left \in Seq({"read", "delete", "put", "write"}) BY StepsAfter DEF StepsOf
<1>2. r \in R BY DEF Typed, TypeOK, Call
<1>3. /\ r1 \in R /\ r1.seen = seen /\ r1.what = r.what /\ r1.company = r.company
      /\ r1.kind = r.kind /\ r1.url = r.url
  BY <1>2
<1>4. /\ r2 \in R /\ r2.seen = r1.seen /\ r2.left = left /\ r2.what = r1.what
      /\ r2.company = r1.company /\ r2.kind = r1.kind /\ r2.url = r1.url
  BY <1>1, <1>3
<1>5. r2 \in Call /\ r2 # Idle BY <1>4 DEF Call, Idle
<1>6. e = r2 OBVIOUS
<1>7. Fine(r2)
  <2>1. r2.left \in StepsOf(r2.what) BY <1>3, <1>4
  <2>2. Fine(r) BY UnderWay
  <2>3. QED BY <2>1, <2>2, <1>3, <1>4 DEF Fine
<1>8. QED BY <1>3, <1>4, <1>5, <1>6, <1>7 DEF Becomes

\* The next step of a request, and what the step makes of it.
LEMMA Step ==
  ASSUME Typed, NEW c \in Calls, call[c] # Idle
  PROVE  LET l == call[c].left  P == StepsOf(call[c].what) IN
         /\ Head(l) = "read" =>
              /\ <<>> \o Tail(l) \in P /\ <<>> \o Tail(l) = Tail(l)
              /\ <<"delete">> \o Tail(l) \in P
              /\ Head(<<"delete">> \o Tail(l)) = "delete"
         /\ Head(l) \in {"delete", "put"} => Tail(l) \in P
         /\ Head(l) = "put" => call[c].what = "upload"
<1> DEFINE P == StepsOf(call[c].what)  l == call[c].left
<1>1. l \in P /\ (P = UploadSteps \/ P = ChangeSteps) BY UnderWay DEF Fine, StepsOf
<1>2. P = UploadSteps => call[c].what = "upload"
  <2>1. <<"put", "write">> \in UploadSteps BY DEF UploadSteps
  <2>2. <<"put", "write">> \notin ChangeSteps BY DEF ChangeSteps
  <2>3. QED BY <2>1, <2>2 DEF StepsOf
<1> HIDE DEF P, l
<1>3. QED BY <1>1, <1>2, StepsAfter DEF P, l

LEMMA StartTyped ==
  ASSUME Typed, NEW c \in Calls, NEW x \in Companies, NEW what \in {"upload", "remove", "update"},
         NEW kind \in Kinds \cup {None}, NEW url \in Urls \cup Addresses \cup {None},
         NEW steps \in StepsOf(what),
         IF what = "upload" THEN kind \in Kinds ELSE kind = None,
         Start(c, x, what, kind, url, steps)
  PROVE  Typed'
<1> DEFINE e == [what |-> what, company |-> x, kind |-> kind, url |-> url,
                 seen |-> None, left |-> steps]
<1>1. steps \in Seq({"read", "delete", "put", "write"}) BY StepsAfter DEF StepsOf
<1>2. e \in Call BY <1>1 DEF Call
<1>3. Fine(e) BY DEF Fine
<1>4. call' = [call EXCEPT ![c] = e] BY DEF Start
<1>5. call' \in [Calls -> Call] /\ StepsOK' BY <1>2, <1>3, <1>4, OneCall
<1>6. overlapped' \in [Companies -> BOOLEAN]
  <2>1. overlapped' = [overlapped EXCEPT ![x] = overlapped[x] \/ Busy(x)] BY DEF Start
  <2>2. (overlapped[x] \/ Busy(x)) \in BOOLEAN OBVIOUS
  <2>3. QED BY <2>1, <2>2 DEF Typed, TypeOK
<1>7. begun' \in 0 .. Operations BY BoundsAssumption DEF Start, Begin, Typed, TypeOK
<1>8. QED BY <1>5, <1>6, <1>7 DEF Start, page, Typed, TypeOK

LEMMA RequestTyped ==
  ASSUME Typed, NEW c \in Calls, Request(c)
  PROVE  Typed'
<1>1. PICK x \in Companies :
        \/ \E kind \in Kinds : uploadInternalLogo(c, x, kind)
        \/ deleteInternalLogo(c, x)
        \/ \E field \in Urls \cup Addresses \cup {None} : handleSaveBranding(c, x, field)
  BY DEF Request
<1>2. CASE \E kind \in Kinds : uploadInternalLogo(c, x, kind)
  <2>1. PICK kind \in Kinds : Start(c, x, "upload", kind, None, <<"read", "put", "write">>)
    BY <1>2 DEF uploadInternalLogo
  <2>2. <<"read", "put", "write">> \in StepsOf("upload") BY DEF StepsOf, UploadSteps
  <2>3. QED BY <2>1, <2>2, StartTyped
<1>3. CASE deleteInternalLogo(c, x)
  <2>1. <<"read", "write">> \in StepsOf("remove") BY DEF StepsOf, ChangeSteps
  <2>2. QED BY <1>3, <2>1, StartTyped DEF deleteInternalLogo
<1>4. CASE \E field \in Urls \cup Addresses \cup {None} : handleSaveBranding(c, x, field)
  <2>1. PICK field \in Urls \cup Addresses \cup {None} :
          Start(c, x, "update", None, field, Sent(field))
    BY <1>4 DEF handleSaveBranding
  <2>2. Sent(field) \in StepsOf("update") BY DEF Sent, StepsOf, ChangeSteps
  <2>3. QED BY <2>1, <2>2, StartTyped
<1>5. QED BY <1>1, <1>2, <1>3, <1>4

LEMMA ReadTyped ==
  ASSUME Typed, NEW c \in Calls, Read(c)
  PROVE  Typed'
<1> DEFINE path == row[call[c].company].path
           left == (IF Obsolete(c, path) THEN <<"delete">> ELSE <<>>) \o Tail(call[c].left)
           e == [call[c] EXCEPT !.seen = path, !.left = left]
<1>1. call[c] # Idle /\ Head(call[c].left) = "read" BY DEF Read, Next_
<1>2. path \in Kinds \cup {None}
  <2>1. call[c].company \in Companies BY <1>1, UnderWay
  <2>2. row[call[c].company] \in Row BY <2>1 DEF Typed, TypeOK
  <2>3. QED BY <2>2 DEF Row
<1>3. left \in StepsOf(call[c].what)
  <2>1. /\ <<>> \o Tail(call[c].left) \in StepsOf(call[c].what)
        /\ <<"delete">> \o Tail(call[c].left) \in StepsOf(call[c].what)
    BY <1>1, Step
  <2>2. CASE Obsolete(c, path) BY <2>1, <2>2
  <2>3. CASE ~Obsolete(c, path) BY <2>1, <2>3
  <2>4. QED BY <2>2, <2>3
<1>4. call' = [call EXCEPT ![c] = e] BY DEF Read, Typed, TypeOK
<1> HIDE DEF path, left, e
<1>5. e \in Call /\ Fine(e) BY <1>1, <1>2, <1>3, Updated DEF e, Becomes
<1>6. call' \in [Calls -> Call] /\ StepsOK' BY <1>4, <1>5, OneCall
<1>7. QED BY <1>6 DEF Read, page, Typed, TypeOK

\* A request that has seen nothing new.
LEMMA SameSeen ==
  ASSUME Typed, NEW c \in Calls, call[c] # Idle, NEW left,
         call' = [call EXCEPT ![c].left = left]
  PROVE  call' = [call EXCEPT ![c] = [call[c] EXCEPT !.seen = call[c].seen, !.left = left]]
<1> DEFINE e == [call[c] EXCEPT !.seen = call[c].seen, !.left = left]
<1>1. call' = [call EXCEPT ![c] = [call[c] EXCEPT !.left = left]] BY DEF Typed, TypeOK
<1>2. [call[c] EXCEPT !.left = left] = e
  <2>1. call[c] \in [what : {"upload", "remove", "update"}, company : Companies,
           kind : Kinds \cup {None}, url : Urls \cup Addresses \cup {None},
           seen : Kinds \cup {None}, left : Seq({"read", "delete", "put", "write"})]
    BY DEF Typed, TypeOK, Call
  <2>2. [call[c] EXCEPT !.seen = call[c].seen] = call[c] BY <2>1
  <2>3. e = [[call[c] EXCEPT !.seen = call[c].seen] EXCEPT !.left = left] OBVIOUS
  <2>4. QED BY <2>2, <2>3
<1>3. QED BY <1>1, <1>2

LEMMA ProceedTyped ==
  ASSUME Typed, NEW c \in Calls, DeleteObject(c) \/ PutObject(c)
  PROVE  Typed'
<1> DEFINE left == Tail(call[c].left)
           e == [call[c] EXCEPT !.seen = call[c].seen, !.left = left]
<1>1. call[c] # Idle /\ Head(call[c].left) \in {"delete", "put"}
  BY DEF DeleteObject, PutObject, Next_
<1>2. left \in StepsOf(call[c].what) BY <1>1, Step
<1>3. call[c].seen \in Kinds \cup {None} BY <1>1, UnderWay
<1>4. call' = [call EXCEPT ![c] = e] BY <1>1, SameSeen DEF DeleteObject, PutObject
<1> HIDE DEF left, e
<1>5. e \in Call /\ Fine(e) BY <1>1, <1>2, <1>3, Updated DEF e, Becomes
<1>6. call' \in [Calls -> Call] /\ StepsOK' BY <1>4, <1>5, OneCall
<1>7. objects' \subseteq Companies \X Kinds
  <2>1. CASE DeleteObject(c) BY <2>1 DEF DeleteObject, Typed, TypeOK
  <2>2. CASE PutObject(c)
    <3>1. call[c].what = "upload" BY <2>2, <1>1, Step DEF PutObject, Next_
    <3>2. call[c].company \in Companies /\ call[c].kind \in Kinds
      BY <3>1, <1>1, UnderWay DEF Fine
    <3>3. QED BY <2>2, <3>2 DEF PutObject, Typed, TypeOK
  <2>3. QED BY <2>1, <2>2
<1>8. faults' \in 0 .. Faults
  BY BoundsAssumption DEF DeleteObject, PutObject, Fault, Typed, TypeOK
<1>9. QED BY <1>6, <1>7, <1>8 DEF DeleteObject, PutObject, page, Typed, TypeOK

LEMMA EndTyped ==
  ASSUME Typed, NEW c \in Calls, WriteRow(c) \/ Break(c)
  PROVE  Typed'
<1>1. Idle \in Call BY DEF Call
<1>2. call' = [call EXCEPT ![c] = Idle] BY DEF WriteRow, Break
<1>3. call' \in [Calls -> Call] /\ StepsOK' BY <1>1, <1>2, OneCall
<1>4. row' \in [Companies -> Row]
  <2>1. CASE Break(c) BY <2>1 DEF Break, Typed, TypeOK
  <2>2. CASE WriteRow(c)
    <3>1. call[c] # Idle BY <2>2 DEF WriteRow, Next_
    <3>2. /\ row[call[c].company] \in Row
          /\ call[c].kind \in Kinds \cup {None}
          /\ call[c].url \in Urls \cup Addresses \cup {None}
      BY <3>1, UnderWay DEF Typed, TypeOK
    <3>3. Written(c) \in Row BY <3>2 DEF Written, Row
    <3>4. row' = [row EXCEPT ![call[c].company] = Written(c)] BY <2>2 DEF WriteRow
    <3>5. QED BY <3>3, <3>4 DEF Typed, TypeOK
  <2>3. QED BY <2>1, <2>2
<1>5. faults' \in 0 .. Faults BY BoundsAssumption DEF WriteRow, Break, Fault, Typed, TypeOK
<1>6. QED BY <1>3, <1>4, <1>5 DEF WriteRow, Break, page, Typed, TypeOK

Load == [company : Companies, live : BOOLEAN]

\* Loads that the page has left behind.
LEMMA GoneLoads ==
  ASSUME NEW ls \in Seq(Load)
  PROVE  /\ Gone(ls) \in Seq(Load) /\ Len(Gone(ls)) = Len(ls)
         /\ \A i \in 1 .. Len(ls) : ~Gone(ls)[i].live
<1>1. Len(ls) \in Nat /\ \A i \in 1 .. Len(ls) : ls[i] \in Load BY LenProperties, ElementOfSeq
<1>2. \A i \in 1 .. Len(ls) : [ls[i] EXCEPT !.live = FALSE] \in Load BY <1>1 DEF Load
<1>3. \A i \in 1 .. Len(ls) : ~[ls[i] EXCEPT !.live = FALSE].live BY <1>1 DEF Load
<1>4. Gone(ls) = [i \in 1 .. Len(ls) |-> [ls[i] EXCEPT !.live = FALSE]] BY DEF Gone
<1>5. Gone(ls) \in Seq(Load) BY <1>1, <1>2, <1>4
<1>6. Len(Gone(ls)) = Len(ls) BY <1>1, <1>4
<1>7. ASSUME NEW i \in 1 .. Len(ls) PROVE ~Gone(ls)[i].live
  <2>1. Gone(ls)[i] = [ls[i] EXCEPT !.live = FALSE] BY <1>4
  <2>2. QED BY <2>1, <1>3
<1>8. QED BY <1>5, <1>6, <1>7

\* The form is that of the company opened wherever it can be saved, and what is
\* being saved was in the form of the company it is saved to.
Own ==
  /\ DetailsAreOwn
  /\ detail # None => selected # None /\ form = selected
  /\ \A i \in 1 .. Len(loads) :
       loads[i].live => selected # None /\ loads[i].company = selected
  /\ saving # None => saving.to = saving.body

LEMMA EditTyped ==
  ASSUME Typed, Own, Edit
  PROVE  Typed'
<1> USE BoundsAssumption DEF Typed, TypeOK, StepsOK, logos, Begin, Fault
<1>1. CASE \E x \in Companies : Select(x)
  <2>1. PICK x \in Companies : Select(x) BY <1>1
  <2>2. [company |-> x, live |-> TRUE] \in Load BY DEF Load
  <2>3. Append(Gone(loads), [company |-> x, live |-> TRUE]) \in Seq(Load)
    BY <2>2, GoneLoads, AppendProperties DEF Load
  <2>4. QED BY <2>1, <2>3 DEF Select, Load
<1>2. CASE Close
  <2>1. Gone(loads) \in Seq(Load) BY GoneLoads DEF Load
  <2>2. QED BY <1>2, <2>1 DEF Close, Load
<1>3. CASE handleSaveDetails
  <2>1. selected \in Companies BY <1>3 DEF handleSaveDetails
  <2>2. saving' = [to |-> selected, body |-> form] BY <1>3 DEF handleSaveDetails
  <2>3. form \in Companies BY <1>3, <2>1 DEF handleSaveDetails, Own
  <2>4. QED BY <1>3, <2>1, <2>2, <2>3 DEF handleSaveDetails
<1>4. CASE SaveAnswered \/ SaveFails
  <2>1. saving \in [to : Companies, body : Companies] BY <1>4 DEF SaveAnswered, SaveFails
  <2>2. [row EXCEPT ![saving.to].details = saving.body] \in [Companies -> Row]
    BY <2>1 DEF Row
  <2>3. row' \in [Companies -> Row] BY <1>4, <2>2 DEF SaveAnswered, SaveFails
  <2>4. detail' \in Companies \cup {None} BY <1>4, <2>1 DEF SaveAnswered, SaveFails
  <2>5. QED BY <1>4, <2>3, <2>4 DEF SaveAnswered, SaveFails
<1>6. CASE \E i \in 1 .. Len(loads) : LoadAnswered(i) \/ LoadFails(i)
  <2>1. PICK i \in 1 .. Len(loads) : LoadAnswered(i) \/ LoadFails(i) BY <1>6
  <2>2. loads \in Seq(Load) BY DEF Load
  <2>3. loads[i] \in Load /\ RemoveAt(loads, i) \in Seq(Load)
    BY <2>2, ElementOfSeq, WithoutOne
  <2>4. CASE LoadAnswered(i)
    <3>1. detail' \in Companies \cup {None} /\ form' \in Companies \cup {None}
      BY <2>3, <2>4 DEF LoadAnswered, Loaded, Load
    <3>2. QED BY <2>3, <2>4, <3>1 DEF LoadAnswered, Load
  <2>5. CASE LoadFails(i) BY <2>3, <2>5 DEF LoadFails, Load
  <2>6. QED BY <2>1, <2>4, <2>5
<1>7. QED BY <1>1, <1>2, <1>3, <1>4, <1>6 DEF Edit

LEMMA CreationTyped ==
  ASSUME Typed, NEW x \in Companies, createCompany(x) \/ Seed(x)
  PROVE  Typed'
<1>1. \A i \in 1 .. 5 : Stages[i] \in Stage BY DEF Stage, Stages, Range
<1>2. "row" \in Stage BY DEF Stage, Stages, Range
<1>3. made' \in [Companies -> Stage]
  <2>1. CASE createCompany(x) BY <2>1, <1>2 DEF createCompany, Typed, TypeOK
  <2>2. CASE Seed(x) BY <2>2, <1>1 DEF Seed, Typed, TypeOK
  <2>3. QED BY <2>1, <2>2
<1>4. begun' \in 0 .. Operations
  BY BoundsAssumption DEF createCompany, Seed, Begin, Typed, TypeOK
<1>5. QED BY <1>3, <1>4 DEF createCompany, Seed, logos, page, Typed, TypeOK, StepsOK

LEMMA NextTyped == Typed /\ Own /\ [Next]_vars => Typed'
<1> SUFFICES ASSUME Typed, Own, [Next]_vars PROVE Typed' OBVIOUS
<1>1. CASE \E c \in Calls : Request(c) \/ Proceed(c)
  BY <1>1, RequestTyped, ReadTyped, ProceedTyped, EndTyped DEF Proceed
<1>2. CASE \E x \in Companies : createCompany(x) \/ Seed(x) BY <1>2, CreationTyped
<1>3. CASE Edit BY <1>3, EditTyped
<1>4. CASE UNCHANGED vars BY <1>4 DEF vars, logos, page, Typed, TypeOK, StepsOK
<1>5. QED BY <1>1, <1>2, <1>3, <1>4 DEF Next

-----------------------------------------------------------------------------
(* Details. *)

LEMMA InitOwn == Init => Own
  BY DEF Init, Own, DetailsAreOwn

LEMMA EditOwn ==
  ASSUME Typed, Own, Edit
  PROVE  Own'
<1> USE NoneAssumption DEF Own, DetailsAreOwn
<1>0. loads \in Seq(Load) BY DEF Load, Typed, TypeOK
<1>1. CASE \E x \in Companies : Select(x)
  <2>1. PICK x \in Companies : Select(x) BY <1>1
  <2>2. DetailsAreOwn' /\ (saving # None => saving.to = saving.body)' /\ detail' = None
    BY <2>1 DEF Select
  <2>3. selected' # None BY <2>1 DEF Select
  <2>4. ASSUME NEW i \in 1 .. Len(loads'), loads'[i].live PROVE loads'[i].company = selected'
    <3>1. [company |-> x, live |-> TRUE] \in Load BY DEF Load
    <3>2. /\ Len(loads') = Len(loads) + 1
          /\ \A j \in 1 .. Len(loads) : loads'[j] = Gone(loads)[j]
          /\ loads'[Len(loads) + 1] = [company |-> x, live |-> TRUE]
      BY <1>0, <2>1, <3>1, GoneLoads, AppendProperties DEF Select
    <3>3. CASE i \in 1 .. Len(loads) BY <1>0, <3>2, <3>3, <2>4, GoneLoads
    <3>4. CASE i = Len(loads) + 1 BY <3>2, <3>4, <2>1 DEF Select
    <3>5. Len(loads) \in Nat BY <1>0, LenProperties
    <3>6. QED BY <3>2, <3>3, <3>4, <3>5
  <2>5. QED BY <2>2, <2>3, <2>4
<1>2. CASE Close
  <2>1. Len(loads') = Len(loads) /\ \A i \in 1 .. Len(loads') : ~loads'[i].live
    BY <1>0, <1>2, GoneLoads DEF Close
  <2>2. QED BY <1>2, <2>1 DEF Close
<1>3. CASE handleSaveDetails BY <1>3 DEF handleSaveDetails
<1>4. CASE SaveAnswered BY <1>4 DEF SaveAnswered, Typed, TypeOK, Row
<1>5. CASE SaveFails BY <1>5 DEF SaveFails, Typed, TypeOK, Row
<1>6. CASE \E i \in 1 .. Len(loads) : LoadAnswered(i) \/ LoadFails(i)
  <2>1. PICK i \in 1 .. Len(loads) : LoadAnswered(i) \/ LoadFails(i) BY <1>6
  <2>2. loads' = RemoveAt(loads, i) /\ UNCHANGED <<row, selected, saving>>
    BY <2>1 DEF LoadAnswered, LoadFails
  <2>3. \A k \in 1 .. Len(loads') : \E j \in 1 .. Len(loads) : loads'[k] = loads[j]
    BY <1>0, <2>2, WithoutOne
  <2>4. detail' # None => selected' # None /\ form' = selected'
    <3>1. CASE LoadAnswered(i)
      <4>1. CASE loads[i].live BY <2>2, <3>1, <4>1 DEF LoadAnswered, Loaded
      <4>2. CASE ~loads[i].live BY <2>2, <3>1, <4>2 DEF LoadAnswered, Loaded
      <4>3. QED BY <4>1, <4>2
    <3>2. CASE LoadFails(i) BY <2>2, <3>2 DEF LoadFails
    <3>3. QED BY <2>1, <3>1, <3>2
  <2>5. QED BY <2>2, <2>3, <2>4
<1>7. QED BY <1>1, <1>2, <1>3, <1>4, <1>5, <1>6 DEF Edit

LEMMA NextOwn == Typed /\ Own /\ [Next]_vars => Own'
<1> SUFFICES ASSUME Typed, Own, [Next]_vars PROVE Own' OBVIOUS
<1>1. CASE \E c \in Calls : Request(c) \/ Proceed(c)
  <2>1. PICK c \in Calls : Request(c) \/ Proceed(c) BY <1>1
  <2>2. UNCHANGED page
    BY <2>1 DEF Request, Proceed, uploadInternalLogo, deleteInternalLogo,
       handleSaveBranding, Start, Read, DeleteObject, PutObject, WriteRow, Break
  <2>3. \A x \in Companies : row'[x].details = row[x].details
    <3>1. CASE WriteRow(c)
      <4>1. call[c] # Idle BY <3>1 DEF WriteRow, Next_
      <4>2. row[call[c].company] \in Row BY <4>1, UnderWay DEF Typed, TypeOK
      <4>3. Written(c).details = row[call[c].company].details BY <4>2 DEF Written, Row
      <4>4. row' = [row EXCEPT ![call[c].company] = Written(c)] BY <3>1 DEF WriteRow
      <4>5. QED BY <4>3, <4>4 DEF Typed, TypeOK
    <3>2. CASE ~WriteRow(c)
      BY <2>1, <3>2 DEF Request, Proceed, uploadInternalLogo, deleteInternalLogo,
         handleSaveBranding, Start, Read, DeleteObject, PutObject, Break
    <3>3. QED BY <3>1, <3>2
  <2>4. QED BY <2>2, <2>3 DEF page, Own, DetailsAreOwn
<1>2. CASE \E x \in Companies : createCompany(x) \/ Seed(x)
  BY <1>2 DEF createCompany, Seed, page, Own, DetailsAreOwn
<1>3. CASE Edit BY <1>3, EditOwn
<1>4. CASE UNCHANGED vars BY <1>4 DEF vars, page, Own, DetailsAreOwn
<1>5. QED BY <1>1, <1>2, <1>3, <1>4 DEF Next

\* The types hold, only an upload puts an image, and the form is never another
\* company's where it can be saved.
THEOREM TypeCorrect == Spec => [](Typed /\ Own)
<1>1. Typed /\ Own /\ [Next]_vars => Typed' /\ Own' BY NextTyped, NextOwn
<1>2. Init => Typed /\ Own BY InitTyped, InitOwn
<1>3. QED BY <1>1, <1>2, PTL DEF Spec

\* No company is ever given the details of another.
THEOREM DetailsStayOwn == Spec => []DetailsAreOwn
<1>1. Typed /\ Own => DetailsAreOwn BY DEF Own
<1>2. QED BY <1>1, TypeCorrect, PTL

-----------------------------------------------------------------------------
(* Logos. *)

InBucket(x) == {k \in Kinds : <<x, k>> \in objects}
On(c, x) == call[c] # Idle /\ call[c].company = x
PassesBy(r) == r.what = "update" /\ r.url \in Addresses

\* What a request r knows of the images b in the bucket and of the path p in the row,
\* when it is alone and nothing has failed.
Consistent(r, b, p) ==
  /\ Head(r.left) = "read" => b \subseteq {p} \ {None}
  /\ Head(r.left) = "delete" => b \subseteq {p} \ {None} /\ r.seen = p
  /\ Head(r.left) = "put" => b \subseteq {r.kind}
  /\ Head(r.left) = "write" =>
       /\ r.what = "upload" => b = {r.kind}
       /\ PassesBy(r) => b = {p} \ {None}
       /\ r.what # "upload" /\ ~PassesBy(r) => b = {} /\ r.seen = p

LogoAt(x) ==
  /\ row[x].url # None => row[x].path = None /\ row[x].url \notin Addresses
  /\ faults = 0 /\ ~overlapped[x] =>
       /\ \A c, d \in Calls : On(c, x) /\ On(d, x) => c = d
       /\ (\A c \in Calls : ~On(c, x)) => InBucket(x) = {row[x].path} \ {None}
       /\ \A c \in Calls : On(c, x) => Consistent(call[c], InBucket(x), row[x].path)

\* The address of an uploaded logo is never sent, whence the request only writes.
AddressesPassBy ==
  \A c \in Calls : call[c] # Idle /\ PassesBy(call[c]) => call[c].left = <<"write">>

Logos == AddressesPassBy /\ \A x \in Companies : LogoAt(x)

\* A company that a step does not touch.
LEMMA Elsewhere ==
  ASSUME NEW x \in Companies, LogoAt(x),
         row'[x].path = row[x].path, row'[x].url = row[x].url,
         InBucket(x)' = InBucket(x), faults' = 0 => faults = 0,
         overlapped'[x] = overlapped[x],
         \A c \in Calls : call'[c] = call[c] \/ (~On(c, x) /\ ~On(c, x)')
  PROVE  LogoAt(x)'
<1>1. \A c \in Calls : On(c, x)' => On(c, x) /\ call'[c] = call[c] BY DEF On
<1>2. \A c \in Calls : On(c, x) => On(c, x)' BY DEF On
<1>3. (row[x].url # None => row[x].path = None /\ row[x].url \notin Addresses)' BY DEF LogoAt
<1>4. CASE ~(faults' = 0 /\ ~overlapped'[x]) BY <1>3, <1>4 DEF LogoAt
<1>5. CASE faults' = 0 /\ ~overlapped'[x]
  <2>1. faults = 0 /\ ~overlapped[x] BY <1>5
  <2>2. \A c, d \in Calls : On(c, x)' /\ On(d, x)' => c = d BY <1>1, <2>1 DEF LogoAt
  <2>3. (\A c \in Calls : ~On(c, x)') => InBucket(x)' = {row'[x].path} \ {None}
    BY <1>2, <2>1 DEF LogoAt
  <2>4. ASSUME NEW c \in Calls, On(c, x)'
        PROVE  Consistent(call'[c], InBucket(x)', row'[x].path)
    BY <1>1, <2>1, <2>4 DEF LogoAt
  <2>5. QED BY <1>3, <2>2, <2>3, <2>4 DEF LogoAt
<1>6. QED BY <1>4, <1>5

\* A request on x, alone, becomes r.
LEMMA Alone ==
  ASSUME NEW x \in Companies, LogoAt(x), NEW c \in Calls, On(c, x),
         NEW r, r # Idle, r.company = x, call \in [Calls -> Call],
         call' = [call EXCEPT ![c] = r],
         row' = row, overlapped' = overlapped, faults' = faults,
         Consistent(call[c], InBucket(x), row[x].path) => Consistent(r, InBucket(x)', row[x].path)
  PROVE  LogoAt(x)'
<1>1. \A d \in Calls : d # c => call'[d] = call[d] OBVIOUS
<1>2. call'[c] = r OBVIOUS
<1>3. (row[x].url # None => row[x].path = None /\ row[x].url \notin Addresses)' BY DEF LogoAt
<1>4. CASE ~(faults' = 0 /\ ~overlapped'[x]) BY <1>3, <1>4 DEF LogoAt
<1>5. CASE faults' = 0 /\ ~overlapped'[x]
  <2>1. faults = 0 /\ ~overlapped[x] BY <1>5
  <2>2. \A d \in Calls : On(d, x)' <=> On(d, x) BY <1>1, <1>2 DEF On
  <2>3. \A d \in Calls : On(d, x) => d = c BY <2>1 DEF LogoAt
  <2>4. Consistent(r, InBucket(x)', row[x].path) BY <2>1 DEF LogoAt
  <2>5. \A d \in Calls : On(d, x)' => Consistent(call'[d], InBucket(x)', row'[x].path)
    BY <1>2, <2>2, <2>3, <2>4
  <2>6. \A d, e \in Calls : On(d, x)' /\ On(e, x)' => d = e BY <2>2, <2>3
  <2>7. On(c, x)' BY <2>2
  <2>8. QED BY <1>3, <2>5, <2>6, <2>7 DEF LogoAt
<1>6. QED BY <1>4, <1>5

\* What comes after a step.
LEMMA Following ==
  ASSUME Typed, NEW c \in Calls, call[c] # Idle
  PROVE  LET l == call[c].left IN
         /\ call[c].what = "upload" /\ Head(l) \in {"read", "delete"} => Head(Tail(l)) = "put"
         /\ call[c].what # "upload" /\ Head(l) \in {"read", "delete"} =>
              Head(Tail(l)) \in {"read", "write"}
         /\ call[c].what # "upload" => Head(l) # "put"
         /\ Head(l) = "put" => Head(Tail(l)) = "write"
<1> DEFINE l == call[c].left
<1>1. CASE call[c].what = "upload"
  <2>1. l \in UploadSteps BY <1>1, UnderWay DEF Fine, StepsOf
  <2> HIDE DEF l
  <2>2. Head(l) \in {"read", "delete"} => Head(Tail(l)) = "put" BY <2>1 DEF UploadSteps
  <2>3. Head(l) = "put" => Head(Tail(l)) = "write" BY <2>1 DEF UploadSteps
  <2>4. QED BY <1>1, <2>2, <2>3 DEF l
<1>2. CASE call[c].what # "upload"
  <2>1. l \in ChangeSteps BY <1>2, UnderWay DEF Fine, StepsOf
  <2> HIDE DEF l
  <2>2. Head(l) \in {"read", "delete"} => Head(Tail(l)) \in {"read", "write"}
    BY <2>1 DEF ChangeSteps
  <2>3. Head(l) # "put" BY <2>1 DEF ChangeSteps
  <2>4. QED BY <1>2, <2>2, <2>3 DEF l
<1>3. QED BY <1>1, <1>2

\* A request that goes on.
LEMMA Advance ==
  ASSUME Typed, Logos, NEW c \in Calls, call[c] # Idle,
         NEW x \in Companies, x = call[c].company, call[c].left # <<"write">>,
         NEW seen, NEW left, NEW e, Becomes(e, call[c], seen, left),
         call' = [call EXCEPT ![c] = e],
         row' = row, overlapped' = overlapped, faults' = faults,
         \A y \in Companies : y # x => InBucket(y)' = InBucket(y),
         Consistent(call[c], InBucket(x), row[x].path) => Consistent(e, InBucket(x)', row[x].path)
  PROVE  Logos'
<1>1. e # Idle /\ e.company = x /\ e.what = call[c].what /\ e.url = call[c].url BY DEF Becomes
<1>2. call'[c] = e /\ \A d \in Calls : d # c => call'[d] = call[d] BY DEF Typed, TypeOK
<1>3. ASSUME NEW y \in Companies PROVE LogoAt(y)'
  <2>1. CASE y = x
    <3>1. On(c, x) BY DEF On
    <3>2. LogoAt(x) /\ call \in [Calls -> Call] BY DEF Logos, Typed, TypeOK
    <3>3. LogoAt(x)' BY <1>1, <3>1, <3>2, Alone
    <3>4. QED BY <2>1, <3>3
  <2>2. CASE y # x
    <3>1. \A d \in Calls : call'[d] = call[d] \/ (~On(d, y) /\ ~On(d, y)')
      <4>1. TAKE d \in Calls
      <4>2. CASE d = c BY <4>2, <2>2, <1>1, <1>2 DEF On
      <4>3. CASE d # c BY <4>3, <1>2
      <4>4. QED BY <4>2, <4>3
    <3>2. InBucket(y)' = InBucket(y) BY <2>2
    <3>3. QED BY <3>1, <3>2, Elsewhere DEF Logos
  <2>3. QED BY <2>1, <2>2
<1>4. ~PassesBy(call[c]) BY DEF Logos, AddressesPassBy
<1>5. AddressesPassBy' BY <1>1, <1>2, <1>4 DEF Logos, AddressesPassBy, PassesBy
<1>6. QED BY <1>3, <1>5 DEF Logos

\* After a failure nothing is promised of the bucket.
LEMMA Failed ==
  ASSUME Typed, Logos, Fault, row' = row, AddressesPassBy'
  PROVE  Logos'
<1>1. faults' # 0 BY DEF Fault, Typed, TypeOK
<1>2. QED BY <1>1 DEF Logos, LogoAt

LEMMA ReadLogos ==
  ASSUME Typed, Logos, NEW c \in Calls, Read(c)
  PROVE  Logos'
<1> DEFINE r == call[c]
<1>1. call[c] # Idle /\ Head(call[c].left) = "read" BY DEF Read, Next_
<1>2. PICK x \in Companies : x = call[c].company BY <1>1, UnderWay
<1> DEFINE path == row[x].path
           left == (IF Obsolete(c, path) THEN <<"delete">> ELSE <<>>) \o Tail(call[c].left)
           e == [call[c] EXCEPT !.seen = path, !.left = left]
<1>3. path \in Kinds \cup {None}
  <2>1. row[x] \in Row BY <1>2 DEF Typed, TypeOK
  <2>2. QED BY <2>1 DEF Row
<1>4. /\ left \in StepsOf(call[c].what)
      /\ Obsolete(c, path) => Head(left) = "delete"
      /\ ~Obsolete(c, path) => left = Tail(call[c].left)
  <2>1. /\ <<>> \o Tail(call[c].left) \in StepsOf(call[c].what)
        /\ <<>> \o Tail(call[c].left) = Tail(call[c].left)
        /\ <<"delete">> \o Tail(call[c].left) \in StepsOf(call[c].what)
        /\ Head(<<"delete">> \o Tail(call[c].left)) = "delete"
    BY <1>1, Step
  <2>2. CASE Obsolete(c, path) BY <2>1, <2>2
  <2>3. CASE ~Obsolete(c, path) BY <2>1, <2>3
  <2>4. QED BY <2>2, <2>3
<1>5. call' = [call EXCEPT ![c] = e] BY <1>2 DEF Read, Typed, TypeOK
<1>6. Obsolete(c, path) <=> path # None /\ path # r.kind BY DEF Obsolete
<1>7. /\ r.what = "upload" => Head(Tail(r.left)) = "put"
      /\ r.what # "upload" => Head(Tail(r.left)) \in {"read", "write"} /\ r.kind = None
  BY <1>1, Following, UnderWay DEF Fine
<1>8. ~PassesBy(r)
  <2>1. r.left # <<"write">> BY <1>1
  <2>2. QED BY <1>1, <2>1 DEF Logos, AddressesPassBy
<1> HIDE DEF left, e, path
<1>9. /\ e # Idle /\ e.seen = path /\ e.left = left /\ e.what = r.what
      /\ e.company = x /\ e.kind = r.kind /\ e.url = r.url
  <2>1. e = [call[c] EXCEPT !.seen = path, !.left = left] BY DEF e
  <2>2. left \in StepsOf(call[c].what) BY <1>4
  <2> HIDE DEF r
  <2>3. Becomes(e, call[c], path, left) BY <1>1, <1>3, <2>1, <2>2, Updated
  <2>4. QED BY <2>3, <1>2 DEF r, Becomes
<1>10. ~PassesBy(e) BY <1>8, <1>9 DEF PassesBy
<1>12. Consistent(r, InBucket(x), path) => Consistent(e, InBucket(x), path)
  <2>1. SUFFICES ASSUME Consistent(r, InBucket(x), path) PROVE Consistent(e, InBucket(x), path)
    OBVIOUS
  <2>2. InBucket(x) \subseteq {path} \ {None} BY <1>1, <2>1 DEF Consistent
  <2>3. CASE Obsolete(c, path) BY <2>2, <2>3, <1>4, <1>9 DEF Consistent
  <2>4. CASE ~Obsolete(c, path) /\ r.what = "upload"
    <3>1. Head(e.left) = "put" BY <2>4, <1>4, <1>7, <1>9
    <3>2. InBucket(x) \subseteq {e.kind} BY <2>2, <2>4, <1>6, <1>9
    <3>3. QED BY <3>1, <3>2 DEF Consistent
  <2>5. CASE ~Obsolete(c, path) /\ r.what # "upload"
    <3>1. Head(e.left) \in {"read", "write"} BY <2>5, <1>4, <1>7, <1>9
    <3>2. InBucket(x) = {} BY <2>2, <2>5, <1>6, <1>7
    <3>3. QED BY <3>1, <3>2, <2>5, <1>9, <1>10 DEF Consistent
  <2>6. QED BY <2>3, <2>4, <2>5
<1>13. call[c].left # <<"write">> BY <1>1
<1>14. Becomes(e, call[c], path, left) BY <1>1, <1>3, <1>4, Updated DEF e
<1>15. \A y \in Companies : InBucket(y)' = InBucket(y) BY DEF Read, InBucket
<1>16. Consistent(call[c], InBucket(x), row[x].path) => Consistent(e, InBucket(x)', row[x].path)
  BY <1>12, <1>15 DEF path
<1>17. row' = row /\ overlapped' = overlapped /\ faults' = faults BY DEF Read
<1>18. QED BY <1>1, <1>2, <1>5, <1>13, <1>14, <1>15, <1>16, <1>17, Advance

LEMMA DeleteLogos ==
  ASSUME Typed, Logos, NEW c \in Calls, DeleteObject(c)
  PROVE  Logos'
<1> DEFINE r == call[c]
           left == Tail(call[c].left)
           e == [call[c] EXCEPT !.seen = call[c].seen, !.left = left]
<1>1. call[c] # Idle /\ Head(call[c].left) = "delete" BY DEF DeleteObject, Next_
<1>2. PICK x \in Companies : x = call[c].company BY <1>1, UnderWay
<1>3. left \in StepsOf(call[c].what) BY <1>1, Step
<1>4. call[c].seen \in Kinds \cup {None} BY <1>1, UnderWay
<1>5. call' = [call EXCEPT ![c] = e] BY <1>1, SameSeen DEF DeleteObject
<1>6. call[c].left # <<"write">> BY <1>1
<1>7. ~PassesBy(r) BY <1>1, <1>6 DEF Logos, AddressesPassBy
<1>8. /\ r.what = "upload" => Head(left) = "put"
      /\ r.what # "upload" => Head(left) \in {"read", "write"}
  BY <1>1, Following
<1> HIDE DEF left, e
<1>9. Becomes(e, call[c], call[c].seen, left) BY <1>1, <1>3, <1>4, Updated DEF e
<1>10. row' = row /\ overlapped' = overlapped BY DEF DeleteObject
<1>11. CASE Fault
  <2>1. call' = [call EXCEPT ![c] = e] /\ call[c] # Idle /\ e # Idle /\ PassesBy(e) = PassesBy(r)
    BY <1>1, <1>5, <1>9 DEF Becomes, PassesBy
  <2>2. AddressesPassBy' BY <1>7, <2>1 DEF Logos, AddressesPassBy, Typed, TypeOK
  <2>3. QED BY <1>10, <1>11, <2>2, Failed
<1>12. CASE objects' = objects \ {<<call[c].company, call[c].seen>>} /\ UNCHANGED faults
  <2>1. \A y \in Companies : y # x => InBucket(y)' = InBucket(y) BY <1>2, <1>12 DEF InBucket
  <2>2. InBucket(x)' = InBucket(x) \ {call[c].seen} BY <1>2, <1>12 DEF InBucket
  <2>3. Consistent(call[c], InBucket(x), row[x].path) => Consistent(e, InBucket(x)', row[x].path)
    <3>1. HAVE Consistent(call[c], InBucket(x), row[x].path)
    <3>2. InBucket(x)' = {} /\ r.seen = row[x].path BY <1>1, <2>2, <3>1 DEF Consistent
    <3>3. ~PassesBy(e) BY <1>7, <1>9 DEF PassesBy, Becomes
    <3>4. Head(e.left) \in {"put", "read", "write"} /\ (e.what = "upload" => Head(e.left) = "put")
      BY <1>8, <1>9 DEF Becomes
    <3>5. e.seen = r.seen BY <1>9 DEF Becomes
    <3>6. QED BY <3>2, <3>3, <3>4, <3>5 DEF Consistent
  <2>4. QED BY <1>1, <1>2, <1>5, <1>6, <1>9, <1>10, <1>12, <2>1, <2>3, Advance
<1>13. QED BY <1>11, <1>12 DEF DeleteObject

LEMMA PutLogos ==
  ASSUME Typed, Logos, NEW c \in Calls, PutObject(c)
  PROVE  Logos'
<1> DEFINE left == Tail(call[c].left)
           e == [call[c] EXCEPT !.seen = call[c].seen, !.left = left]
<1>1. call[c] # Idle /\ Head(call[c].left) = "put" BY DEF PutObject, Next_
<1>2. PICK x \in Companies : x = call[c].company BY <1>1, UnderWay
<1>3. left \in StepsOf(call[c].what) /\ call[c].what = "upload" /\ Head(left) = "write"
  BY <1>1, Step, Following
<1>4. call[c].seen \in Kinds \cup {None} /\ call[c].kind \in Kinds
  BY <1>1, <1>3, UnderWay DEF Fine
<1>5. call' = [call EXCEPT ![c] = e] BY <1>1, SameSeen DEF PutObject
<1>6. call[c].left # <<"write">> BY <1>1
<1> HIDE DEF left, e
<1>7. Becomes(e, call[c], call[c].seen, left) BY <1>1, <1>3, <1>4, Updated DEF e
<1>8. row' = row /\ overlapped' = overlapped /\ faults' = faults
      /\ objects' = objects \cup {<<call[c].company, call[c].kind>>}
  BY DEF PutObject
<1>9. \A y \in Companies : y # x => InBucket(y)' = InBucket(y) BY <1>2, <1>8 DEF InBucket
<1>10. InBucket(x)' = InBucket(x) \cup {call[c].kind} BY <1>2, <1>4, <1>8 DEF InBucket
<1>11. Consistent(call[c], InBucket(x), row[x].path) => Consistent(e, InBucket(x)', row[x].path)
  <2>1. HAVE Consistent(call[c], InBucket(x), row[x].path)
  <2>2. InBucket(x)' = {e.kind} BY <1>1, <1>7, <1>10, <2>1 DEF Consistent, Becomes
  <2>3. Head(e.left) = "write" /\ e.what = "upload" BY <1>3, <1>7 DEF Becomes
  <2>4. QED BY <2>2, <2>3 DEF Consistent, PassesBy
<1>12. QED BY <1>1, <1>2, <1>5, <1>6, <1>7, <1>8, <1>9, <1>11, Advance

\* A request begins.
LEMMA StartLogos ==
  ASSUME Typed, Logos, NEW c \in Calls, NEW x \in Companies,
         NEW what \in {"upload", "remove", "update"}, NEW kind, NEW url, NEW steps,
         what = "update" /\ url \in Addresses =>  steps = <<"write">>,
         ~(what = "update" /\ url \in Addresses) => Head(steps) = "read",
         Head(<<"write">>) = "write",
         Start(c, x, what, kind, url, steps)
  PROVE  Logos'
<1> DEFINE e == [what |-> what, company |-> x, kind |-> kind, url |-> url,
                 seen |-> None, left |-> steps]
<1>1. call[c] = Idle /\ call' = [call EXCEPT ![c] = e] BY DEF Start
<1>2. /\ e # Idle /\ e.what = what /\ e.company = x /\ e.url = url /\ e.left = steps
      /\ PassesBy(e) = (what = "update" /\ url \in Addresses)
  BY DEF Idle, PassesBy
<1> HIDE DEF e
<1>3. call'[c] = e /\ \A d \in Calls : d # c => call'[d] = call[d] BY <1>1 DEF Typed, TypeOK
<1>4. row' = row /\ objects' = objects /\ faults' = faults BY DEF Start
<1>5. \A y \in Companies : InBucket(y)' = InBucket(y) BY <1>4 DEF InBucket
<1>6. overlapped' = [overlapped EXCEPT ![x] = overlapped[x] \/ Busy(x)] BY DEF Start
<1>7. AddressesPassBy' BY <1>2, <1>3 DEF Logos, AddressesPassBy
<1>8. ASSUME NEW y \in Companies, y # x PROVE LogoAt(y)'
  <2>1. \A d \in Calls : call'[d] = call[d] \/ (~On(d, y) /\ ~On(d, y)')
    <3>1. TAKE d \in Calls
    <3>2. CASE d = c BY <3>2, <1>8, <1>1, <1>2, <1>3 DEF On
    <3>3. CASE d # c BY <3>3, <1>3
    <3>4. QED BY <3>2, <3>3
  <2>2. overlapped'[y] = overlapped[y] BY <1>6, <1>8 DEF Typed, TypeOK
  <2>3. QED BY <1>4, <1>5, <2>1, <2>2, Elsewhere DEF Logos
<1>9. LogoAt(x)'
  <2>1. (row[x].url # None => row[x].path = None /\ row[x].url \notin Addresses)'
    BY <1>4 DEF Logos, LogoAt
  <2>2. CASE overlapped[x] \/ Busy(x)
    <3>1. overlapped'[x] BY <1>6, <2>2 DEF Typed, TypeOK
    <3>2. QED BY <2>1, <3>1 DEF LogoAt
  <2>3. CASE ~(overlapped[x] \/ Busy(x))
    <3>1. \A d \in Calls : ~On(d, x) BY <2>3 DEF Busy, On
    <3>2. \A d \in Calls : On(d, x)' <=> d = c BY <1>1, <1>2, <1>3, <3>1 DEF On
    <3>3. faults = 0 => InBucket(x) = {row[x].path} \ {None} BY <2>3, <3>1 DEF Logos, LogoAt
    <3>4. faults = 0 => Consistent(e, InBucket(x), row[x].path)
      <4>1. CASE PassesBy(e) BY <1>2, <3>3, <4>1 DEF Consistent
      <4>2. CASE ~PassesBy(e) BY <1>2, <3>3, <4>2 DEF Consistent
      <4>3. QED BY <4>1, <4>2
    <3>5. QED BY <1>3, <1>4, <1>5, <2>1, <3>2, <3>4 DEF LogoAt
  <2>4. QED BY <2>2, <2>3
<1>10. QED BY <1>7, <1>8, <1>9 DEF Logos

LEMMA RequestLogos ==
  ASSUME Typed, Logos, NEW c \in Calls, Request(c)
  PROVE  Logos'
<1>1. Head(<<"write">>) = "write" /\ Head(<<"read", "write">>) = "read"
      /\ Head(<<"read", "put", "write">>) = "read" /\ Head(<<"read", "read", "write">>) = "read"
  OBVIOUS
<1>2. PICK x \in Companies :
        \/ \E kind \in Kinds : uploadInternalLogo(c, x, kind)
        \/ deleteInternalLogo(c, x)
        \/ \E field \in Urls \cup Addresses \cup {None} : handleSaveBranding(c, x, field)
  BY DEF Request
<1>3. CASE \E kind \in Kinds : uploadInternalLogo(c, x, kind)
  BY <1>1, <1>3, StartLogos DEF uploadInternalLogo
<1>4. CASE deleteInternalLogo(c, x)
  BY <1>1, <1>4, StartLogos DEF deleteInternalLogo
<1>5. CASE \E field \in Urls \cup Addresses \cup {None} : handleSaveBranding(c, x, field)
  <2>1. PICK field \in Urls \cup Addresses \cup {None} :
          Start(c, x, "update", None, field, Sent(field))
    BY <1>5 DEF handleSaveBranding
  <2>2. field \in Addresses => Sent(field) = <<"write">> BY DEF Sent
  <2>3. field \notin Addresses => Head(Sent(field)) = "read" BY <1>1 DEF Sent
  <2>4. QED BY <1>1, <2>1, <2>2, <2>3, StartLogos
<1>6. QED BY <1>2, <1>3, <1>4, <1>5

\* The row is written, and the request ends.
LEMMA WriteLogos ==
  ASSUME Typed, Logos, NEW c \in Calls, WriteRow(c)
  PROVE  Logos'
<1> DEFINE r == call[c]
<1>1. r # Idle /\ Head(r.left) = "write" BY DEF WriteRow, Next_
<1>2. PICK x \in Companies : x = r.company BY <1>1, UnderWay
<1>3. call' = [call EXCEPT ![c] = Idle] /\ row' = [row EXCEPT ![x] = Written(c)]
  BY <1>2 DEF WriteRow
<1>4. objects' = objects /\ faults' = faults /\ overlapped' = overlapped BY DEF WriteRow
<1>5. call'[c] = Idle /\ \A d \in Calls : d # c => call'[d] = call[d]
  BY <1>3 DEF Typed, TypeOK
<1>6. row'[x] = Written(c) /\ \A y \in Companies : y # x => row'[y] = row[y]
  BY <1>3 DEF Typed, TypeOK
<1>7. row[x] \in Row BY DEF Typed, TypeOK
<1>8. \A y \in Companies : InBucket(y)' = InBucket(y) BY <1>4 DEF InBucket
<1>9. AddressesPassBy' BY <1>5 DEF Logos, AddressesPassBy
<1>10. ASSUME NEW y \in Companies, y # x PROVE LogoAt(y)'
  <2>1. \A d \in Calls : call'[d] = call[d] \/ (~On(d, y) /\ ~On(d, y)')
    <3>1. TAKE d \in Calls
    <3>2. CASE d = c BY <3>2, <1>2, <1>5, <1>10 DEF On
    <3>3. CASE d # c BY <3>3, <1>5
    <3>4. QED BY <3>2, <3>3
  <2>2. QED BY <1>4, <1>6, <1>8, <1>10, <2>1, Elsewhere DEF Logos
<1>11. /\ r.what \in {"upload", "remove", "update"}
       /\ r.what = "upload" => r.kind \in Kinds
       /\ r.url \in Urls \cup Addresses \cup {None}
  BY <1>1, UnderWay DEF Fine
<1>12. /\ row[x].url # None => row[x].path = None /\ row[x].url \notin Addresses
  BY DEF Logos, LogoAt
<1>13. Sent(r.url) = <<"write">> <=> r.url \in Addresses
  <2>1. <<"read", "write">> # <<"write">> /\ <<"read", "read", "write">> # <<"write">> OBVIOUS
  <2>2. QED BY <2>1 DEF Sent
<1>14. /\ r.what = "upload" => row'[x].url = None /\ row'[x].path = r.kind
       /\ r.what = "remove" => row'[x].url = None /\ row'[x].path = None
       /\ PassesBy(r) => row'[x] = row[x]
       /\ r.what = "update" /\ ~PassesBy(r) =>
            /\ row'[x].url = r.url
            /\ row'[x].path = IF r.url # None \/ r.seen # None THEN None ELSE row[x].path
  BY <1>2, <1>6, <1>7, <1>11, <1>13 DEF Written, Row, PassesBy
<1>15. row'[x].url # None => row'[x].path = None /\ row'[x].url \notin Addresses
  BY <1>11, <1>12, <1>14 DEF PassesBy
<1>16. LogoAt(x)'
  <2>1. CASE ~(faults = 0 /\ ~overlapped[x]) BY <1>4, <1>15, <2>1 DEF LogoAt
  <2>2. CASE faults = 0 /\ ~overlapped[x]
    <3>1. On(c, x) BY <1>1, <1>2 DEF On
    <3>2. \A d \in Calls : On(d, x) => d = c BY <2>2, <3>1 DEF Logos, LogoAt
    <3>3. \A d \in Calls : ~On(d, x)' BY <1>5, <3>2 DEF On
    <3>4. Consistent(r, InBucket(x), row[x].path) BY <2>2, <3>1 DEF Logos, LogoAt
    <3>5. InBucket(x) = {row'[x].path} \ {None}
      <4>1. CASE r.what = "upload"
        BY <1>1, <1>11, <1>14, <3>4, <4>1, NoneAssumption DEF Consistent
      <4>2. CASE PassesBy(r) BY <1>1, <1>14, <3>4, <4>2 DEF Consistent
      <4>3. CASE r.what # "upload" /\ ~PassesBy(r)
        <5>1. InBucket(x) = {} /\ r.seen = row[x].path BY <1>1, <3>4, <4>3 DEF Consistent
        <5>2. row'[x].path = None BY <1>11, <1>14, <4>3, <5>1
        <5>3. QED BY <5>1, <5>2
      <4>4. QED BY <4>1, <4>2, <4>3
    <3>6. QED BY <1>8, <1>15, <3>3, <3>5 DEF LogoAt
  <2>3. QED BY <2>1, <2>2
<1>17. QED BY <1>9, <1>10, <1>16 DEF Logos

\* What is done on the page does not touch the logos.
LEMMA PageLogos ==
  ASSUME Typed, Logos, call' = call, objects' = objects,
         overlapped' = overlapped, faults' = 0 => faults = 0,
         \A x \in Companies : row'[x].url = row[x].url /\ row'[x].path = row[x].path
  PROVE  Logos'
<1>1. \A y \in Companies : InBucket(y)' = InBucket(y) BY DEF InBucket
<1>2. \A y \in Companies : LogoAt(y)' BY <1>1, Elsewhere DEF Logos
<1>3. AddressesPassBy' BY DEF Logos, AddressesPassBy
<1>4. QED BY <1>2, <1>3 DEF Logos

LEMMA InitLogos == Init => Logos
<1> SUFFICES ASSUME Init PROVE Logos OBVIOUS
<1>1. AddressesPassBy BY DEF Init, AddressesPassBy
<1>2. ASSUME NEW x \in Companies PROVE LogoAt(x)
  <2>1. row[x].url = None /\ row[x].path = None BY DEF Init
  <2>2. InBucket(x) = {} BY DEF Init, InBucket
  <2>3. \A c \in Calls : ~On(c, x) BY DEF Init, On
  <2>4. QED BY <2>1, <2>2, <2>3 DEF LogoAt
<1>3. QED BY <1>1, <1>2 DEF Logos

LEMMA EditLogos ==
  ASSUME Typed, Logos, Edit
  PROVE  Logos'
<1>1. CASE (\E x \in Companies : Select(x)) \/ Close \/ handleSaveDetails
  BY <1>1, PageLogos DEF Select, Close, handleSaveDetails, logos
<1>2. CASE SaveAnswered \/ SaveFails
  <2>1. saving \in [to : Companies, body : Companies]
    BY <1>2 DEF SaveAnswered, SaveFails, Typed, TypeOK
  <2>2. row' \in {row, [row EXCEPT ![saving.to].details = saving.body]}
    BY <1>2 DEF SaveAnswered, SaveFails
  <2>3. \A x \in Companies : row'[x].url = row[x].url /\ row'[x].path = row[x].path
    BY <2>1, <2>2 DEF Typed, TypeOK, Row
  <2>4. faults' = 0 => faults = 0
    BY <1>2 DEF SaveAnswered, SaveFails, Fault, Typed, TypeOK
  <2>5. QED BY <1>2, <2>3, <2>4, PageLogos DEF SaveAnswered, SaveFails, logos
<1>3. CASE \E i \in 1 .. Len(loads) : LoadAnswered(i) \/ LoadFails(i)
  <2>1. faults' = 0 => faults = 0
    BY <1>3 DEF LoadAnswered, LoadFails, Fault, Typed, TypeOK
  <2>2. QED BY <1>3, <2>1, PageLogos DEF LoadAnswered, LoadFails, logos
<1>4. QED BY <1>1, <1>2, <1>3 DEF Edit

LEMMA NextLogos == Typed /\ Logos /\ [Next]_vars => Logos'
<1> SUFFICES ASSUME Typed, Logos, [Next]_vars PROVE Logos' OBVIOUS
<1>1. ASSUME NEW c \in Calls, Break(c) PROVE Logos'
  <2>1. AddressesPassBy' BY <1>1 DEF Break, Logos, AddressesPassBy, Typed, TypeOK
  <2>2. QED BY <1>1, <2>1, Failed DEF Break
<1>2. CASE \E c \in Calls : Request(c) \/ Proceed(c)
  BY <1>1, <1>2, RequestLogos, ReadLogos, DeleteLogos, PutLogos, WriteLogos DEF Proceed
<1>3. CASE \E x \in Companies : createCompany(x) \/ Seed(x)
  BY <1>3, PageLogos DEF createCompany, Seed, logos
<1>4. CASE Edit BY <1>4, EditLogos
<1>5. CASE UNCHANGED vars BY <1>5, PageLogos DEF vars, logos
<1>6. QED BY <1>2, <1>3, <1>4, <1>5 DEF Next

\* Requests on the logo of a company that come one after the other and do not fail
\* leave the uploaded logo in the bucket, and nothing else of the company.
THEOREM LogosAreServable == Spec => []LogoIsServable
<1>1. Typed /\ Own /\ Logos /\ [Next]_vars => Typed' /\ Own' /\ Logos'
  BY NextTyped, NextOwn, NextLogos
<1>2. Init => Typed /\ Own /\ Logos BY InitTyped, InitOwn, InitLogos
<1>3. Logos => LogoIsServable
  <2>1. \A x \in Companies : ~Busy(x) => \A c \in Calls : ~On(c, x) BY DEF Busy, On
  <2>2. QED BY <2>1 DEF Logos, LogoAt, LogoIsServable, InBucket
<1>4. QED BY <1>1, <1>2, <1>3, PTL DEF Spec

=============================================================================
