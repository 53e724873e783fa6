------------------------ MODULE SpecificationProofs ------------------------
(***************************************************************************)
(* Theorems about Specification, for any editors, documents and bounds.    *)
(***************************************************************************)
EXTENDS Specification, TLAPS

Names == {None, "create", "save", "submit", "return", "approve", "analyse", "apply"}

(* Where an operation that has written its artifact is.                    *)
Holding == {"check", "commit"}
Making == {"write"} \cup Holding

Ops == [name : Names, at : Places, v : {0} \cup Versions, doc : Docs \cup {None},
        choice : {None, "blocking"}]

(* What an operation o knows, from its earlier steps, of the row r, the    *)
(* versions vs, the files fs, the choices cs and what has been submitted.  *)
Named(o) ==
  /\ o.at = "end" <=> o.name = None
  /\ o.at \in {"may return", "return"} => o.name \in {"save", "return"}
  /\ o.at = "read" => o.name \in {"save", "apply"}
  /\ o.at \in Making => o.name \in {"create", "save", "apply"}
  /\ o.name = "create" => o.at \in Making /\ o.v = 1
  /\ o.name = "save" => o.at \in Making \cup {"may return", "return", "read"}
  /\ o.name = "apply" => o.at \in Making \cup {"read"}
  /\ o.name \in {"create", "save", "apply"} \/ o.at = "dialog" => o.doc \in Docs
  /\ o.at \in {"ask", "provider", "dialog"} => o.name = "analyse"
  /\ o.choice # None => o.at \in {"dialog", "read"} \cup Making /\ o.name \in {"analyse", "apply"}
  /\ o.at \in Making => o.v # 0 /\ (o.v = 1 => o.choice = None)

Knows(o, r) ==
  /\ o.name = "create" => r.status = None
  /\ o.name \notin {None, "create"} => r.status # None
  /\ o.at \in {"return", "submit", "recheck", "approve", "ask", "provider", "dialog"}
       => o.v # 0 /\ o.v <= r.current
  /\ o.at = "read" /\ o.name = "apply" => o.v # 0 /\ o.v <= r.current
  /\ o.at = "commit" => o.v = r.current + 1

HasWritten(o, vs, fs) ==
  o.at \in Holding => vs[o.v].doc = None /\ fs[o.v] = o.doc

Approves(o, vs, cs, sub) ==
  /\ o.at \in {"recheck", "approve"} => o.v \in sub /\ vs[o.v].doc \in Complete
  /\ o.at = "approve" => \A source \in cs : source >= o.v

OpInv ==
  \A e \in Editors :
    /\ Named(op[e]) /\ Knows(op[e], row)
    /\ HasWritten(op[e], versions, files)
    /\ Approves(op[e], versions, choices, submitted)

(* One editor at most creates the specification, and an artifact is held   *)
(* by one editor at most: so no other can become current before it.        *)
Alone ==
  \A e, f \in Editors : e # f =>
    /\ ~(op[e].name = "create" /\ op[f].name = "create")
    /\ op[e].at \in Holding /\ op[f].at \in Holding => op[e].v # op[f].v

RowInv ==
  /\ row.status = None <=> row.current = 0
  /\ row.status = "review" => row.current \in submitted

EditorInv ==
  \A e \in Editors :
    /\ editor[e].status = "new" <=> editor[e].seen = 0
    /\ editor[e].seen <= row.current

StoreInv == RowInv /\ VersionsFollow /\ ArtifactsKept /\ ApprovedIsReviewed

Inv == TypeOK /\ StoreInv /\ EditorInv /\ OpInv /\ Alone

-----------------------------------------------------------------------------
(* An operation that has ended knows nothing.                              *)
LEMMA IdleKnows ==
  /\ Idle \in Ops /\ Named(Idle) /\ Idle.name = None /\ Idle.at = "end" /\ Idle.v = 0
  /\ \A r : Knows(Idle, r)
  /\ \A vs, fs : HasWritten(Idle, vs, fs)
  /\ \A vs, cs, sub : Approves(Idle, vs, cs, sub)
<1>1. Idle.name = "none" /\ Idle.at = "end" /\ Idle.v = 0
  BY DEF Idle, None
<1>2. Idle.choice = "none"
  BY DEF Idle, None
<1>3. Idle \in Ops
  BY SpecificationAssumption DEF Idle, Ops, Names, Places
<1>4. Named(Idle)
  BY <1>1, <1>2 DEF Named, Making, Holding, None
<1>5. \A r : Knows(Idle, r)
  BY <1>1 DEF Knows, None
<1>6. \A vs, fs : HasWritten(Idle, vs, fs)
  BY <1>1 DEF HasWritten, Holding
<1>7. \A vs, cs, sub : Approves(Idle, vs, cs, sub)
  BY <1>1 DEF Approves
<1>8. QED BY <1>1, <1>3, <1>4, <1>5, <1>6, <1>7 DEF None

LEMMA InitInv == Init => Inv
<1> SUFFICES ASSUME Init PROVE Inv
  OBVIOUS
<1> USE SpecificationAssumption
<1>1. (CHOOSE d \in Docs : TRUE) \in Docs
  OBVIOUS
<1>2. TypeOK
  BY <1>1 DEF Init, TypeOK, NewEditor, Idle, Absent, Versions, Places, None, Row
<1>3. StoreInv
  BY DEF Init, StoreInv, RowInv, VersionsFollow, ArtifactsKept, ApprovedIsReviewed, Written,
         Absent, Versions, None
<1>4. EditorInv
  BY DEF Init, EditorInv, NewEditor
<1>5. OpInv
  BY IdleKnows DEF Init, OpInv
<1>6. Alone
  BY IdleKnows DEF Init, Alone, None, Holding
<1>7. QED BY <1>2, <1>3, <1>4, <1>5, <1>6 DEF Inv

-----------------------------------------------------------------------------
(* One step of one operation, from op[e] to o.  The others keep what they   *)
(* know if the row moves on only when nobody else is about to commit, and   *)
(* if nobody touches the artifact another operation holds.                 *)
Moves(e, o) ==
  /\ op' = [op EXCEPT ![e] = o]
  /\ Named(o) /\ Knows(o, row')
  /\ HasWritten(o, versions', files')
  /\ Approves(o, versions', choices', submitted')
  /\ o.name = "create" => \A f \in Editors \ {e} : op[f].name # "create"
  /\ o.at \in Holding =>
       \A f \in Editors \ {e} : op[f].at \in Holding => op[f].v # o.v

Undisturbed(e) ==
  /\ row' = row \/ (row'.status # None /\ \A f \in Editors \ {e} : op[f].name # "create")
  /\ row'.current >= row.current
  /\ row'.current # row.current => \A f \in Editors \ {e} : op[f].at # "commit"
  /\ \A v \in Versions : versions[v].doc # None => versions'[v].doc = versions[v].doc
  /\ \A f \in Editors \ {e} : op[f].at \in Holding =>
       versions'[op[f].v].doc = None /\ files'[op[f].v] = files[op[f].v]
  /\ submitted \subseteq submitted'
  /\ \A source \in choices' : source \in choices \/ source >= row.current

LEMMA OpsStep ==
  ASSUME Inv, NEW e \in Editors, NEW o \in Ops, Moves(e, o), Undisturbed(e),
         row'.current \in {0} \cup Versions, choices' \subseteq Versions
  PROVE  op' \in [Editors -> Ops] /\ OpInv' /\ Alone'
<1> USE SpecificationAssumption
<1>1. /\ op \in [Editors -> Ops] /\ row.current \in Nat /\ row'.current \in Nat
      /\ \A v \in Versions : v \in Nat
  BY DEF Inv, TypeOK, Ops, Names, Versions
<1>2. op' \in [Editors -> Ops] /\ op'[e] = o /\ \A f \in Editors \ {e} : op'[f] = op[f]
  BY <1>1 DEF Moves
<1>3. ASSUME NEW f \in Editors \ {e}
      PROVE  /\ Named(op'[f]) /\ Knows(op'[f], row')
             /\ HasWritten(op'[f], versions', files')
             /\ Approves(op'[f], versions', choices', submitted')
  <2> DEFINE p == op[f]
  <2>1. /\ p \in Ops /\ Named(p) /\ Knows(p, row) /\ HasWritten(p, versions, files)
        /\ Approves(p, versions, choices, submitted)
    BY <1>1 DEF Inv, OpInv
  <2>2. p.v \in {0} \cup Versions /\ p.v \in Nat
    BY <2>1, <1>1 DEF Ops
  <2> HIDE DEF p
  <2>3. op'[f] = p /\ p = op[f]
    BY <1>2 DEF p
  <2>4. Knows(p, row')
    <3>1. p.v \in Nat /\ row.current \in Nat /\ row'.current \in Nat /\ row'.current >= row.current
      BY <1>1, <2>2 DEF Undisturbed
    <3>2. p.at = "commit" => row'.current = row.current
      BY <2>3 DEF Undisturbed
    <3>3. row' = row \/ (row'.status # None /\ p.name # "create")
      BY <2>3 DEF Undisturbed
    <3>4. row.status # None => row'.status # None
      BY <3>3
    <3>5. p.name = "create" => row'.status = None
      BY <2>1, <3>3 DEF Knows
    <3>6. p.name \notin {None, "create"} => row'.status # None
      BY <2>1, <3>4 DEF Knows
    <3>7. row.current >= p.v => row'.current >= p.v
      BY <3>1
    <3> QED BY <2>1, <3>1, <3>2, <3>5, <3>6, <3>7 DEF Knows
  <2>5. HasWritten(p, versions', files')
    BY <2>1, <2>3 DEF HasWritten, Undisturbed, Holding
  <2>6. Approves(p, versions', choices', submitted')
    <3>1. p.at \in {"recheck", "approve"} =>
            p.v \in submitted' /\ versions'[p.v].doc \in Complete
      <4>1. p.at \in {"recheck", "approve"} =>
              p.v \in Versions /\ p.v \in submitted /\ versions[p.v].doc \in Complete
        BY <2>1, <2>2 DEF Knows, Approves
      <4>2. None \notin Complete
        BY DEF None
      <4>3. QED BY <4>1, <4>2 DEF Undisturbed
    <3>2. p.at = "approve" => \A source \in choices' : source >= p.v
      BY <1>1, <2>1, <2>2 DEF Approves, Undisturbed, Knows
    <3>3. QED BY <3>1, <3>2 DEF Approves
  <2>7. QED BY <2>1, <2>3, <2>4, <2>5, <2>6
<1>4. OpInv'
  BY <1>2, <1>3 DEF OpInv, Moves
<1>5. Alone'
  BY <1>2 DEF Alone, Moves, Inv
<1>6. QED BY <1>2, <1>4, <1>5

(* A step that stores nothing.                                             *)
LEMMA PrivateStep ==
  ASSUME Inv, NEW e \in Editors, NEW o \in Ops,
         op' = [op EXCEPT ![e] = o],
         UNCHANGED <<row, versions, choices, files, submitted, lost>>,
         editor' \in [Editors -> [seen : {0} \cup Versions, text : Docs,
                        status : {"new", "draft", "review", "approved", "superseded"}]],
         EditorInv',
         Named(o), Knows(o, row), HasWritten(o, versions, files),
         Approves(o, versions, choices, submitted),
         o.name = "create" => \A f \in Editors \ {e} : op[f].name # "create",
         o.at \in Holding <=> op[e].at \in Holding,
         o.at \in Holding => o.v = op[e].v
  PROVE  Inv'
<1> USE SpecificationAssumption
<1>1. op \in [Editors -> Ops] /\ row.current \in {0} \cup Versions /\ choices \subseteq Versions
  BY DEF Inv, TypeOK, Ops, Names
<1>2. Moves(e, o)
  BY DEF Moves, Inv, Alone
<1>3. Undisturbed(e)
  <2>1. row.current \in Nat
    BY <1>1 DEF Versions
  <2>2. \A f \in Editors \ {e} : op[f].at \in Holding => versions[op[f].v].doc = None
    BY DEF Inv, OpInv, HasWritten
  <2>3. row'.current >= row.current
    BY <2>1
  <2>4. QED BY <2>2, <2>3 DEF Undisturbed
<1>4. op' \in [Editors -> Ops] /\ OpInv' /\ Alone'
  BY <1>1, <1>2, <1>3, OpsStep
<1>5. TypeOK'
  BY <1>4 DEF Inv, TypeOK, Ops, Names
<1>6. StoreInv'
  <2>1. RowInv' /\ VersionsFollow' /\ ApprovedIsReviewed'
    BY DEF Inv, StoreInv, RowInv, VersionsFollow, ApprovedIsReviewed, Written
  <2>2. \A f \in Editors : /\ op'[f].at \in Holding <=> op[f].at \in Holding
                           /\ op'[f].at \in Holding => op'[f].v = op[f].v
    BY <1>1
  <2>3. ArtifactsKept'
    BY <2>2 DEF Inv, StoreInv, ArtifactsKept, Written, Holding
  <2>4. QED BY <2>1, <2>3 DEF StoreInv
<1>7. QED BY <1>4, <1>5, <1>6 DEF Inv

(* What can be said of an editor at rest and of one that is working.       *)
LEMMA Known ==
  ASSUME Inv, NEW e \in Editors
  PROVE  /\ op[e] \in Ops /\ op \in [Editors -> Ops]
         /\ Named(op[e]) /\ Knows(op[e], row) /\ HasWritten(op[e], versions, files)
         /\ Approves(op[e], versions, choices, submitted)
         /\ row.current \in Nat /\ op[e].v \in Nat
         /\ editor[e].text \in Docs /\ editor[e].seen \in {0} \cup Versions
         /\ row.status # None => /\ row.current \in Versions /\ row.current # 0
                                 /\ versions[row.current].doc \in Docs
BY SpecificationAssumption
   DEF Inv, TypeOK, OpInv, Ops, Names, Versions, StoreInv, RowInv, VersionsFollow, Written, Row, Absent

(* An operation begins: no editor that has not loaded the specification    *)
(* begins another than its creation.                                       *)
LEMMA StartStep ==
  ASSUME Inv, NEW e \in Editors,
         Create(e) \/ Save(e) \/ Submit(e) \/ Return(e) \/ Approve(e) \/ Analyse(e)
  PROVE  Inv'
<1> USE SpecificationAssumption
<1>1. PICK name, at, v, doc :
        /\ Starts(e, name, at, v, doc)
        /\ \/ /\ name = "create" /\ at = "write" /\ v = 1 /\ doc \in Docs
              /\ row.status = None /\ \A f \in Editors : op[f].name # "create"
           \/ /\ row.status # None
              /\ \/ name = "save" /\ at \in {"may return", "read"} /\ v = 0 /\ doc \in Docs
                 \/ name = "submit" /\ at = "may submit" /\ v = 0 /\ doc = None
                 \/ name = "return" /\ at = "may return" /\ v = 0 /\ doc = None
                 \/ name = "approve" /\ at = "may approve" /\ v = 0 /\ doc = None
                 \/ name = "analyse" /\ at = "ask" /\ v = editor[e].seen /\ v # 0 /\ doc = None
  <2>1. editor[e].status \in {"draft", "review", "approved"} =>
          editor[e].seen # 0 /\ row.status # None
    BY Known DEF Inv, EditorInv, StoreInv, RowInv, Versions
  <2>2. CASE Create(e)
    BY <2>2, Known DEF Create
  <2>3. CASE Save(e)
    BY <2>1, <2>3, Known DEF Save
  <2>4. CASE Submit(e) \/ Return(e) \/ Approve(e) \/ Analyse(e)
    BY <2>1, <2>4 DEF Submit, Return, Approve, Analyse
  <2>5. QED BY <2>2, <2>3, <2>4
<1> DEFINE o == [name |-> name, at |-> at, v |-> v, doc |-> doc, choice |-> None]
<1>2. /\ o.name = name /\ o.at = at /\ o.v = v /\ o.doc = doc /\ o.choice = None
      /\ op' = [op EXCEPT ![e] = o] /\ op[e].name = None /\ op[e].at = "end"
      /\ UNCHANGED <<row, versions, choices, files, editor, submitted, lost>>
  BY <1>1, Known DEF Starts, Busy, stored, history, Named
<1>3. o \in Ops
  <2>2. name \in Names /\ at \in Places /\ doc \in Docs \cup {None}
    BY <1>1 DEF Names, Places
  <2>3. v \in {0} \cup Versions
    <3>1. 1 \in Versions
      BY DEF Versions
    <3>2. v = 0 \/ v = 1 \/ v = editor[e].seen
      BY <1>1
    <3>3. editor[e].seen \in {0} \cup Versions
      BY Known
    <3>4. QED BY <3>1, <3>2, <3>3
  <2>4. QED BY <2>2, <2>3 DEF Ops
<1>4. v = editor[e].seen => v <= row.current
  BY DEF Inv, EditorInv
<1> HIDE DEF o
<1>5. Named(o)
  <2>1. /\ o.name = name /\ o.at = at /\ o.v = v /\ o.doc = doc /\ o.choice = None
        /\ \/ name = "create" /\ at = "write" /\ v = 1 /\ doc \in Docs
           \/ name = "save" /\ at \in {"may return", "read"} /\ doc \in Docs
           \/ name = "submit" /\ at = "may submit"
           \/ name = "return" /\ at = "may return"
           \/ name = "approve" /\ at = "may approve"
           \/ name = "analyse" /\ at = "ask"
    BY <1>1, <1>2
  <2>2. CASE name = "create"
    BY <2>1, <2>2 DEF Named, Making, Holding, None
  <2>3. CASE name = "save"
    BY <2>1, <2>3 DEF Named, Making, Holding, None
  <2>4. CASE name \notin {"create", "save"}
    BY <2>1, <2>4 DEF Named, Making, Holding, None
  <2>5. QED BY <2>2, <2>3, <2>4
<1>6. Knows(o, row) /\ HasWritten(o, versions, files) /\ Approves(o, versions, choices, submitted)
  BY <1>1, <1>2, <1>4 DEF Knows, HasWritten, Approves, Holding, None
<1>7. /\ EditorInv'
      /\ editor' \in [Editors -> [seen : {0} \cup Versions, text : Docs,
                        status : {"new", "draft", "review", "approved", "superseded"}]]
  BY <1>2 DEF Inv, EditorInv, TypeOK
<1>8. /\ o.at \notin Holding /\ op[e].at \notin Holding
      /\ o.name = "create" => \A f \in Editors \ {e} : op[f].name # "create"
  BY <1>1, <1>2 DEF Holding
<1>9. QED BY <1>2, <1>3, <1>5, <1>6, <1>7, <1>8, PrivateStep

(* What the editor shows after it has loaded a version.                    *)
LEMMA LoadsShows ==
  ASSUME Inv, NEW e \in Editors, NEW v \in Versions, NEW keeps \in BOOLEAN, Loads(e, v, keeps),
         row'.status \in {"draft", "review", "approved", "superseded"},
         row'.current \in Nat, v <= row'.current, row.current <= row'.current,
         keeps \/ versions'[v].doc \in Docs
  PROVE  /\ editor' \in [Editors -> [seen : {0} \cup Versions, text : Docs,
                          status : {"new", "draft", "review", "approved", "superseded"}]]
         /\ EditorInv'
<1> DEFINE shown == [seen |-> v, status |-> row'.status,
                     text |-> IF keeps THEN editor[e].text ELSE versions'[v].doc]
<1>1. editor' = [editor EXCEPT ![e] = shown]
  BY DEF Loads
<1>2. shown.seen = v /\ shown.status = row'.status /\ shown.text \in Docs
  BY Known
<1>3. shown \in [seen : {0} \cup Versions, text : Docs,
                 status : {"new", "draft", "review", "approved", "superseded"}]
  BY Known
<1> HIDE DEF shown
<1>4. \A f \in Editors : editor[f].seen \in Nat /\ row.current \in Nat /\ v \in Nat /\ v # 0
  BY SpecificationAssumption DEF Inv, TypeOK, Versions
<1>5. \A f \in Editors : editor'[f] = IF f = e THEN shown ELSE editor[f]
  BY <1>1 DEF Inv, TypeOK
<1>6. EditorInv'
  BY <1>2, <1>4, <1>5 DEF Inv, EditorInv
<1>7. QED BY <1>1, <1>3, <1>6 DEF Inv, TypeOK

(* A step that stores nothing and shows nothing.                           *)
LEMMA QuietStep ==
  ASSUME Inv, NEW e \in Editors, NEW o \in Ops, op' = [op EXCEPT ![e] = o],
         UNCHANGED <<stored, files, editor, history>>,
         Named(o), Knows(o, row), HasWritten(o, versions, files),
         Approves(o, versions, choices, submitted), o.name # "create" \/ op[e].name = "create",
         o.at \in Holding <=> op[e].at \in Holding,
         o.at \in Holding => o.v = op[e].v
  PROVE  Inv'
<1>1. /\ EditorInv'
      /\ editor' \in [Editors -> [seen : {0} \cup Versions, text : Docs,
                        status : {"new", "draft", "review", "approved", "superseded"}]]
  BY DEF Inv, EditorInv, TypeOK, stored, history
<1>2. o.name = "create" => \A f \in Editors \ {e} : op[f].name # "create"
  BY DEF Inv, Alone
<1>3. QED BY <1>1, <1>2, PrivateStep DEF stored, history

LEMMA FailStep ==
  ASSUME Inv, NEW e \in Editors, Fail(e), op[e].at \notin Holding,
         UNCHANGED <<stored, files, editor, history>>
  PROVE  Inv'
<1>1. Idle.at \notin Holding /\ Idle.name # "create"
  BY IdleKnows DEF Holding, None
<1>2. QED BY <1>1, IdleKnows, QuietStep DEF Fail

(* Typing and rereading *)
LEMMA RestStep ==
  ASSUME Inv, NEW e \in Editors, Type(e) \/ Reread(e)
  PROVE  Inv'
<1>1. op[e] \in Ops /\ op' = [op EXCEPT ![e] = op[e]]
  BY Known DEF Type, Reread, Ops
<1>2. /\ EditorInv'
      /\ editor' \in [Editors -> [seen : {0} \cup Versions, text : Docs,
                        status : {"new", "draft", "review", "approved", "superseded"}]]
  <2>1. CASE Type(e)
    BY <2>1 DEF Type, Inv, EditorInv, TypeOK, stored
  <2>2. CASE Reread(e)
    <3>1. /\ row.current \in Versions /\ versions[row.current].doc \in Docs
          /\ row.status \in {"draft", "review", "approved", "superseded"}
          /\ row.current \in Nat /\ row.current <= row.current
      BY <2>2, Known DEF Reread, Inv, TypeOK
    <3>2. QED BY <2>2, <3>1, LoadsShows DEF Reread, stored
  <2>3. QED BY <2>1, <2>2
<1>3. UNCHANGED <<row, versions, choices, files, submitted, lost>>
  BY DEF Type, Reread, stored, history
<1>4. op[e].name = "create" => \A f \in Editors \ {e} : op[f].name # "create"
  BY DEF Inv, Alone
<1>5. QED BY <1>1, <1>2, <1>3, <1>4, Known, PrivateStep

(* What a review checks before it writes.                                  *)
LEMMA MayStep ==
  ASSUME Inv, NEW e \in Editors,
         MayReturn(e) \/ MaySubmit(e) \/ MayApprove(e) \/ StillMayApprove(e)
  PROVE  Inv'
<1> DEFINE p == op[e]
<1>1. /\ p \in Ops /\ p.at \notin Holding /\ Named(p) /\ Knows(p, row)
      /\ Approves(p, versions, choices, submitted)
      /\ UNCHANGED <<stored, files, editor, history>>
  BY Known DEF MayReturn, MaySubmit, MayApprove, StillMayApprove, At, Holding
<1>2. CASE Fail(e)
  BY <1>1, <1>2, FailStep
<1>3. ASSUME NEW place,
             place \in {"return", "submit", "recheck"},
             Goes(e, place, row.current), row.status # None,
             place = "return" => p.at = "may return",
             place = "submit" => p.at = "may submit",
             place = "recheck" =>
               row.status = "review" /\ Valid(row.current) /\ p.at = "may approve"
      PROVE  Inv'
  <2> DEFINE n == [p EXCEPT !.at = place, !.v = row.current]
  <2>1. p.at \in {"may return", "may submit", "may approve"}
    BY <1>3
  <2>2. /\ row.current \in Versions /\ row.current \in Nat /\ row.current # 0
    BY <1>3, Known
  <2>3. /\ n \in Ops /\ n.at = place /\ n.v = row.current
        /\ n.name = p.name /\ n.doc = p.doc /\ n.choice = p.choice
        /\ op' = [op EXCEPT ![e] = n]
    <3>1. place \in Places /\ row.current \in {0} \cup Versions
      BY <1>3, <2>2 DEF Places
    <3>2. op' = [op EXCEPT ![e] = n]
      BY <1>3 DEF Goes
    <3> HIDE DEF p
    <3>3. QED BY <1>1, <3>1, <3>2 DEF Ops
  <2> HIDE DEF p, n
  <2>4. Named(n)
    <3>1. p.choice = None
      BY <1>1, <1>3, <2>1 DEF Named, Making, Holding
    <3>2. p.name \notin {None, "create", "apply"} /\ (p.name = "save" => place = "return")
      BY <1>1, <1>3, <2>1 DEF Named, Making, Holding
    <3>3. place = "return" => p.name \in {"save", "return"}
      BY <1>1, <1>3, <2>1 DEF Named
    <3>4. p.name \in {"save", "apply"} => n.doc \in Docs
      BY <1>1, <2>3 DEF Named
    <3>5. QED BY <1>3, <2>1, <2>3, <3>1, <3>2, <3>3, <3>4 DEF Named, Making, Holding
  <2>5. Knows(n, row)
    <3>1. n.v # 0 /\ n.v <= row.current
      BY <2>2, <2>3
    <3>2. n.name # "create"
      BY <1>1, <2>1, <2>3 DEF Named, Making, Holding
    <3>3. n.at \notin {"commit", "read"}
      BY <1>3, <2>3
    <3>4. QED BY <1>3, <3>1, <3>2, <3>3 DEF Knows
  <2>6. HasWritten(n, versions, files) /\ n.at \notin Holding
    BY <1>3, <2>1, <2>3 DEF HasWritten, Holding
  <2>7. Approves(n, versions, choices, submitted)
    BY <1>3, <2>1, <2>3 DEF Approves, Valid, Inv, StoreInv, RowInv
  <2>8. n.name # "create"
    BY <1>1, <1>3, <2>1, <2>3 DEF Named, Making, Holding
  <2>9. QED BY <1>1, <2>3, <2>4, <2>5, <2>6, <2>7, <2>8, QuietStep DEF p
<1>4. CASE /\ p.at = "recheck" /\ Goto(e, "approve")
           /\ row = [status |-> "review", current |-> p.v] /\ ~Unresolved(p.v)
  <2> DEFINE q == [p EXCEPT !.at = "approve", !.v = p.v]
  <2>1. p.v \in {0} \cup Versions /\ p.v \in Nat
    BY Known DEF Ops
  <2>2. /\ q \in Ops /\ q.at = "approve" /\ q.v = p.v
        /\ q.name = p.name /\ q.doc = p.doc /\ q.choice = p.choice
    <3>1. "approve" \in Places
      BY DEF Places
    <3> HIDE DEF p
    <3>2. QED BY <1>1, <2>1, <3>1 DEF Ops
  <2>3. op' = [op EXCEPT ![e] = q]
    BY <1>4 DEF Goto, Goes
  <2>4. \A source \in choices : source >= p.v
    <3>1. ASSUME NEW source \in choices PROVE source >= p.v
      <4>1. source \in Nat
        BY SpecificationAssumption DEF Inv, TypeOK, Versions
      <4>2. ~(source <= p.v)
        BY <1>4 DEF Unresolved
      <4>3. QED BY <2>1, <4>1, <4>2
    <3>2. QED BY <3>1
  <2> HIDE DEF p, q
  <2>5. Named(q)
    BY <1>1, <1>4, <2>2 DEF Named, Making, Holding
  <2>6. Knows(q, row) /\ HasWritten(q, versions, files) /\ q.at \notin Holding
    BY <1>1, <1>4, <2>2 DEF Knows, HasWritten, Holding
  <2>7. Approves(q, versions, choices, submitted)
    BY <1>1, <1>4, <2>2, <2>4 DEF Approves
  <2>8. q.name # "create"
    BY <1>1, <1>4, <2>2 DEF Named, Making, Holding
  <2>9. QED BY <1>1, <2>2, <2>3, <2>5, <2>6, <2>7, <2>8, QuietStep DEF p
<1>5. CASE MayReturn(e)
  BY <1>2, <1>3, <1>5 DEF MayReturn, At, None
<1>6. CASE MaySubmit(e)
  BY <1>2, <1>3, <1>6 DEF MaySubmit, At, None
<1>7. CASE MayApprove(e)
  BY <1>2, <1>3, <1>7 DEF MayApprove, At, None
<1>8. CASE StillMayApprove(e)
  BY <1>2, <1>4, <1>8 DEF StillMayApprove, At
<1>9. QED
  BY <1>5, <1>6, <1>7, <1>8

(* An analysis, up to the reading of the row it will replace.              *)
LEMMA AnalysisStep ==
  ASSUME Inv, NEW e \in Editors, Ask(e) \/ Answered(e) \/ Choose(e)
  PROVE  Inv'
<1> DEFINE p == op[e]
<1>1. /\ p \in Ops /\ p.at \in {"ask", "provider", "dialog"} /\ Named(p) /\ Knows(p, row)
      /\ p.at \notin Holding /\ UNCHANGED <<stored, files, editor, history>>
      /\ p.v \in {0} \cup Versions
  BY Known DEF Ask, Answered, Choose, At, Holding, Ops
<1>2. CASE Fail(e)
  BY <1>1, <1>2, FailStep
<1>3. ASSUME NEW n \in Ops, op' = [op EXCEPT ![e] = n], n.v = p.v,
             \/ n.at = "provider" /\ n.name = p.name /\ n.choice = None /\ p.at = "ask"
             \/ n.at = "dialog" /\ n.name = p.name /\ p.at = "provider" /\ n.doc \in Docs
             \/ n.at = "read" /\ n.name = "apply" /\ n.doc \in Docs /\ p.at = "dialog"
      PROVE  Inv'
  <2> HIDE DEF p
  <2>1. p.name = "analyse"
    BY <1>1 DEF Named
  <2>2. Named(n)
    <3>1. CASE n.at = "provider"
      BY <1>3, <2>1, <3>1 DEF Named, Making, Holding, None
    <3>2. CASE n.at = "dialog"
      BY <1>3, <2>1, <3>2 DEF Named, Making, Holding, None
    <3>3. CASE n.at = "read"
      BY <1>3, <3>3 DEF Named, Making, Holding, None
    <3>4. QED BY <1>3, <3>1, <3>2, <3>3
  <2>3. Knows(n, row)
    BY <1>1, <1>3, <2>1 DEF Knows, None
  <2>4. HasWritten(n, versions, files) /\ Approves(n, versions, choices, submitted)
        /\ n.at \notin Holding /\ n.name # "create"
    BY <1>3, <2>1 DEF HasWritten, Approves, Holding
  <2>5. QED BY <1>1, <1>3, <2>2, <2>3, <2>4, QuietStep DEF p
<1>4. CASE Ask(e)
  <2> DEFINE n == [p EXCEPT !.at = "provider", !.v = p.v]
  <2>1. p.choice = None /\ p.at = "ask"
    <3>1. p.at = "ask"
      BY <1>4 DEF Ask, At
    <3> HIDE DEF p
    <3>2. QED BY <1>1, <3>1 DEF Named, Making, Holding
  <2>2. ASSUME Goto(e, "provider") PROVE op' = [op EXCEPT ![e] = n]
    BY <2>2 DEF Goto, Goes
  <2>3. n \in Ops /\ n.v = p.v /\ n.name = p.name /\ n.choice = None /\ n.at = "provider"
    <3> HIDE DEF p
    <3>1. "provider" \in Places
      BY DEF Places
    <3>2. QED BY <1>1, <2>1, <3>1 DEF Ops
  <2> HIDE DEF p, n
  <2>4. QED BY <1>2, <1>3, <1>4, <2>1, <2>2, <2>3 DEF Ask
<1>5. CASE Answered(e)
  <2>1. ASSUME NEW d \in Docs, NEW choice \in {None, "blocking"},
               op' = [op EXCEPT ![e] = [@ EXCEPT !.at = "dialog", !.doc = d, !.choice = choice]]
        PROVE  Inv'
    <3> DEFINE n == [p EXCEPT !.at = "dialog", !.doc = d, !.choice = choice]
    <3>1. op' = [op EXCEPT ![e] = n] /\ p.at = "provider"
      BY <1>5, <2>1 DEF Answered, At
    <3>2. n \in Ops /\ n.v = p.v /\ n.name = p.name /\ n.doc \in Docs /\ n.at = "dialog"
      <4> HIDE DEF p
      <4>1. "dialog" \in Places
        BY DEF Places
      <4>2. QED BY <1>1, <4>1 DEF Ops
    <3> HIDE DEF p, n
    <3>3. QED BY <1>3, <3>1, <3>2
  <2>2. QED BY <1>2, <1>5, <2>1 DEF Answered
<1>6. CASE Choose(e)
  <2>1. ASSUME NEW d \in {p.doc, versions[p.v].doc},
               op' = [op EXCEPT ![e] = [@ EXCEPT !.name = "apply", !.at = "read", !.doc = d]]
        PROVE  Inv'
    <3> DEFINE n == [p EXCEPT !.name = "apply", !.at = "read", !.doc = d]
    <3>1. op' = [op EXCEPT ![e] = n] /\ p.at = "dialog"
      BY <1>6, <2>1 DEF Choose, At
    <3>2. d \in Docs
      <4>1. p.doc \in Docs /\ p.v \in Versions /\ p.v <= row.current
        BY <1>1, <3>1 DEF Named, Knows
      <4>2. versions[p.v].doc \in Docs
        BY <4>1 DEF Inv, TypeOK, StoreInv, VersionsFollow, Written, Row, Absent
      <4>3. QED BY <4>1, <4>2
    <3>3. n \in Ops /\ n.v = p.v /\ n.name = "apply" /\ n.doc \in Docs /\ n.at = "read"
      <4> HIDE DEF p
      <4>1. "read" \in Places /\ "apply" \in Names
        BY DEF Places, Names
      <4>2. QED BY <1>1, <3>2, <4>1 DEF Ops
    <3> HIDE DEF p, n
    <3>4. QED BY <1>3, <3>1, <3>3
  <2>2. QED BY <1>2, <1>6, <2>1 DEF Choose
<1>7. QED BY <1>4, <1>5, <1>6

(* An operation reads the version that its own will follow.                *)
LEMMA ReadStep ==
  ASSUME Inv, NEW e \in Editors, Read(e)
  PROVE  Inv'
<1> DEFINE p == op[e]
           w == row.current + 1
           n == [p EXCEPT !.at = "write", !.v = w]
<1>1. /\ p \in Ops /\ p.at = "read" /\ Named(p) /\ Knows(p, row)
      /\ p.at \notin Holding /\ UNCHANGED <<stored, files, editor, history>>
  BY Known DEF Read, At, Holding
<1>2. CASE Fail(e)
  BY <1>1, <1>2, FailStep
<1>3. CASE ~Fail(e)
  <2>1. p.name \in {"save", "apply"} /\ row.status # None /\ p.doc \in Docs
        /\ (p.choice # None => p.name = "apply")
    BY <1>1 DEF Named, Knows, None
  <2>2. /\ w \in Versions /\ w # 0 /\ (p.name = "apply" => w # 1)
    <3>1. row.current \in Nat /\ row.current < MaxVersion /\ p.v \in Nat
      BY Known DEF Read
    <3>2. w \in Versions /\ w # 0
      BY <3>1, SpecificationAssumption DEF Versions
    <3>3. row.current # 0
      BY <2>1, Known
    <3>4. QED BY <3>1, <3>2, <3>3
  <2>3. op' = [op EXCEPT ![e] = n]
    <3>1. Goes(e, "write", w)
      BY <1>3 DEF Read
    <3>2. QED BY <3>1 DEF Goes
  <2>4. /\ n \in Ops /\ n.at = "write" /\ n.v = w
        /\ n.name = p.name /\ n.doc = p.doc /\ n.choice = p.choice
    <3>1. "write" \in Places
      BY DEF Places
    <3> HIDE DEF p, w
    <3>2. QED BY <1>1, <2>2, <3>1 DEF Ops
  <2> HIDE DEF p, w, n
  <2>5. Named(n)
    BY <2>1, <2>2, <2>4 DEF Named, Making, Holding, None
  <2>6. /\ Knows(n, row) /\ HasWritten(n, versions, files) /\ n.name # "create"
        /\ Approves(n, versions, choices, submitted) /\ n.at \notin Holding
    BY <2>1, <2>4 DEF Knows, HasWritten, Approves, Holding
  <2>7. QED BY <1>1, <2>3, <2>4, <2>5, <2>6, QuietStep DEF p
<1>4. QED BY <1>2, <1>3

-----------------------------------------------------------------------------
(* An operation between its artifact and its commit, and one about to      *)
(* write its artifact.                                                     *)
LEMMA Held ==
  ASSUME Inv, NEW e \in Editors, op[e].at \in Making
  PROVE  /\ op[e].v \in Versions /\ op[e].doc \in Docs /\ op[e].doc # None
         /\ op[e].at \in Holding => /\ files[op[e].v] = op[e].doc /\ ~Written(op[e].v)
<1>1. op[e].v \in Versions /\ op[e].doc \in Docs
  <2>1. op[e].v # 0 /\ op[e].name \in {"create", "save", "apply"}
    BY Known DEF Named
  <2>2. op[e].v \in {0} \cup Versions
    BY Known DEF Ops
  <2>3. QED BY <2>1, <2>2, Known DEF Named
<1>2. op[e].doc # None
  BY <1>1, SpecificationAssumption DEF None
<1>3. op[e].at \in Holding => files[op[e].v] = op[e].doc /\ ~Written(op[e].v)
  BY Known DEF HasWritten, Written
<1>4. QED BY <1>1, <1>2, <1>3

(* The artifact of a new version, if there was none.                       *)
LEMMA WriteStep ==
  ASSUME Inv, NEW e \in Editors, WriteArtifact(e)
  PROVE  Inv'
<1> DEFINE p == op[e]
           n == [p EXCEPT !.at = "check", !.v = p.v]
<1>1. /\ p \in Ops /\ p.at = "write" /\ p.at \in Making /\ p.at \notin Holding
      /\ Named(p) /\ Knows(p, row) /\ UNCHANGED <<stored, editor, history>>
      /\ p.v \in Versions /\ p.doc \in Docs /\ p.doc # None
  <2>1. p.at = "write" /\ UNCHANGED <<stored, editor, history>>
    BY DEF WriteArtifact, At
  <2>2. p.at \in Making /\ p.at \notin Holding
    BY <2>1 DEF Making, Holding
  <2>3. QED BY <2>1, <2>2, Held, Known
<1>2. CASE files[p.v] # None
  BY <1>1, <1>2, FailStep DEF WriteArtifact
<1>3. CASE files[p.v] = None
  <2>1. op' = [op EXCEPT ![e] = n] /\ files' = [files EXCEPT ![p.v] = p.doc]
    BY <1>3 DEF WriteArtifact, Goto, Goes
  <2>2. /\ n \in Ops /\ n.at = "check" /\ n.v = p.v
        /\ n.name = p.name /\ n.doc = p.doc /\ n.choice = p.choice
    <3>1. "check" \in Places /\ p.v \in {0} \cup Versions
      BY <1>1 DEF Places
    <3> HIDE DEF p
    <3>2. QED BY <1>1, <3>1 DEF Ops
  <2> HIDE DEF n
  <2>3. /\ \A v \in Versions : files'[v] = IF v = p.v THEN p.doc ELSE files[v]
        /\ files' \in [Versions -> Docs \cup {None}]
    BY <1>1, <2>1 DEF Inv, TypeOK
  <2>4. ~Written(p.v) /\ versions[p.v].doc = None
    BY <1>1, <1>3 DEF Inv, StoreInv, ArtifactsKept, Written, TypeOK, Row, Absent
  <2>5. \A f \in Editors \ {e} : op[f].at \in Holding =>
           op[f].v # p.v /\ op[f].v \in Versions /\ versions[op[f].v].doc = None
    BY <1>3, Held DEF Written, Making
  <2>6. Moves(e, n)
    <3>1. Named(n)
      BY <1>1, <2>2 DEF Named, Making, Holding
    <3>2. Knows(n, row) /\ Approves(n, versions', choices', submitted')
      BY <1>1, <2>2 DEF Knows, Approves
    <3>3. HasWritten(n, versions', files')
      BY <1>1, <2>2, <2>3, <2>4 DEF HasWritten, stored
    <3>4. n.name = "create" => \A f \in Editors \ {e} : op[f].name # "create"
      BY <2>2 DEF Inv, Alone
    <3> HIDE DEF p
    <3>5. QED BY <1>1, <2>1, <2>2, <2>5, <3>1, <3>2, <3>3, <3>4 DEF Moves, stored
  <2>7. Undisturbed(e)
    <3>1. row.current >= row.current
      BY Known
    <3>2. \A f \in Editors \ {e} : op[f].at \in Holding => files'[op[f].v] = files[op[f].v]
      BY <2>3, <2>5
    <3> HIDE DEF p
    <3>3. QED BY <1>1, <2>5, <3>1, <3>2 DEF Undisturbed, stored, history
  <2>8. op' \in [Editors -> Ops] /\ OpInv' /\ Alone'
    <3>1. row'.current \in {0} \cup Versions /\ choices' \subseteq Versions
      BY <1>1 DEF Inv, TypeOK, stored
    <3>2. QED BY <2>2, <2>6, <2>7, <3>1, OpsStep
  <2>9. TypeOK'
    BY <1>1, <2>3, <2>8 DEF Inv, TypeOK, Ops, Names, stored, history
  <2>10. StoreInv'
    <3>1. RowInv' /\ VersionsFollow' /\ ApprovedIsReviewed'
      BY <1>1 DEF Inv, StoreInv, RowInv, VersionsFollow, ApprovedIsReviewed, Written,
                  stored, history
    <3>2. \A v \in Versions : Written(v) => v # p.v /\ files[v] = versions[v].doc
      BY <2>4 DEF Inv, StoreInv, ArtifactsKept
    <3>3. op'[e] = n /\ \A f \in Editors \ {e} : op'[f] = op[f]
      BY <1>1, <2>1, Known
    <3>4. ASSUME NEW v \in Versions, files'[v] # None, ~Written(v)
          PROVE  v \in lost \/ \E f \in Editors : op'[f].v = v /\ op'[f].at \in {"check", "commit"}
      <4>1. CASE v = p.v
        BY <2>2, <3>3, <4>1
      <4>2. CASE v # p.v
        <5>1. v \in lost \/ \E f \in Editors : op[f].v = v /\ op[f].at \in {"check", "commit"}
          BY <2>3, <3>4, <4>2 DEF Inv, StoreInv, ArtifactsKept
        <5>2. QED BY <1>1, <3>3, <5>1
      <4>3. QED BY <4>1, <4>2
    <3> HIDE DEF p
    <3>5. ArtifactsKept'
      BY <1>1, <2>3, <3>2, <3>4 DEF ArtifactsKept, Written, stored, history
    <3>6. QED BY <3>1, <3>5 DEF StoreInv
  <2>11. EditorInv'
    BY <1>1 DEF Inv, EditorInv, stored
  <2>12. QED BY <2>8, <2>9, <2>10, <2>11 DEF Inv
<1>4. QED BY <1>2, <1>3

(* An operation that holds an artifact ends without its version: removing   *)
(* the artifact, or killed.                                                *)
LEMMA DropStep ==
  ASSUME Inv, NEW e \in Editors, op[e].at \in Holding, Fail(e),
         UNCHANGED <<row, versions, choices, submitted>>,
         \/ files' = [files EXCEPT ![op[e].v] = None] /\ UNCHANGED <<editor, lost>>
         \/ /\ UNCHANGED files /\ editor' = [editor EXCEPT ![e] = NewEditor]
            /\ lost' = lost \cup {op[e].v}
  PROVE  Inv'
<1> DEFINE p == op[e]
<1>1. p.v \in Versions /\ p.doc \in Docs /\ ~Written(p.v) /\ versions[p.v].doc = None
  BY Held DEF Making, Written
<1>2. op' = [op EXCEPT ![e] = Idle] /\ op'[e] = Idle /\ \A f \in Editors \ {e} : op'[f] = op[f]
  BY Known DEF Fail
<1>3. \A f \in Editors \ {e} : op[f].at \in Holding =>
         op[f].v # p.v /\ op[f].v \in Versions /\ versions[op[f].v].doc = None
  BY Held DEF Making, Written, Inv, Alone
<1>4. /\ \A v \in Versions : files'[v] = files[v] \/ (v = p.v /\ files'[v] = None)
      /\ \A v \in Versions : v # p.v => files'[v] = files[v]
      /\ files'[p.v] = None \/ p.v \in lost'
      /\ files' \in [Versions -> Docs \cup {None}]
  BY <1>1 DEF Inv, TypeOK
<1>5. /\ EditorInv'
      /\ editor' \in [Editors -> [seen : {0} \cup Versions, text : Docs,
                         status : {"new", "draft", "review", "approved", "superseded"}]]
  <2>1. NewEditor \in [seen : {0} \cup Versions, text : Docs,
                       status : {"new", "draft", "review", "approved", "superseded"}]
    BY SpecificationAssumption DEF NewEditor
  <2>2. NewEditor.seen = 0 /\ NewEditor.status = "new"
    BY DEF NewEditor
  <2>3. 0 <= row.current
    BY Known
  <2>4. QED BY <2>1, <2>2, <2>3 DEF Inv, TypeOK, EditorInv
<1> HIDE DEF p
<1>6. Moves(e, Idle)
  BY <1>2, IdleKnows DEF Moves, Holding, None
<1>7. Undisturbed(e)
  <2>1. row.current >= row.current
    BY Known
  <2>2. QED BY <1>3, <1>4, <2>1 DEF Undisturbed
<1>8. op' \in [Editors -> Ops] /\ OpInv' /\ Alone'
  <2>1. row'.current \in {0} \cup Versions /\ choices' \subseteq Versions
    BY DEF Inv, TypeOK
  <2>2. QED BY <1>6, <1>7, <2>1, IdleKnows, OpsStep
<1>9. lost' \subseteq Versions /\ lost \subseteq lost'
  BY <1>1 DEF Inv, TypeOK, p
<1>10. TypeOK'
  BY <1>4, <1>5, <1>8, <1>9 DEF Inv, TypeOK, Ops, Names
<1>11. StoreInv'
  <2>1. RowInv' /\ VersionsFollow' /\ ApprovedIsReviewed'
    BY DEF Inv, StoreInv, RowInv, VersionsFollow, ApprovedIsReviewed, Written
  <2>2. \A v \in Versions : Written(v) => v # p.v /\ files[v] = versions[v].doc
    BY <1>1 DEF Inv, StoreInv, ArtifactsKept
  <2>3. ASSUME NEW v \in Versions, files'[v] # None, ~Written(v)
        PROVE  v \in lost' \/ \E f \in Editors : op'[f].v = v /\ op'[f].at \in {"check", "commit"}
    <3>1. CASE v = p.v
      BY <1>4, <2>3, <3>1
    <3>2. CASE v # p.v
      <4>1. v \in lost \/ \E f \in Editors : op[f].v = v /\ op[f].at \in {"check", "commit"}
        BY <1>4, <2>3, <3>2 DEF Inv, StoreInv, ArtifactsKept
      <4>2. QED BY <1>2, <1>9, <3>2, <4>1 DEF p
    <3>3. QED BY <3>1, <3>2
  <2>4. ArtifactsKept'
    BY <1>4, <2>2, <2>3 DEF ArtifactsKept, Written
  <2>5. QED BY <2>1, <2>4 DEF StoreInv
<1>12. QED BY <1>5, <1>8, <1>10, <1>11 DEF Inv

LEMMA DieStep ==
  ASSUME Inv, NEW e \in Editors, Die(e)
  PROVE  Inv'
BY DropStep DEF Die, Holding, stored

(* What is checked again before the commit: no other version has come      *)
(* between.                                                                *)
LEMMA CheckStep ==
  ASSUME Inv, NEW e \in Editors, Check(e)
  PROVE  Inv'
<1> DEFINE p == op[e]
           n == [p EXCEPT !.at = "commit", !.v = p.v]
<1>1. /\ p \in Ops /\ p.at = "check" /\ p.at \in Holding /\ p.v \in Versions /\ p.v \in Nat
      /\ Named(p) /\ Knows(p, row) /\ HasWritten(p, versions, files)
      /\ UNCHANGED <<editor, history>>
  <2>1. p.at = "check" /\ UNCHANGED <<editor, history>>
    BY DEF Check, At
  <2>2. p.at \in Holding /\ p.at \in Making
    BY <2>1 DEF Holding, Making
  <2>3. QED BY <2>1, <2>2, Held, Known
<1>2. CASE ~Fits(e)
  BY <1>1, <1>2, DropStep DEF Check, Unlink, stored, history
<1>3. CASE Fits(e)
  <2>1. op' = [op EXCEPT ![e] = n] /\ UNCHANGED <<stored, files>>
    BY <1>3 DEF Check, Goto, Goes
  <2>2. p.v = row.current + 1
    <3>1. CASE p.name = "create"
      <4>1. p.v = 1 /\ row.status = None
        BY <1>1, <3>1 DEF Named, Knows
      <4>2. row.current = 0
        BY <4>1 DEF Inv, StoreInv, RowInv
      <4>3. QED BY <4>1, <4>2
    <3>2. CASE p.name # "create"
      <4>1. row.current = p.v - 1
        BY <1>3, <3>2 DEF Fits
      <4>2. QED BY <1>1, <4>1
    <3>3. QED BY <3>1, <3>2
  <2>3. /\ n \in Ops /\ n.at = "commit" /\ n.v = p.v
        /\ n.name = p.name /\ n.doc = p.doc /\ n.choice = p.choice
    <3>1. "commit" \in Places /\ p.v \in {0} \cup Versions
      BY <1>1 DEF Places
    <3> HIDE DEF p
    <3>2. QED BY <1>1, <3>1 DEF Ops
  <2> HIDE DEF p, n
  <2>4. Named(n)
    BY <1>1, <2>3 DEF Named, Making, Holding
  <2>5. Knows(n, row)
    BY <1>1, <2>2, <2>3 DEF Knows
  <2>6. HasWritten(n, versions, files) /\ Approves(n, versions, choices, submitted)
    BY <1>1, <2>3 DEF HasWritten, Approves, Holding
  <2>7. n.at \in Holding /\ p = op[e]
    BY <2>3 DEF Holding, p
  <2>8. n.name # "create" \/ op[e].name = "create"
    BY <2>3, <2>7
  <2>9. QED BY <1>1, <2>1, <2>3, <2>4, <2>5, <2>6, <2>7, <2>8, QuietStep
<1>4. QED BY <1>2, <1>3

(* The new version becomes the current one.                                *)
LEMMA CommitStep ==
  ASSUME Inv, NEW e \in Editors, Commit(e)
  PROVE  Inv'
<1> DEFINE p == op[e]
           new == [doc |-> p.doc, approved |-> FALSE, by |-> p.name]
           source == IF p.choice = None THEN {} ELSE {p.v - 1}
<1>1. /\ p \in Ops /\ p.at = "commit" /\ p.at \in Holding /\ p.at \in Making
      /\ p.v \in Versions /\ p.v \in Nat /\ p.doc \in Docs /\ p.doc # None
      /\ Named(p) /\ Knows(p, row) /\ files[p.v] = p.doc /\ ~Written(p.v)
      /\ row.current \in Nat
  <2>1. p.at = "commit"
    BY DEF Commit, At
  <2>2. p.at \in Holding /\ p.at \in Making
    BY <2>1 DEF Holding, Making
  <2>3. QED BY <2>1, <2>2, Held, Known
<1>2. /\ Fail(e) /\ UNCHANGED <<files, submitted, lost>>
      /\ versions' = [versions EXCEPT ![p.v] = new]
      /\ row' = [status |-> "draft", current |-> p.v]
      /\ choices' = choices \cup source
      /\ Loads(e, p.v, p.name \in {"create", "save"})
  BY <1>1 DEF Commit, Insert, history
<1>3. p.v = row.current + 1 /\ p.name \in {"create", "save", "apply"}
  BY <1>1 DEF Knows, Named
<1>4. new \in Row /\ new.doc = p.doc /\ new.approved = FALSE
  BY <1>1, <1>3 DEF Row
<1>5. row' \in [status : {None, "draft", "review", "approved", "superseded"},
                current : {0} \cup Versions]
  BY <1>1, <1>2
<1>6. row'.status = "draft" /\ row'.current = p.v /\ row'.current = row.current + 1
  BY <1>2, <1>3
<1>7. \A s \in source : s \in Versions /\ s = row.current
  <2>1. ASSUME p.choice # None PROVE p.v # 1
    BY <1>1, <2>1 DEF Named
  <2>2. ASSUME p.choice # None PROVE p.v - 1 \in Versions /\ p.v - 1 = row.current
    BY <1>1, <1>3, <2>1, <2>2, SpecificationAssumption DEF Versions
  <2>3. QED BY <2>2
<1> HIDE DEF new, source, p
<1>8. /\ versions' \in [Versions -> Row \cup {Absent}] /\ versions'[p.v] = new
      /\ \A v \in Versions \ {p.v} : versions'[v] = versions[v]
  BY <1>1, <1>2, <1>4 DEF Inv, TypeOK
<1>9. op' = [op EXCEPT ![e] = Idle] /\ op'[e] = Idle /\ \A f \in Editors \ {e} : op'[f] = op[f]
  BY <1>2, Known DEF Fail
<1>10. \A f \in Editors \ {e} : op[f].at \in Holding =>
          op[f].v # p.v /\ op[f].v \in Versions /\ versions[op[f].v].doc = None
  BY <1>1, Held DEF Making, Written, Inv, Alone, p
<1>11. \A f \in Editors \ {e} : op[f].name # "create" /\ op[f].at # "commit"
  <2>1. ASSUME NEW f \in Editors \ {e} PROVE op[f].at # "commit"
    <3>1. SUFFICES ASSUME op[f].at = "commit" PROVE FALSE
      OBVIOUS
    <3>2. op[f].v = row.current + 1 /\ op[f].at \in Holding
      BY <3>1, Known DEF Knows, Holding
    <3>3. QED BY <1>3, <1>10, <3>2
  <2>2. ASSUME NEW f \in Editors \ {e} PROVE op[f].name # "create"
    <3>1. CASE p.name = "create"
      BY <3>1 DEF Inv, Alone, p
    <3>2. CASE p.name # "create"
      <4>1. row.status # None
        BY <1>1, <1>3, <3>2 DEF Knows, None
      <4>2. QED BY <4>1, Known DEF Knows
    <3>3. QED BY <3>1, <3>2
  <2>3. QED BY <2>1, <2>2
<1>12. Moves(e, Idle)
  BY <1>9, IdleKnows DEF Moves, Holding, None
<1>13. Undisturbed(e)
  <2>1. row'.current >= row.current /\ row.current >= row.current
    BY <1>1, <1>6
  <2>2. \A v \in Versions : versions[v].doc # None => v # p.v
    BY <1>1 DEF Written
  <2>3. \A s \in choices' : s \in choices \/ s >= row.current
    BY <1>2, <1>7, <2>1
  <2>4. row'.status # None
    BY <1>6 DEF None
  <2>5. QED BY <1>2, <1>8, <1>10, <1>11, <2>1, <2>2, <2>3, <2>4 DEF Undisturbed
<1>14. op' \in [Editors -> Ops] /\ OpInv' /\ Alone'
  <2>1. row'.current \in {0} \cup Versions /\ choices' \subseteq Versions
    BY <1>1, <1>2, <1>6, <1>7 DEF Inv, TypeOK
  <2>2. QED BY <1>12, <1>13, <2>1, IdleKnows, OpsStep
<1>15. /\ EditorInv'
       /\ editor' \in [Editors -> [seen : {0} \cup Versions, text : Docs,
                          status : {"new", "draft", "review", "approved", "superseded"}]]
  <2>1. versions'[p.v].doc \in Docs /\ (p.name \in {"create", "save"}) \in BOOLEAN
    BY <1>1, <1>4, <1>8
  <2>2. row'.current \in Nat /\ p.v <= row'.current /\ row.current <= row'.current
    BY <1>1, <1>3, <1>6
  <2>3. QED BY <1>1, <1>2, <1>6, <2>1, <2>2, LoadsShows
<1>16. TypeOK'
  BY <1>2, <1>5, <1>7, <1>8, <1>14, <1>15 DEF Inv, TypeOK, Ops, Names
<1>17. StoreInv'
  <2>1. RowInv'
    <3>1. row'.current # 0
      BY <1>1, <1>6
    <3>2. QED BY <1>6, <3>1 DEF RowInv, None
  <2>2. VersionsFollow'
    <3>1. ASSUME NEW v \in Versions PROVE versions'[v].doc # None <=> v <= row'.current
      <4>1. v \in Nat /\ (versions[v].doc # None <=> v <= row.current)
        BY SpecificationAssumption DEF Inv, StoreInv, VersionsFollow, Versions, Written
      <4>2. CASE v = p.v
        BY <1>1, <1>4, <1>6, <1>8, <4>1, <4>2
      <4>3. CASE v # p.v
        <5>1. v <= row'.current <=> v <= row.current
          BY <1>1, <1>3, <1>6, <4>1, <4>3
        <5>2. QED BY <1>8, <4>1, <4>3, <5>1
      <4>4. QED BY <4>2, <4>3
    <3>2. QED BY <3>1 DEF VersionsFollow, Written
  <2>3. ArtifactsKept'
    <3>1. ASSUME NEW v \in Versions, versions'[v].doc # None PROVE files'[v] = versions'[v].doc
      BY <1>1, <1>2, <1>4, <1>8, <3>1 DEF Inv, StoreInv, ArtifactsKept, Written
    <3>2. ASSUME NEW v \in Versions, files'[v] # None, versions'[v].doc = None
          PROVE  v \in lost' \/ \E f \in Editors : op'[f].v = v /\ op'[f].at \in {"check", "commit"}
      <4>1. v # p.v
        BY <1>1, <1>4, <1>8, <3>2
      <4>2. v \in lost \/ \E f \in Editors : op[f].v = v /\ op[f].at \in {"check", "commit"}
        BY <1>2, <1>8, <3>2, <4>1 DEF Inv, StoreInv, ArtifactsKept, Written
      <4>3. QED BY <1>2, <1>9, <4>1, <4>2 DEF p
    <3>3. QED BY <3>1, <3>2 DEF ArtifactsKept, Written
  <2>4. ApprovedIsReviewed'
    <3>1. ASSUME NEW v \in Versions, versions'[v].doc # None, versions'[v].approved
          PROVE  /\ versions'[v].doc \in Complete /\ v \in submitted'
                 /\ \A s \in choices' : s >= v
      <4>1. v # p.v
        BY <1>4, <1>8, <3>1
      <4>2. /\ versions[v].doc \in Complete /\ v \in submitted
            /\ \A s \in choices : s >= v
        BY <1>8, <3>1, <4>1 DEF Inv, StoreInv, ApprovedIsReviewed, Written
      <4>3. row.current >= v
        <5>1. v <= row.current
          BY <1>8, <3>1, <4>1 DEF Inv, StoreInv, VersionsFollow, Written
        <5>2. v \in Nat
          BY SpecificationAssumption DEF Versions
        <5>3. QED BY <1>1, <5>1, <5>2
      <4>4. QED BY <1>2, <1>7, <1>8, <4>1, <4>2, <4>3
    <3>2. QED BY <3>1 DEF ApprovedIsReviewed, Written
  <2>5. QED BY <2>1, <2>2, <2>3, <2>4 DEF StoreInv
<1>18. QED BY <1>14, <1>15, <1>16, <1>17 DEF Inv

-----------------------------------------------------------------------------
(* A step that changes the status, an approval or the choices, but neither  *)
(* the versions there are nor the artifacts.                               *)
Changes ==
  /\ row.status # None /\ row'.current = row.current
  /\ row'.status \in {"draft", "review", "approved", "superseded"}
  /\ row' \in [status : {None, "draft", "review", "approved", "superseded"},
               current : {0} \cup Versions]
  /\ row'.status = "review" => row.current \in submitted'
  /\ versions' \in [Versions -> Row \cup {Absent}]
  /\ \A v \in Versions : versions'[v].doc = versions[v].doc
  /\ \A v \in Versions : Written(v) /\ versions'[v].approved =>
       \/ versions[v].approved
       \/ /\ versions[v].doc \in Complete /\ v \in submitted'
          /\ \A source \in choices' : source >= v
  /\ choices' \subseteq choices
  /\ submitted \subseteq submitted' /\ submitted' \subseteq Versions
  /\ UNCHANGED <<files, lost>>

LEMMA StoreChanges ==
  ASSUME Inv, Changes
  PROVE  RowInv' /\ VersionsFollow' /\ ApprovedIsReviewed'
<1>1. RowInv'
  BY DEF Changes, Inv, StoreInv, RowInv, None
<1>2. VersionsFollow'
  BY DEF Changes, Inv, StoreInv, VersionsFollow, Written
<1>3. ASSUME NEW v \in Versions, versions'[v].doc # None, versions'[v].approved
      PROVE  /\ versions'[v].doc \in Complete /\ v \in submitted'
             /\ \A source \in choices' : source >= v
  <2>1. Written(v) /\ versions'[v].doc = versions[v].doc
    BY <1>3 DEF Changes, Written
  <2>2. CASE versions[v].approved
    BY <2>1, <2>2 DEF Changes, Inv, StoreInv, ApprovedIsReviewed
  <2>3. CASE ~versions[v].approved
    BY <1>3, <2>1, <2>3 DEF Changes
  <2>4. QED BY <2>2, <2>3
<1>4. QED BY <1>1, <1>2, <1>3 DEF ApprovedIsReviewed, Written

LEMMA ChangeStep ==
  ASSUME Inv, NEW e \in Editors, NEW o \in Ops, op' = [op EXCEPT ![e] = o], Changes,
         o.at \notin Holding, op[e].at \notin Holding,
         Named(o), Knows(o, row'), Approves(o, versions', choices', submitted'),
         o.name # "create",
         editor' \in [Editors -> [seen : {0} \cup Versions, text : Docs,
                        status : {"new", "draft", "review", "approved", "superseded"}]],
         EditorInv'
  PROVE  Inv'
<1>1. \A f \in Editors : op[f].name # "create"
  BY Known DEF Changes, Knows
<1>2. \A f \in Editors : op[f].at \in Holding =>
         op[f].v \in Versions /\ versions[op[f].v].doc = None
  BY Held DEF Making, Written
<1>3. Moves(e, o)
  BY DEF Moves, HasWritten
<1>4. Undisturbed(e)
  <2>1. row.current >= row.current
    BY Known
  <2>2. row'.status # None
    BY DEF Changes, None
  <2>3. QED BY <1>1, <1>2, <2>1, <2>2 DEF Undisturbed, Changes
<1>5. op' \in [Editors -> Ops] /\ OpInv' /\ Alone'
  <2>1. row'.current \in {0} \cup Versions /\ choices' \subseteq Versions
    BY DEF Inv, TypeOK, Changes
  <2>2. QED BY <1>3, <1>4, <2>1, OpsStep
<1>6. TypeOK'
  BY <1>5 DEF Inv, TypeOK, Ops, Names, Changes
<1>7. ArtifactsKept'
  <2>1. \A f \in Editors : op[f].at \in Holding => op'[f] = op[f]
    BY Known
  <2>2. QED BY <2>1 DEF Changes, Inv, StoreInv, ArtifactsKept, Written, Holding
<1>8. QED BY <1>5, <1>6, <1>7, StoreChanges DEF Inv, StoreInv

(* An editor shows the current version again.                              *)
LEMMA ChangeShows ==
  ASSUME Inv, NEW e \in Editors, Changes, NEW keeps \in BOOLEAN,
         NEW v \in Versions, v <= row.current, Loads(e, v, keeps)
  PROVE  /\ editor' \in [Editors -> [seen : {0} \cup Versions, text : Docs,
                          status : {"new", "draft", "review", "approved", "superseded"}]]
         /\ EditorInv'
<1>1. versions'[v].doc \in Docs
  BY DEF Changes, Inv, TypeOK, StoreInv, VersionsFollow, Written, Row, Absent
<1>2. /\ row'.status \in {"draft", "review", "approved", "superseded"}
      /\ row'.current \in Nat /\ v <= row'.current
  BY Known DEF Changes
<1>3. row.current <= row'.current
  <2>1. row.current <= row.current
    BY Known
  <2>2. QED BY <2>1 DEF Changes
<1>4. QED BY <1>1, <1>2, <1>3, LoadsShows

(* The choices another editor has known open.                              *)
LEMMA ResolveStep ==
  ASSUME Inv, NEW e \in Editors, Resolve(e)
  PROVE  Inv'
<1>1. /\ op[e] \in Ops /\ op[e].at = "end" /\ op[e].name = None
      /\ op' = [op EXCEPT ![e] = op[e]] /\ op' = op
      /\ UNCHANGED <<row, versions, files, submitted, lost>> /\ choices' \subseteq choices
      /\ Loads(e, row.current, TRUE)
  BY Known DEF Resolve, Busy, Named, Ops, history
<1>2. row.status # None /\ row.current \in Versions /\ row.current \in Nat
  <2>1. editor[e].seen # 0 /\ editor[e].seen <= row.current /\ editor[e].seen \in Nat
    BY SpecificationAssumption, Known DEF Resolve, Inv, EditorInv, Versions
  <2>2. row.current # 0
    BY <2>1, Known
  <2>3. QED BY <2>2, Known DEF Inv, StoreInv, RowInv
<1>3. Changes
  <2>1. row.status \in {"draft", "review", "approved", "superseded"}
    BY <1>2 DEF Inv, TypeOK
  <2>2. row.status = "review" => row.current \in submitted
    BY DEF Inv, StoreInv, RowInv
  <2>3. QED BY <1>1, <1>2, <2>1, <2>2 DEF Changes, Inv, TypeOK
<1>4. /\ editor' \in [Editors -> [seen : {0} \cup Versions, text : Docs,
                         status : {"new", "draft", "review", "approved", "superseded"}]]
      /\ EditorInv'
  <2>1. row.current <= row.current
    BY <1>2
  <2>2. QED BY <1>1, <1>2, <1>3, <2>1, ChangeShows
<1>5. /\ op[e].at \notin Holding /\ op[e].name # "create" /\ Named(op[e])
      /\ Knows(op[e], row') /\ Approves(op[e], versions', choices', submitted')
  BY <1>1, Known DEF Holding, None, Approves
<1>6. QED BY <1>1, <1>3, <1>4, <1>5, ChangeStep

(* Return, submission and approval write what they have checked.           *)
LEMMA ReviewStep ==
  ASSUME Inv, NEW e \in Editors, Returned(e) \/ Submitted(e) \/ Approved(e)
  PROVE  Inv'
<1> DEFINE p == op[e]
           n == [p EXCEPT !.at = "read", !.v = p.v]
<1>1. /\ p \in Ops /\ p.at \in {"return", "submit", "approve"} /\ p.at \notin Holding
      /\ p.v \in Versions /\ p.v <= row.current /\ Named(p) /\ Knows(p, row)
      /\ Approves(p, versions, choices, submitted)
  <2>1. p.at \in {"return", "submit", "approve"} /\ p.at \notin Holding
    BY DEF Returned, Submitted, Approved, At, Holding
  <2>2. p \in Ops /\ Named(p) /\ Knows(p, row) /\ Approves(p, versions, choices, submitted)
    BY Known
  <2> HIDE DEF p
  <2>3. p.v # 0 /\ p.v <= row.current
    BY <2>1, <2>2 DEF Knows
  <2>4. p.v \in Versions
    BY <2>2, <2>3 DEF Ops
  <2>5. QED BY <2>1, <2>2, <2>3, <2>4
<1>2. row.status # None /\ p.name # "create"
  <2> HIDE DEF p
  <2>1. p.name # "create" /\ p.name # None
    BY <1>1 DEF Named, Making, Holding
  <2>2. QED BY <1>1, <2>1 DEF Knows
<1>3. row.current \in Versions
  BY <1>2, Known
<1>4. Changes
  <2>1. CASE Returned(e)
    BY <1>2, <2>1 DEF Changes, Returned, Inv, TypeOK, history
  <2>2. CASE Submitted(e)
    BY <1>2, <1>3, <2>2 DEF Changes, Submitted, Inv, TypeOK
  <2>3. CASE Approved(e)
    <3>1. p.at = "approve"
      BY <2>3 DEF Approved, At
    <3> HIDE DEF p
    <3>2. /\ p.v \in submitted /\ versions[p.v].doc \in Complete
          /\ \A source \in choices : source >= p.v
      BY <1>1, <3>1 DEF Approves
    <3>3. /\ versions' = [versions EXCEPT ![p.v].approved = TRUE]
          /\ row' = [row EXCEPT !.status = "approved"]
          /\ UNCHANGED <<choices, files, submitted, lost>>
      BY <2>3 DEF Approved, history, p
    <3>4. versions[p.v] \in Row
      <4>1. versions[p.v].doc # None /\ versions[p.v] \in Row \cup {Absent}
        BY <1>1, <3>2, SpecificationAssumption DEF Inv, TypeOK, None
      <4>2. QED BY <4>1 DEF Absent
    <3>5. [versions[p.v] EXCEPT !.approved = TRUE] \in Row
      BY <3>4 DEF Row
    <3>6. /\ versions' \in [Versions -> Row \cup {Absent}]
          /\ \A v \in Versions : v # p.v => versions'[v] = versions[v]
          /\ versions'[p.v].doc = versions[p.v].doc
      BY <1>1, <3>3, <3>4, <3>5 DEF Inv, TypeOK, Row
    <3>7. \A v \in Versions : versions'[v].doc = versions[v].doc
      BY <3>6
    <3>8. /\ row'.status = "approved" /\ row'.current = row.current
          /\ row' \in [status : {None, "draft", "review", "approved", "superseded"},
                       current : {0} \cup Versions]
      BY <3>3 DEF Inv, TypeOK
    <3>9. submitted \subseteq Versions
      BY DEF Inv, TypeOK
    <3>10. QED BY <1>2, <3>2, <3>3, <3>6, <3>7, <3>8, <3>9 DEF Changes
  <2>4. QED BY <2>1, <2>2, <2>3
<1>5. CASE Returned(e) /\ op[e].name = "save" /\ Goto(e, "read") /\ UNCHANGED editor
  <2>1. /\ op' = [op EXCEPT ![e] = n] /\ UNCHANGED editor
        /\ p.name = "save" /\ p.choice = None /\ p.doc \in Docs
    <3>1. p.at = "return" /\ p.name = "save" /\ UNCHANGED editor
      BY <1>5 DEF Returned, At
    <3>2. op' = [op EXCEPT ![e] = n]
      BY <1>5 DEF Goto, Goes
    <3> HIDE DEF p, n
    <3>3. p.choice = None /\ p.doc \in Docs
      BY <1>1, <3>1 DEF Named, Making, Holding
    <3>4. QED BY <3>1, <3>2, <3>3
  <2>2. /\ n \in Ops /\ n.at = "read" /\ n.v = p.v
        /\ n.name = p.name /\ n.doc = p.doc /\ n.choice = p.choice
    <3>1. "read" \in Places
      BY DEF Places
    <3> HIDE DEF p
    <3>2. QED BY <1>1, <3>1 DEF Ops
  <2>3. op[e].at \notin Holding
    BY <1>1
  <2> HIDE DEF p, n
  <2>4. Named(n) /\ n.at \notin Holding /\ n.name # "create"
    BY <2>1, <2>2 DEF Named, Making, Holding, None
  <2>5. Knows(n, row') /\ Approves(n, versions', choices', submitted')
    BY <1>4, <2>1, <2>2 DEF Knows, Approves, Changes, None
  <2>6. /\ editor' \in [Editors -> [seen : {0} \cup Versions, text : Docs,
                           status : {"new", "draft", "review", "approved", "superseded"}]]
        /\ EditorInv'
    BY <1>4, <2>1 DEF Inv, TypeOK, EditorInv, Changes
  <2>7. QED BY <1>4, <2>1, <2>2, <2>3, <2>4, <2>5, <2>6, ChangeStep
<1>6. CASE Fail(e) /\ Loads(e, p.v, FALSE)
  <2>1. /\ editor' \in [Editors -> [seen : {0} \cup Versions, text : Docs,
                           status : {"new", "draft", "review", "approved", "superseded"}]]
        /\ EditorInv'
    BY <1>1, <1>4, <1>6, ChangeShows
  <2>2. op[e].at \notin Holding /\ op' = [op EXCEPT ![e] = Idle]
    BY <1>1, <1>6 DEF Fail
  <2>3. Idle.at \notin Holding /\ Idle.name # "create"
    BY IdleKnows DEF Holding, None
  <2>4. QED BY <1>4, <2>1, <2>2, <2>3, IdleKnows, ChangeStep
<1>7. QED BY <1>5, <1>6 DEF Returned, Submitted, Approved

LEMMA SupersedeStep ==
  ASSUME Inv, Supersede
  PROVE  Inv'
<1>1. /\ row.status = "approved" /\ row' = [row EXCEPT !.status = "superseded"]
      /\ UNCHANGED <<versions, choices, files, editor, op, submitted, lost>>
  BY DEF Supersede, history
<1>2. /\ row'.status = "superseded" /\ row'.current = row.current
      /\ row' \in [status : {None, "draft", "review", "approved", "superseded"},
                   current : {0} \cup Versions]
  BY <1>1 DEF Inv, TypeOK
<1>3. Changes
  BY <1>1, <1>2 DEF Changes, Inv, TypeOK, None
<1>4. StoreInv'
  BY <1>1, <1>3, StoreChanges DEF Inv, StoreInv, ArtifactsKept, Written
<1>5. OpInv' /\ Alone'
  <2>1. ASSUME NEW e \in Editors PROVE Knows(op[e], row')
    BY <1>1, <1>2, Known DEF Knows, None
  <2>2. QED BY <1>1, <2>1 DEF Inv, OpInv, Alone
<1>6. TypeOK' /\ EditorInv'
  BY <1>1, <1>2 DEF Inv, TypeOK, EditorInv
<1>7. QED BY <1>4, <1>5, <1>6 DEF Inv

-----------------------------------------------------------------------------
LEMMA InvStep ==
  ASSUME Inv, [Next]_vars
  PROVE  Inv'
<1>1. ASSUME NEW e \in Editors, Starting(e) PROVE Inv'
  BY <1>1, StartStep, RestStep, ResolveStep DEF Starting
<1>2. ASSUME NEW e \in Editors, Reviewing(e) PROVE Inv'
  BY <1>2, MayStep, ReviewStep DEF Reviewing
<1>3. ASSUME NEW e \in Editors, Writing(e) PROVE Inv'
  BY <1>3, AnalysisStep, ReadStep, WriteStep, CheckStep, CommitStep DEF Writing
<1>4. CASE UNCHANGED vars
  BY <1>4 DEF vars, stored, history, Inv, TypeOK, StoreInv, RowInv, VersionsFollow, ArtifactsKept,
              ApprovedIsReviewed, EditorInv, OpInv, Alone, Written
<1>5. QED BY <1>1, <1>2, <1>3, <1>4, DieStep, SupersedeStep DEF Next

LEMMA InvHolds == Spec => []Inv
BY InitInv, InvStep, PTL DEF Spec

(* Every variable keeps its type, for any editors, documents and bounds: no *)
(* editor shows, reviews or approves a version that does not exist.        *)
THEOREM TypeCorrect == Spec => []TypeOK
<1>1. Inv => TypeOK
  BY DEF Inv
<1>2. QED BY <1>1, InvHolds, PTL

(* A version keeps its artifact, and an artifact without a version has an   *)
(* owner or is that of a process that died (_write_immutable_artifact).    *)
THEOREM ArtifactsAreKept == Spec => []ArtifactsKept
<1>1. Inv => ArtifactsKept
  BY DEF Inv, StoreInv
<1>2. QED BY <1>1, InvHolds, PTL

(* However many editors race, the versions have no gap and no duplicate     *)
(* (revise, apply_analysis).                                               *)
THEOREM VersionsAreConsecutive == Spec => []VersionsFollow
<1>1. Inv => VersionsFollow
  BY DEF Inv, StoreInv
<1>2. QED BY <1>1, InvHolds, PTL

(* What is approved has been complete, submitted for review, and free of    *)
(* open choices, though approve checks it before its transaction.          *)
THEOREM ApprovalsAreReviewed == Spec => []ApprovedIsReviewed
<1>1. Inv => ApprovedIsReviewed
  BY DEF Inv, StoreInv
<1>2. QED BY <1>1, InvHolds, PTL

(* One editor at most is between the artifact and the commit of a version:  *)
(* the files serialise the writers, which the database does not.           *)
THEOREM WritersAreAlone == Spec => []Alone
<1>1. Inv => Alone
  BY DEF Inv
<1>2. QED BY <1>1, InvHolds, PTL

(* A version is neither changed nor withdrawn, and an approval stays.      *)
THEOREM VersionsStay == Spec => VersionsKept
<1>1. ASSUME Inv, [Next]_vars
      PROVE  \A v \in Versions : Written(v) =>
               /\ versions'[v].doc = versions[v].doc
               /\ versions[v].approved => versions'[v].approved
  <2>1. CASE UNCHANGED versions
    BY <2>1
  <2>2. ASSUME NEW e \in Editors, Approved(e)
        PROVE  \A v \in Versions : /\ versions'[v].doc = versions[v].doc
                                   /\ versions[v].approved => versions'[v].approved
    <3>1. versions' = [versions EXCEPT ![op[e].v].approved = TRUE] /\ op[e].v \in Versions
      <4>1. op[e].at = "approve"
        BY <2>2 DEF Approved, At
      <4>2. op[e].v # 0 /\ op[e].v \in {0} \cup Versions
        BY <1>1, <4>1, Known DEF Knows, Ops
      <4>3. QED BY <2>2, <4>2 DEF Approved
    <3>2. ASSUME NEW v \in Versions
          PROVE  /\ versions'[v].doc = versions[v].doc
                 /\ versions[v].approved => versions'[v].approved
      BY <1>1, <3>1, <3>2 DEF Inv, TypeOK, Row, Absent
    <3>3. QED BY <3>2
  <2>3. ASSUME NEW e \in Editors, Commit(e)
        PROVE  \A v \in Versions : Written(v) => versions'[v] = versions[v]
    <3>1. ~Written(op[e].v) /\ op[e].v \in Versions
      BY <1>1, <2>3, Held DEF Commit, At, Making, Holding
    <3>2. versions' = [versions EXCEPT ![op[e].v] =
             [doc |-> op[e].doc, approved |-> FALSE, by |-> op[e].name]]
      BY <2>3, <3>1 DEF Commit, Insert
    <3>3. QED BY <1>1, <3>1, <3>2 DEF Inv, TypeOK
  <2>4. ASSUME NEW e \in Editors, Starting(e) \/ Reviewing(e) \/ Writing(e) \/ Die(e)
        PROVE  UNCHANGED versions \/ Approved(e) \/ Commit(e)
    <3>1. CASE Starting(e)
      BY <3>1 DEF Starting, Type, Create, Save, Submit, Return, Approve, Analyse, Starts,
                  Reread, Resolve, stored
    <3>2. CASE Reviewing(e)
      BY <3>2 DEF Reviewing, MayReturn, Returned, MaySubmit, Submitted, MayApprove,
                  StillMayApprove, stored
    <3>3. CASE Writing(e)
      BY <3>3 DEF Writing, Ask, Answered, Choose, Read, WriteArtifact, Check, Unlink, stored
    <3>4. CASE Die(e)
      BY <3>4 DEF Die, stored
    <3>5. QED BY <2>4, <3>1, <3>2, <3>3, <3>4
  <2>5. CASE Supersede
    BY <2>1, <2>5 DEF Supersede
  <2>6. QED BY <1>1, <2>1, <2>2, <2>3, <2>4, <2>5 DEF Next, vars, stored
<1>2. QED BY <1>1, InvHolds, PTL DEF Spec, VersionsKept
=============================================================================
