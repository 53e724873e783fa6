--------------------------- MODULE Specification ---------------------------
(***************************************************************************)
(* The versions of one formal specification (specifications.py,            *)
(* elicitation.py) and the editors that work on it (specification_gui.py). *)
(* Every dashboard has an editor of its own: it shows the version it has   *)
(* loaded last, its text may differ from it, and it runs one operation at  *)
(* a time in the background.                                               *)
(*                                                                         *)
(* What db.transaction brackets is not one step: sqlite3 begins the        *)
(* transaction with its first write, so the rows an operation checks may   *)
(* have changed by the time it writes.  An operation is therefore divided  *)
(* at each of its queries, at the artifact it writes, and at its commit.   *)
(*                                                                         *)
(* A document is what the checks tell apart: one that passes the approval  *)
(* checks, or one that does not.  Left out are latest.json, which nothing   *)
(* reads, the choices that do not block an approval, and what an editor    *)
(* knows of those that do: the service checks them itself.                 *)
(***************************************************************************)
EXTENDS Naturals, FiniteSets, TLC

CONSTANTS
  Editors,     \* the dashboards that show the specification
  Docs,        \* structurally valid documents
  Complete,    \* those of them that validate_for_approval accepts
  MaxVersion,  \* bound: versions
  MaxDeaths    \* bound: dashboards killed while they write a version

ASSUME SpecificationAssumption ==
  /\ Complete \subseteq Docs /\ Docs # {} /\ "none" \notin Docs
  /\ MaxVersion \in Nat \ {0} /\ MaxDeaths \in Nat

VARIABLES
  row,        \* specifications: status and current_version
  versions,   \* specification_versions, with history: who made it, from what
  files,      \* the version artifacts
  choices,    \* unresolved blocking rows of specification_decisions
  editor,     \* SpecificationEditor: snapshot, text, and the choices it knows
  op,         \* the operation each editor runs
  submitted,  \* history: the versions that have been in review
  lost        \* history: the versions whose writer died before its commit

stored == <<row, versions, choices>>
history == <<submitted, lost>>
vars == <<stored, files, editor, op, history>>

None == "none"
Versions == 1 .. MaxVersion

Absent == [doc |-> None, approved |-> FALSE, by |-> None]
Idle == [name |-> None, at |-> "end", v |-> 0, doc |-> None, choice |-> None]

(* A new editor shows the goal as a draft that has not been saved.         *)
NewEditor == [seen |-> 0, status |-> "new", text |-> CHOOSE d \in Docs : TRUE]

Init ==
  /\ row = [status |-> None, current |-> 0]
  /\ versions = [v \in Versions |-> Absent]
  /\ files = [v \in Versions |-> None]
  /\ choices = {}
  /\ editor = [e \in Editors |-> NewEditor]
  /\ op = [e \in Editors |-> Idle]
  /\ submitted = {} /\ lost = {}

(* A definition X_how is X with one plausible mistake in it: it is used     *)
(* nowhere, and a run that checks a property tells it from X.              *)

Busy(e) == op[e].name # None
At(e, place) == op[e].at = place

(* The steps of an operation *)
Goes(e, place, v) == op' = [op EXCEPT ![e] = [@ EXCEPT !.at = place, !.v = v]]
Goto(e, place) == Goes(e, place, op[e].v)
Fail(e) == op' = [op EXCEPT ![e] = Idle]

Written(v) == versions[v].doc # None
Unresolved_source(v) == v \in choices
Unresolved(v) == \E source \in choices : source <= v

Dirty(e) ==   \* _has_unsaved_edits
  editor[e].seen = 0 \/ editor[e].text # versions[editor[e].seen].doc

-----------------------------------------------------------------------------
(* The buttons, as _update_actions enables them.                           *)

Starts(e, name, place, v, doc) ==
  /\ ~Busy(e)
  /\ op' = [op EXCEPT ![e] =
       [name |-> name, at |-> place, v |-> v, doc |-> doc, choice |-> None]]
  /\ UNCHANGED <<stored, files, editor, history>>

(* What is typed while an operation runs stays if that is a save, as if it  *)
(* were typed afterwards, and is lost otherwise.                           *)
Type(e) ==
  /\ ~Busy(e)
  /\ \E d \in Docs \ {editor[e].text} : editor' = [editor EXCEPT ![e].text = d]
  /\ UNCHANGED <<stored, files, op, history>>

Create(e) ==
  /\ row.status = None /\ editor[e].seen = 0
  /\ \A f \in Editors : op[f].name # "create"   \* any other is of another specification
  /\ Starts(e, "create", "write", 1, editor[e].text)

(* A version under review goes back to draft first, unless it is the text.  *)
Save(e) ==
  /\ editor[e].status \in {"draft", "review", "approved"}
  /\ ~(editor[e].status = "review" /\ ~Dirty(e))
  /\ Starts(e, "save", IF editor[e].status = "review" THEN "may return" ELSE "read",
            0, editor[e].text)

Submit(e) ==
  editor[e].status = "draft" /\ ~Dirty(e) /\ Starts(e, "submit", "may submit", 0, None)

Return(e) == editor[e].status = "review" /\ Starts(e, "return", "may return", 0, None)

Approve(e) ==
  /\ editor[e].status = "review" /\ ~Dirty(e)
  /\ editor[e].text \in Complete
  /\ Starts(e, "approve", "may approve", 0, None)

Analyse(e) ==
  /\ editor[e].status = "draft" /\ ~Dirty(e)
  /\ Starts(e, "analyse", "ask", editor[e].seen, None)

(* What the editor shows once it has loaded version v.  A save leaves its   *)
(* text alone.                                                             *)
Loads(e, v, keeps) ==
  editor' = [editor EXCEPT ![e] =
    [seen |-> v, status |-> row'.status,
     text |-> IF keeps THEN @.text ELSE versions'[v].doc]]

(* Opening the specification, and rereading it *)
Reread(e) ==
  /\ ~Busy(e) /\ row.status # None
  /\ UNCHANGED <<stored, files, op, history>>
  /\ Loads(e, row.current, FALSE)

(* resolve_decision; the present version is loaded, but not its text.      *)
Resolve(e) ==
  /\ ~Busy(e) /\ editor[e].seen # 0
  /\ \E source \in choices : choices' = choices \ {source}
  /\ UNCHANGED <<row, versions, files, op, history>>
  /\ Loads(e, row.current, TRUE)

(* No editor calls it: a program that uses the service.                    *)
Supersede ==
  /\ row.status = "approved" /\ row' = [row EXCEPT !.status = "superseded"]
  /\ UNCHANGED <<versions, choices, files, editor, op, history>>

-----------------------------------------------------------------------------
(* Review: each checks the row, then writes it.                            *)

MayReturn(e) ==
  /\ At(e, "may return")
  /\ IF row.status = "review" THEN Goes(e, "return", row.current) ELSE Fail(e)
  /\ UNCHANGED <<stored, files, editor, history>>

Returned(e) ==
  /\ At(e, "return")
  /\ row' = [row EXCEPT !.status = "draft"]
  /\ UNCHANGED <<versions, choices, files, history>>
  /\ \/ op[e].name = "save" /\ Goto(e, "read") /\ UNCHANGED editor
     \/ op[e].name = "return" /\ Fail(e) /\ Loads(e, op[e].v, FALSE)

MaySubmit(e) ==
  /\ At(e, "may submit")
  /\ IF row.status = "draft" THEN Goes(e, "submit", row.current) ELSE Fail(e)
  /\ UNCHANGED <<stored, files, editor, history>>

Submitted(e) ==
  /\ At(e, "submit") /\ Fail(e)
  /\ row' = [row EXCEPT !.status = "review"]
  /\ submitted' = submitted \cup {row.current}
  /\ UNCHANGED <<versions, choices, files, lost>>
  /\ Loads(e, op[e].v, FALSE)

(* verify_integrity and validate_for_approval read what never changes.     *)
Valid(v) == files[v] = versions[v].doc /\ versions[v].doc \in Complete

MayApprove(e) ==
  /\ At(e, "may approve")
  /\ IF row.status = "review" /\ ~Unresolved(row.current) /\ Valid(row.current)
     THEN Goes(e, "recheck", row.current) ELSE Fail(e)
  /\ UNCHANGED <<stored, files, editor, history>>

StillMayApprove(e) ==
  /\ At(e, "recheck")
  /\ IF row = [status |-> "review", current |-> op[e].v] /\ ~Unresolved(op[e].v)
     THEN Goto(e, "approve") ELSE Fail(e)
  /\ UNCHANGED <<stored, files, editor, history>>

Approved_version(e) ==
  /\ At(e, "approve") /\ Fail(e)
  /\ versions' = [versions EXCEPT ![op[e].v].approved = TRUE]
  /\ row' = [status |-> "approved", current |-> op[e].v]
  /\ UNCHANGED <<choices, files, history>>
  /\ Loads(e, op[e].v, FALSE)

Approved(e) ==
  /\ At(e, "approve") /\ Fail(e)
  /\ versions' = [versions EXCEPT ![op[e].v].approved = TRUE]
  /\ row' = [row EXCEPT !.status = "approved"]
  /\ UNCHANGED <<choices, files, history>>
  /\ Loads(e, op[e].v, FALSE)

-----------------------------------------------------------------------------
(* An analysis: the provider answers about the current version, with a      *)
(* document that adds to it, and perhaps with a choice that blocks.  The    *)
(* user takes all of it, the choices only, or nothing.                      *)

Ask(e) ==
  /\ At(e, "ask")
  /\ IF op[e].v = row.current THEN Goto(e, "provider") ELSE Fail(e)
  /\ UNCHANGED <<stored, files, editor, history>>

Answered(e) ==   \* store_analysis, record_analysis_failure
  /\ At(e, "provider")
  /\ \/ \E d \in Docs, choice \in {None, "blocking"} :
          /\ op[e].v = row.current
          /\ op' = [op EXCEPT ![e] = [@ EXCEPT !.at = "dialog", !.doc = d, !.choice = choice]]
     \/ Fail(e)
  /\ UNCHANGED <<stored, files, editor, history>>

Choose(e) ==
  /\ At(e, "dialog")
  /\ \/ \E d \in {op[e].doc, versions[op[e].v].doc} :
          op' = [op EXCEPT ![e] = [@ EXCEPT !.name = "apply", !.at = "read", !.doc = d]]
     \/ Fail(e)
  /\ UNCHANGED <<stored, files, editor, history>>

-----------------------------------------------------------------------------
(* A new version.  `v' is the version an operation makes once it has read   *)
(* the row; until then it is the one an analysis was made from.             *)

Revisable == row.status \in {"draft", "approved"}

Fits(e) ==   \* what is checked again before the commit
  \/ op[e].name = "create"
  \/ op[e].name = "save" /\ row.current = op[e].v - 1 /\ Revisable
  \/ op[e].name = "apply" /\ row = [status |-> "draft", current |-> op[e].v - 1]

Read(e) ==
  /\ At(e, "read") /\ row.current < MaxVersion
  /\ \/ /\ op[e].name = "save" /\ Revisable
        /\ Goes(e, "write", row.current + 1)
     \/ /\ op[e].name = "apply" /\ row = [status |-> "draft", current |-> op[e].v]
        /\ Goes(e, "write", op[e].v + 1)
     \/ /\ op[e].name = "save" => ~Revisable
        /\ op[e].name = "apply" => row # [status |-> "draft", current |-> op[e].v]
        /\ Fail(e)
  /\ UNCHANGED <<stored, files, editor, history>>

WriteArtifact_removes(e) ==
  /\ At(e, "write")
  /\ IF files[op[e].v] = None
     THEN files' = [files EXCEPT ![op[e].v] = op[e].doc] /\ Goto(e, "check")
     ELSE files' = [files EXCEPT ![op[e].v] = None] /\ Fail(e)
  /\ UNCHANGED <<stored, editor, history>>

(* _write_immutable_artifact refuses to write what is there.               *)
WriteArtifact(e) ==
  /\ At(e, "write")
  /\ IF files[op[e].v] = None
     THEN files' = [files EXCEPT ![op[e].v] = op[e].doc] /\ Goto(e, "check")
     ELSE UNCHANGED files /\ Fail(e)
  /\ UNCHANGED <<stored, editor, history>>

Unlink(e) ==
  /\ files' = [files EXCEPT ![op[e].v] = None] /\ Fail(e)
  /\ UNCHANGED stored

Check(e) ==
  /\ At(e, "check")
  /\ IF Fits(e) THEN Goto(e, "commit") /\ UNCHANGED <<stored, files>> ELSE Unlink(e)
  /\ UNCHANGED <<editor, history>>

(* The primary key refuses a version that exists.                          *)
Insert(e) ==
  /\ ~Written(op[e].v) /\ Fail(e) /\ UNCHANGED files
  /\ versions' = [versions EXCEPT ![op[e].v] =
       [doc |-> op[e].doc, approved |-> FALSE, by |-> op[e].name]]
  /\ row' = [status |-> "draft", current |-> op[e].v]
  /\ choices' = choices \cup IF op[e].choice = None THEN {} ELSE {op[e].v - 1}
  /\ Loads(e, op[e].v, op[e].name \in {"create", "save"})

Commit(e) ==
  /\ At(e, "commit")
  /\ \/ Insert(e)
     \/ Written(op[e].v) /\ Unlink(e) /\ UNCHANGED editor
  /\ UNCHANGED history

-----------------------------------------------------------------------------
(* A dashboard is killed between its artifact and its commit, and opened   *)
(* again.  Anywhere else nothing remains of what it did.                   *)
Die(e) ==
  /\ op[e].at \in {"check", "commit"} /\ Cardinality(lost) < MaxDeaths
  /\ editor' = [editor EXCEPT ![e] = NewEditor] /\ Fail(e)
  /\ lost' = lost \cup {op[e].v}
  /\ UNCHANGED <<stored, files, submitted>>

Starting(e) ==
  \/ Type(e) \/ Create(e) \/ Save(e) \/ Submit(e) \/ Return(e) \/ Approve(e)
  \/ Analyse(e) \/ Reread(e) \/ Resolve(e)

Reviewing(e) ==
  \/ MayReturn(e) \/ Returned(e) \/ MaySubmit(e) \/ Submitted(e)
  \/ MayApprove(e) \/ StillMayApprove(e) \/ Approved(e)

Writing(e) ==
  \/ Ask(e) \/ Answered(e) \/ Choose(e)
  \/ Read(e) \/ WriteArtifact(e) \/ Check(e) \/ Commit(e)

Next ==
  \/ \E e \in Editors : Starting(e) \/ Reviewing(e) \/ Writing(e) \/ Die(e)
  \/ Supersede

Spec == Init /\ [][Next]_vars

Symmetry == Permutations(Editors)

-----------------------------------------------------------------------------
Places == {"end", "may return", "return", "may submit", "submit", "may approve",
           "recheck", "approve", "ask", "provider", "dialog",
           "read", "write", "check", "commit"}

Row == [doc : Docs, approved : BOOLEAN, by : {"create", "save", "apply"}]

(* Every variable has its type.                                            *)
TypeOK ==
  /\ row \in [status : {None, "draft", "review", "approved", "superseded"},
              current : {0} \cup Versions]
  /\ versions \in [Versions -> Row \cup {Absent}]
  /\ files \in [Versions -> Docs \cup {None}]
  /\ choices \subseteq Versions
  /\ editor \in [Editors -> [seen : {0} \cup Versions, text : Docs,
                             status : {"new", "draft", "review", "approved", "superseded"}]]
  /\ op \in [Editors -> [name : {None, "create", "save", "submit", "return", "approve",
                                  "analyse", "apply"},
                         at : Places, v : {0} \cup Versions, doc : Docs \cup {None},
                         choice : {None, "blocking"}]]
  /\ submitted \subseteq Versions /\ lost \subseteq Versions

(* A version that is in the database keeps its artifact, whatever becomes   *)
(* of those who tried to write the same version; and an artifact without a  *)
(* version is of an operation that will commit or remove it, or of a        *)
(* process that died in between.                                            *)
ArtifactsKept ==
  \A v \in Versions :
    /\ Written(v) => files[v] = versions[v].doc
    /\ files[v] # None /\ ~Written(v) =>
         v \in lost \/ \E e \in Editors : op[e].v = v /\ op[e].at \in {"check", "commit"}

(* However editors race, the versions are 1 .. current_version, without a   *)
(* gap and none twice: so the version an analysis makes follows the one it  *)
(* was made from, and no edit lies between them.                            *)
VersionsFollow == \A v \in Versions : Written(v) <=> v <= row.current

(* An approved version passed the approval checks and has been submitted   *)
(* for review, even if others return, revise or submit while it is          *)
(* approved; and no choice that led to it is still open.                    *)
ApprovedIsReviewed ==
  \A v \in Versions : Written(v) /\ versions[v].approved =>
    /\ versions[v].doc \in Complete /\ v \in submitted
    /\ \A source \in choices : source >= v

(* A version is neither changed nor withdrawn, and an approval stays.      *)
VersionsKept ==
  [][\A v \in Versions : Written(v) =>
       /\ versions'[v].doc = versions[v].doc
       /\ versions[v].approved => versions'[v].approved]_vars

=============================================================================
