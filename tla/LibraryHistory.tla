--------------------------- MODULE LibraryHistory ----------------------------
(***************************************************************************)
(* Hosts fetch envelopes from a provider, admit them with an asynchronous  *)
(* verifier, and use the admitted snapshots in commands on one document,   *)
(* each with its own stacks of inverses.  Fetching, the verifier's answer  *)
(* and the commands interleave.                                            *)
(***************************************************************************)
EXTENDS LibraryCommands

CONSTANTS Host,
          Plans,       \* what the provider offers, the hosts send, and the document they start with
          Instance,    \* instance ids
          Selections,  \* variant selections
          Overrides,   \* override maps an instance is inserted with
          Careless,    \* the inputs a careful host never sends, see Careful
          MaxHistory   \* bound: the entries of one host's stacks

(* A snapshot as its library published it. *)
Published(s) == s.body \in Body /\ s = Snapshot(Ref(s.ref.component, s.ref.version, s.body), s.body)

(* A stored document: records and maps, at most one selection and that of   *)
(* some axis, and published snapshots under their own references.           *)
IsDocument(d) ==
    /\ d = [instances |-> d.instances, registry |-> d.registry, locals |-> d.locals]
    /\ d.instances \in [DOMAIN d.instances -> Range(d.instances)]
    /\ d.registry \in [DOMAIN d.registry -> Range(d.registry)]
    /\ \A x \in Range(d.instances) :
         /\ x = [source |-> x.source, overrides |-> x.overrides, selection |-> x.selection]
         /\ \A s, t \in x.selection : s = t /\ DOMAIN s # {}
    /\ \A r \in DOMAIN d.registry : Published(d.registry[r]) /\ d.registry[r].ref = r

ASSUME HistoryAssumption ==
    \A p \in Plans :
      /\ IsDocument(p.doc)
      /\ p.offers \subseteq {"insert", "update", "swap", "set-variant", "collect", "recover"}
      /\ \A s \in p.admitted : Published(s)
      /\ \A e \in p.envelopes :
           /\ e.body \in Body
           /\ e.ref = [component |-> e.ref.component, version |-> e.ref.version, integrity |-> e.ref.integrity]

VARIABLES plan,      \* the element of Plans this behaviour follows
          doc,       \* the document
          admission, \* envelope -> where its admission stands
          admitted,  \* the branded snapshots
          minted,    \* instance ids ever used
          undo, redo,    \* host -> inverses, newest first
          past, future   \* history variables of one host: the versions before doc, and the undone ones

vars == <<plan, doc, admission, admitted, minted, undo, redo, past, future>>

editVars == <<doc, minted, undo, redo, past, future>>

Init ==
    /\ plan \in Plans
    /\ doc = plan.doc
    /\ admission = [e \in plan.envelopes |-> "idle"]
    /\ admitted = plan.admitted
    /\ minted = DOMAIN plan.doc.instances
    /\ undo = [h \in Host |-> <<>>]
    /\ redo = [h \in Host |-> <<>>]
    /\ past = <<>>
    /\ future = <<>>

-----------------------------------------------------------------------------
(* Admission: the checks before the await run at once against the document  *)
(* of that moment, or against none; the verifier answers later.             *)

Admit(e) ==
    /\ admission[e] = "idle"
    /\ \E registry \in {Nothing, {doc.registry}} : \E pending \in {{}, admitted} :
         admission' = [admission EXCEPT ![e] = IF Admissible(e, registry, pending) THEN "verifying"
                                               ELSE "refused"]
    /\ UNCHANGED <<plan, admitted>>
    /\ UNCHANGED editVars

(* The verifier settles its promise: it compares the digests, or could not. *)
Settle(e) ==
    /\ admission[e] = "verifying"
    /\ \E outcome \in {"resolved", "rejected"} : admission' = [admission EXCEPT ![e] = outcome]
    /\ UNCHANGED <<plan, admitted>>
    /\ UNCHANGED editVars

(* The continuation of the await; only what verified is branded. *)

Resume(e) ==
    LET s == Snapshot(e.ref, e.body)
    IN  /\ admission[e] = "resolved"
        /\ admission' = [admission EXCEPT ![e] = IF Verifies(s) THEN "admitted" ELSE "refused"]
        /\ admitted' = IF Verifies(s) THEN admitted \cup {s} ELSE admitted
        /\ UNCHANGED plan
        /\ UNCHANGED editVars

(* The catch: a rejected promise is a refusal of its own. *)
Report_Unhandled(e) ==
    /\ admission[e] = "rejected"
    /\ UNCHANGED vars

Report(e) ==
    /\ admission[e] = "rejected"
    /\ admission' = [admission EXCEPT ![e] = "refused"]
    /\ UNCHANGED <<plan, admitted>>
    /\ UNCHANGED editVars

-----------------------------------------------------------------------------
(* What a host sends.                                                       *)

Offers(t, d) ==
    CASE t = "insert" -> {InsertC(i, s, deps, o) : i \in Instance \ minted, s \in admitted,
                                                   deps \in {{}, admitted}, o \in Overrides}
      [] t \in {"update", "swap"} ->
           {ChangeC(t, targets, from, s, deps) : targets \in SUBSET DOMAIN d.instances,
              from \in {d.instances[i].source : i \in DOMAIN d.instances}, s \in admitted, deps \in {{}, admitted}}
      [] t = "set-variant" -> {SetVariantC(i, s, b) : i \in DOMAIN d.instances, s \in Selections, b \in BOOLEAN}
      [] t = "collect" -> {CollectC(r) : r \in SUBSET DOMAIN d.registry}
      [] t = "recover" -> {RecoverC(d.instances[i].source, s, deps) : i \in DOMAIN d.instances, s \in admitted,
                                                                      deps \in {{}, admitted}}

(* The references that nothing stored satisfies. *)
Holes(d) == {r \in collectReferencedSnapshotKeys(d) : r \notin DOMAIN d.registry}

(* What a careful host does not send: a collection or a change of variant   *)
(* whose undo or redo is not exact, and, beside the closure of a candidate, *)
(* which alone is validated, a snapshot the document refers to without      *)
(* having it.  Naming one in Careless lets TLC find what happens.           *)
Careful(d, c) ==
    /\ "beside" \in Careless \/ ~("dependencies" \in DOMAIN c
                                   /\ \E s \in c.dependencies :
                                        s.ref \in Holes(d) \ Closure(c.candidate, {d.registry},
                                                                    {c.candidate} \cup c.dependencies).seen)
    /\ "retaining" \in Careless \/ ~(c.type = "collect" /\ previewCollectUnused(d, c.retained)
                                                           # previewCollectUnused(d, {}))
    /\ "discarding nothing" \in Careless \/ ~(c.type = "set-variant" /\ c.discard
                                                /\ d.instances[c.instance].overrides = Nothing)

-----------------------------------------------------------------------------

Submit(h) ==
    /\ Len(undo[h]) + Len(redo[h]) < MaxHistory
    /\ \E t \in plan.offers : \E c \in Offers(t, doc) :
         /\ Careful(doc, c)
         /\ \E r \in Apply(plan.denied, doc, c) :
              /\ doc' = r[1]
              /\ undo' = [undo EXCEPT ![h] = <<r[2]>> \o @]
    /\ redo' = [redo EXCEPT ![h] = <<>>]
    /\ minted' = minted \cup DOMAIN doc'.instances
    /\ past' = <<doc>> \o past
    /\ future' = <<>>
    /\ UNCHANGED <<plan, admission, admitted>>

Undo(h) ==
    /\ undo[h] # <<>>
    /\ \E r \in Apply(plan.denied, doc, Head(undo[h])) :
         /\ doc' = r[1]
         /\ redo' = [redo EXCEPT ![h] = <<r[2]>> \o @]
    /\ undo' = [undo EXCEPT ![h] = Tail(@)]
    /\ past' = Tail(past)
    /\ future' = <<doc>> \o future
    /\ UNCHANGED <<plan, admission, admitted, minted>>

Redo(h) ==
    /\ redo[h] # <<>>
    /\ \E r \in Apply(plan.denied, doc, Head(redo[h])) :
         /\ doc' = r[1]
         /\ undo' = [undo EXCEPT ![h] = <<r[2]>> \o @]
    /\ redo' = [redo EXCEPT ![h] = Tail(@)]
    /\ past' = <<doc>> \o past
    /\ future' = IF future = <<>> THEN <<>> ELSE Tail(future)
    /\ UNCHANGED <<plan, admission, admitted, minted>>

Next ==
    \/ \E e \in DOMAIN admission : Admit(e)
    \/ \E e \in DOMAIN admission : Settle(e)
    \/ \E e \in DOMAIN admission : Resume(e)
    \/ \E e \in DOMAIN admission : Report(e)
    \/ \E h \in Host : Submit(h) \/ Undo(h) \/ Redo(h)

Spec == Init /\ [][Next]_vars

Envelopes == UNION {p.envelopes : p \in Plans}

Settling(e) == e \in DOMAIN admission /\ Settle(e)
Resuming(e) == e \in DOMAIN admission /\ Resume(e)
Reporting(e) == e \in DOMAIN admission /\ Report(e)

(* A verifier settles its promise (CanvasIntegrityVerifier.verify resolves  *)
(* or rejects) and the event loop runs the continuation.  Nothing else is   *)
(* fair: a host may stop fetching and editing.                              *)
FairSpec ==
    Spec /\ \A e \in Envelopes : WF_vars(Settling(e)) /\ WF_vars(Resuming(e)) /\ WF_vars(Reporting(e))

-----------------------------------------------------------------------------
(* Properties. *)

(* What is stored or branded is what was published: every snapshot sits     *)
(* under its own reference and its content has the digest the reference     *)
(* names, whichever order envelopes, answers and commands came in.          *)
TypeOK ==
    /\ \A r \in DOMAIN doc.registry : doc.registry[r].ref = r
    /\ \A s \in admitted \cup Range(doc.registry) : s.ref = Ref(s.ref.component, s.ref.version, s.body)
    /\ \A e \in DOMAIN admission :
         admission[e] \in {"idle", "verifying", "resolved", "rejected", "admitted", "refused"}
    /\ DOMAIN doc.instances \subseteq minted

(* A closure is committed whole or not at all, and collection removes       *)
(* nothing that is still reached: no command leaves a reference without its *)
(* snapshot that had one before.  (Undoing a recovery does.)                *)
NoNewHole ==
    [][(\E h \in Host : redo'[h] = <<>> /\ Len(undo'[h]) > Len(undo[h])) => Holes(doc') \subseteq Holes(doc)]_vars

(* Undoing never takes away a snapshot another instance depends on. *)
UndoKeepsSnapshots ==
    [][(\E h \in Host : Len(undo'[h]) < Len(undo[h])) /\ Holes(doc) = {} => Holes(doc') = {}]_vars

(* The newest entry of each stack is accepted by the document it meets. *)
UndoApplies ==
    \A h \in Host : \A stack \in {undo[h], redo[h]} :
        stack # <<>> => Apply(plan.denied, doc, Head(stack)) # Refused

(* The stacks implement the line of versions: undoing an insert removes the *)
(* snapshots it added and no reused one, undoing a source change returns    *)
(* the overrides, and redoing a collection removes what it removed before.  *)
Line == INSTANCE LinearHistory WITH present <- doc

ExactHistory == Line!Spec

(* Every admission is decided, also when the verifier cannot check. *)
AdmissionSettles ==
    \A e \in Envelopes :
        (e \in DOMAIN admission /\ admission[e] = "verifying")
        ~> (e \in DOMAIN admission /\ admission[e] \in {"admitted", "refused"})

(* A source change keeps every override value: moved to a property of the   *)
(* new definition, or retained as an orphan.                                *)
OverridesKept ==
    [][\A i \in DOMAIN doc.instances \cap DOMAIN doc'.instances :
         doc'.instances[i].source # doc.instances[i].source
         => Range(Given(doc.instances[i].overrides, EmptyMap))
            \subseteq Range(Given(doc'.instances[i].overrides, EmptyMap))]_vars

=============================================================================
