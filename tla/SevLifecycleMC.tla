---------------------------- MODULE SevLifecycleMC ----------------------------
(***************************************************************************)
(* Small instances of SevLifecycle for TLC.                                *)
(***************************************************************************)
EXTENDS SevLifecycle, TLC

\* Requests that set one thing each; together they reach every field.
NoStamp    == [mitigatedAt |-> Nil, resolvedAt |-> Nil, completedAt |-> Nil]
NoPatch    == [category |-> Nil, sensitive |-> Nil,
               startedAt |-> Nil, detectedAt |-> Nil]
PlainDraft == [sensitive |-> FALSE, startedAt |-> Nil, detectedAt |-> Nil]

OneDraft   == {PlainDraft}
TimedDraft == {[PlainDraft EXCEPT !.startedAt = 0, !.detectedAt = 1]}

CategoryPatches == {[NoPatch EXCEPT !.category = c] : c \in Category}
TimePatches     == {[NoPatch EXCEPT !.startedAt = 1]}
\* Writes the row back with no field changed that this model keeps.
BarePatch       == {NoPatch}

MainPath     == Status \ {"investigating"}
BackAndForth == {"open", "investigating", "mitigated"}

OneStamp   == {NoStamp}
LateStamps == {NoStamp, [NoStamp EXCEPT !.resolvedAt = 2]}

\* Handlers are interchangeable.
Symmetry == Permutations(Request)

\* For the contract, which does not see the log nor what the other components are told: of
\* the log, guards read the length only, and nothing reads what was told.
View == <<sevs, pms, [s \in SevId |-> Len(history[s])], tokens, now, loc>>

===============================================================================
