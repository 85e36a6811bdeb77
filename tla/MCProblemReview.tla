--------------------------- MODULE MCProblemReview ---------------------------
(* The life of a problem, the page on which one is written and the settings   *)
(* of the site.  They share no state here, and a behaviour is one of one of   *)
(* them.  A standard type of problem admits any test case, a scoring type     *)
(* numbers only.                                                              *)
EXTENDS ProblemReview, ProblemDraft, SiteSettings, TLC

VARIABLE part

MCType == {"STANDARD", "SCORING"}
MCKind == {"text", "number"}
MCAccepts == [t \in MCType |-> IF t = "SCORING" THEN {"number"} ELSE MCKind]

\* Handler, Tab and Change are the same model values, so one permutation serves all.
Symmetry == Permutations(Handler)

ReviewRest == Init /\ ptype = "STANDARD"
DraftRest == ProblemDraftInit /\ ~admin /\ keys = 0
SettingsRest == SettingsInit /\ topic = "mail"

ProblemsInit ==
  \/ part = "review" /\ Init /\ DraftRest /\ SettingsRest
  \/ part = "draft" /\ ReviewRest /\ ProblemDraftInit /\ SettingsRest
  \/ part = "settings" /\ ReviewRest /\ DraftRest /\ SettingsInit

ProblemsNext ==
  \/ part = "review" /\ Next /\ UNCHANGED <<part, draftVars, settingsVars>>
  \/ part = "draft" /\ ProblemDraftNext /\ UNCHANGED <<part, vars, settingsVars>>
  \/ part = "settings" /\ SettingsNext /\ UNCHANGED <<part, vars, draftVars>>

ProblemsSpec == ProblemsInit /\ [][ProblemsNext]_<<part, vars, draftVars, settingsVars>>

\* The variables of the module a behaviour is of have their types; the others rest.
ProblemsTypeOK ==
  /\ part = "review" => TypeOK
  /\ part = "draft" => ProblemDraftTypeOK
  /\ part = "settings" => SettingsTypeOK
=============================================================================
