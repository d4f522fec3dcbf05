---- MODULE MCPlaybook ----
(* Three phases: the first expects two artifacts that one title can both match, the       *)
(* second expects none, the third one that a title of the first matches, too.             *)
EXTENDS Playbook, TLC

MCExpected == <<<<"plan", "copy">>, <<>>, <<"checklist">>>>
MCScore ==
    ("launch plan" :> ("plan" :> 100 @@ "copy" :> 50 @@ "checklist" :> 50)) @@
    ("launch copy" :> ("plan" :> 50 @@ "copy" :> 100 @@ "checklist" :> 0))
====
