---------------------------- MODULE MCScheduler ----------------------------
(* Small instances of Scheduler for TLC: short cycles of slots.             *)
EXTENDS Scheduler, TLC

CONSTANTS daily_check, dunning_daily, lexware_sync, reload_obligations

Periods == [j \in Jobs |-> IF j = reload_obligations THEN 2 ELSE 3]
Offsets == [j \in Jobs |-> CASE j = dunning_daily -> 2 [] j = daily_check -> 1 [] OTHER -> 0]
Graces == [j \in Jobs |-> 1]

(* The file may reword an obligation and add one, or drop one and name a    *)
(* new one twice, or be broken.                                             *)
Says(x, y) == [a |-> x, b |-> y]
FileChoices == {[valid |-> TRUE,  texts |-> Says("old", "absent"), twice |-> {}],
                [valid |-> TRUE,  texts |-> Says("absent", "old"), twice |-> {"b"}],
                [valid |-> TRUE,  texts |-> Says("new", "old"),    twice |-> {}],
                [valid |-> FALSE, texts |-> Says("absent", "absent"), twice |-> {}]}
FirstFile == [valid |-> TRUE, texts |-> Says("old", "absent"), twice |-> {}]
=============================================================================
