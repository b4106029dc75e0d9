--------------------------- MODULE IdentifyCounter ---------------------------
(***************************************************************************)
(* The daily IDENTIFY counter that nvs_config.c keeps in flash: the NVS    *)
(* keys "id_count" and "id_day" as one record [count, day].  today is the  *)
(* day number the code computes, esp_timer_get_time() in days.             *)
(***************************************************************************)
EXTENDS Integers

IdentifyRecord == [count : Nat, day : Nat]

(* nvs_config_identify_count(): what the record is after the call; the     *)
(* value it returns is the new record's count.                             *)
Rolled(budget, today) ==
    IF budget.day # today THEN [count |-> 0, day |-> today] ELSE budget

(* nvs_config_increment_identify() *)
Bumped(budget, today) ==
    [Rolled(budget, today) EXCEPT !.count = @ + 1]
==============================================================================
