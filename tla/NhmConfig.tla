----------------------------- MODULE NhmConfig -----------------------------
(***************************************************************************)
(* The conversion of the keys of node-health-monitor.conf, main.c.  A key  *)
(* is Absent when glib returns an error for it: there is no such key, its  *)
(* value is no integer, or it is beyond the range of a gint.               *)
(***************************************************************************)
EXTENDS Integers, Sequences

CONSTANT Absent

IntegerKey == {Absent} \cup Int

ListKey(names) == {Absent} \cup Seq(names)

\* Mutant: a negative value is taken as it is.
LoadUintUnchecked(key, defval) == IF key = Absent THEN defval ELSE key

\* nhm_main_config_load_uint()
LoadUint(key, defval) == IF key # Absent /\ key >= 0 THEN key ELSE defval

(***************************************************************************)
(* nhm_main_config_load_string_array().  The default is one empty string;  *)
(* a list that joins to nothing gives NULL, which is <<>> here, as all who *)
(* use the arrays take NULL for an array without strings.                  *)
(***************************************************************************)
LoadStringArray(key) == IF key = Absent THEN <<>> ELSE key

\* nhm_helper_str_in_strv()
StrInStrv(str, strv) == \E i \in DOMAIN strv : strv[i] = str
=============================================================================
