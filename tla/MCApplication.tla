--------------------------- MODULE MCApplication ---------------------------
(* Application for TLC. *)
EXTENDS Application, TLC

LOCAL Fields(names) == {[name |-> n, index |-> FALSE] : n \in names}
LOCAL File(n, names, system) == [name |-> n, fields |-> Fields(names), system |-> system]

\* Two files of one name, and the system input with and without fields.
MCDirs == {<<File("a", {"time", "x"}, FALSE), File("a", {"time", "y"}, FALSE)>>,
           <<File("a", {"time", "x"}, FALSE), File("s", {}, TRUE)>>,
           <<File("s", {"time", "x"}, TRUE)>>}

\* A field with an index.
MCIndexDirs == {<<[name |-> "a", system |-> FALSE,
                   fields |-> {[name |-> "time", index |-> TRUE],
                               [name |-> "x", index |-> FALSE]}]>>}
=============================================================================
