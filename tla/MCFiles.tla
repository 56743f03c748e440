------------------------------ MODULE MCFiles ------------------------------
(* The files between the daemon and its commands; see README.md for bounds. *)
EXTENDS StateFiles

MCNames == {"input", "tmp", "hold", "absence"}
MCFiles == 1..9
MCInodes(n) == CASE n \in {"input", "tmp"} -> 1..3
                 [] n = "hold"            -> 4..6
                 [] n = "absence"         -> 7..9
MCUses == {{"input"}, {"hold"}, {"absence"}}
MCOverrides == {1, 4}
MCLevelsFiles == {"quiet"}
MCContents == {<<>>} \cup {Level(l) : l \in Reports}
                \cup {Until(r) : r \in 0..Longest} \cup {Away(d) : d \in Overrides}
=============================================================================
