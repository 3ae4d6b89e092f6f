----------------------------- MODULE MCLifecycle -----------------------------
(* Lifecycle on a small instance: the plugin finds no file or one of version *)
(* 1, and may be given an old copy or a file that is not a database.         *)
EXTENDS Lifecycle

CONSTANTS fx, opus, sonnet, later, other

MCKin == [m \in {opus, sonnet, later, other} |->
            IF m = other THEN {} ELSE {opus, sonnet}]

New == [NoFile EXCEPT !.ok = TRUE]
Old == [New EXCEPT !.version = 1, !.settings = [k \in Settings |-> "edited"],
                   !.prices[opus] = Edited]
Damaged == [NoFile EXCEPT !.version = 1]

MCFirstFiles == {New, Old}
MCUploads == {Old, Damaged}
=============================================================================
