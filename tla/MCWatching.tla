------------------------------ MODULE MCWatching ------------------------------
(* An instance of Watching: files at two depths, claimed by a deep glob or by *)
(* a flat one, and an ignore file of every kind.                              *)
EXTENDS Watching

MCFiles == {[name |-> "a", ending |-> "json", depth |-> 1, hidden |-> FALSE],
            [name |-> "b", ending |-> "json", depth |-> 2, hidden |-> FALSE],
            [name |-> "c", ending |-> "jsonc", depth |-> 2, hidden |-> FALSE],
            [name |-> "d", ending |-> "json", depth |-> 1, hidden |-> TRUE]}

MCMatchers == {<<[ending |-> "json", kind |-> "deep"], [ending |-> "jsonc", kind |-> "flat"]>>,
               <<[ending |-> "toml", kind |-> "invalid"]>>}

Rule(kind, name, depth) == [kind |-> kind, name |-> name, depth |-> depth]

MCIgnoreFiles == {Rule("custom", ".mylspignore", 1), Rule("custom", ".mylspignore", 2),
                  Rule("custom", ".[x", 1), Rule(".ignore", ".ignore", 1),
                  Rule(".gitignore", ".gitignore", 0), Rule(".gitignore", ".gitignore", 1),
                  Rule(".gitignore", ".gitignore", 2), Rule("exclude", "exclude", 1),
                  Rule("git global", "ignore", 0), Rule("global", "global.ignore", 0)}
=============================================================================
