------------------------------ MODULE MCUpdater ------------------------------
EXTENDS Updater

Posix == [windows |-> FALSE, static |-> FALSE, platform |-> TRUE, named |-> TRUE,
          key |-> TRUE, boot |-> "rw", roWord |-> FALSE, daemon |-> TRUE]

MCDevices == {Posix, [Posix EXCEPT !.boot = "ro"], [Posix EXCEPT !.windows = TRUE],
              [Posix EXCEPT !.static = TRUE, !.roWord = TRUE],
              [Posix EXCEPT !.key = FALSE], [Posix EXCEPT !.daemon = FALSE]}

O(v, a) == [ver |-> v, asset |-> a]

Reply(s, d) == [b \in Bins |-> IF b = "sdk" THEN s ELSE d]

MCReplies == {Reply(O(11, "match"), O(0, "none")), Reply(O(20, "match"), O(11, "match")),
              Reply(O(12, "match"), O(12, "bad")), Reply(O(10, "none"), O(10, "match"))}
==============================================================================
