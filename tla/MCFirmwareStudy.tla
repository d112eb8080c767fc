-------------------------- MODULE MCFirmwareStudy --------------------------
(* Three functions; a program departs from the plainest one in at most two *)
(* ways.  Every distance of the scripts is divided by Scale = 4.           *)
EXTENDS FirmwareStudy

Plain(i) == [pro |-> "push", early |-> FALSE, link |-> IF i = N THEN "none" ELSE "bl",
             const |-> "absent", mask |-> "narrow"]
PlainProgram == [i \in 1 .. N |-> Plain(i)]
Changes == UNION {{<<i, "pro", v>> : v \in Prologues} \cup {<<i, "early", TRUE>>}
                  \cup {<<i, "const", v>> : v \in Looks} : i \in 1 .. N}
           \cup {<<i, "link", v>> : i \in 1 .. N - 1, v \in Links}
           \cup {<<1, "mask", "wide">>}
Changed(p, c) == [p EXCEPT ![c[1]] = [@ EXCEPT ![c[2]] = c[3]]]
OneOdd == {Changed(PlainProgram, c) : c \in Changes}
MCPrograms == OneOdd \cup {Changed(p, c) : <<p, c>> \in OneOdd \X Changes}
MCNode == {2 * k : k \in 0 .. 79}
MCDeepest == [s \in Walkers |-> CASE s = "t299q" -> 0 [] s = "t299z" -> 1 [] OTHER -> 3]
=============================================================================
