------------------------------- MODULE TscKhz -------------------------------
(***************************************************************************)
(* How the programs learn the frequency of the TSC (get_tsc_khz in         *)
(* src/util.c): a file under /sys, then the kernel messages in the         *)
(* journal, then those of dmesg.  A source that does not exist or does not *)
(* tell the frequency leads to the next one; one that fails ends it all.   *)
(***************************************************************************)
EXTENDS Integers, Sequences

CONSTANT Frequencies  \* what a source may say, in kHz

ASSUME TscKhzAssumption == Frequencies \subseteq Nat \ {0}

VARIABLES tsc_khz,  \* *tsc_khz
          khzRet,   \* what get_tsc_khz returned
          asked     \* history: what the sources have answered so far

khzVars == <<tsc_khz, khzRet, asked>>

Sources == 3
Error   == -1

KhzInit ==
    /\ tsc_khz = 0
    /\ khzRet = "none"
    /\ asked = <<>>

\* Mutant: the next source is asked although the last one has answered.
AskOn ==
    /\ khzRet = "none"
    /\ Len(asked) < Sources
    /\ \E answer \in {0} \cup Frequencies :
         /\ tsc_khz' = answer
         /\ asked' = Append(asked, answer)
    /\ UNCHANGED khzRet

\* get_tsc_khz_proc: no such file, or its number, which is 0 for an empty one.
\* get_tsc_khz_cmd: no popen, no line or a short one, or its number.
Ask ==
    /\ khzRet = "none"
    /\ tsc_khz = 0
    /\ Len(asked) < Sources
    /\ \E answer \in {0} \cup Frequencies :
         /\ tsc_khz' = answer
         /\ asked' = Append(asked, answer)
    /\ UNCHANGED khzRet

\* open, read, getline, close or pclose fails, or the line is too long.  The
\* number may have been stored before.
AskFails ==
    /\ khzRet = "none"
    /\ tsc_khz = 0
    /\ Len(asked) < Sources
    /\ tsc_khz' \in {0} \cup Frequencies
    /\ asked' = Append(asked, Error)
    /\ khzRet' = "error"

\* "Couldn't determine TSC rate", or success
Answered ==
    /\ khzRet = "none"
    /\ tsc_khz # 0 \/ Len(asked) = Sources
    /\ khzRet' = IF tsc_khz = 0 THEN "error" ELSE "ok"
    /\ UNCHANGED <<tsc_khz, asked>>

GetTscKhz == Ask \/ AskFails \/ Answered

KhzTypeOK ==
    /\ tsc_khz \in {0} \cup Frequencies
    /\ khzRet \in {"none", "ok", "error"}
    /\ asked \in Seq({Error, 0} \cup Frequencies)
    /\ Len(asked) <= Sources

\* "(default: read from /sys/devices/system/cpu/cpu0/tsc_freq_khz if available
\* or journalctl --boot)" (src/osjitter.c:69-71): the frequency is that of the
\* first source that has one.  There is none only if a source failed, or none
\* of them has one.
FirstSourceWins ==
    /\ khzRet = "ok" =>
         \E k \in DOMAIN asked : /\ asked[k] = tsc_khz
                                 /\ tsc_khz # 0
                                 /\ \A l \in 1..(k - 1) : asked[l] = 0
    /\ khzRet = "error" =>
         \/ Error \in {asked[k] : k \in DOMAIN asked}
         \/ asked = <<0, 0, 0>>
=============================================================================
