------------------------------ MODULE WgConfig ------------------------------
(***************************************************************************)
(* The rewriting of a WireGuard config before it is saved. The program has *)
(* it twice: save_config_to_file of main.rs, which the config task calls,  *)
(* and process_wireguard_config of config.rs, for users of the library.    *)
(* Both go through the lines once, replace some, and insert others after   *)
(* the headers if they met none of their kind.                             *)
(*                                                                         *)
(* A config is a sequence of lines. A line is named for what the code's    *)
(* tests (trim, ==, starts_with, contains) and a reader of the file tell   *)
(* apart; "MTU=" and "Endpoint=" are settings spelled without blanks,      *)
(* which starts_with does not recognise, and "#local" is a comment with    *)
(* the text of the local endpoint in it.                                   *)
(***************************************************************************)
EXTENDS Integers, SequencesExt

CONSTANTS
    Configs,    \* the configs the callers supply
    MaxRounds   \* how often a config is saved

Headers   == {"[Interface]", "[Peer]"}
Mtu       == {"MTU", "MTU 1280"}
Ips       == {"AllowedIPs", "AllowedIPs VK"}
Endpoint  == {"Endpoint", "Endpoint local"}
Misspelt  == {"MTU=", "Endpoint=", "#local"}
Lines     == Headers \cup Mtu \cup Ips \cup Endpoint \cup Misspelt \cup {"other"}

ASSUME WgConfigAssumption == Configs \subseteq Seq(Lines) /\ MaxRounds \in Nat \ {0}

-----------------------------------------------------------------------------
(* The two functions. *)

\* Fault: a header does not end the section before it.
Section_First(lines, i) ==
    LET above == {j \in 1 .. i : lines[j] \in Headers}
    IN  IF above = {} THEN "none" ELSE lines[Min(above)]

\* in_interface, in_peer: the section that line i is in.
Section(lines, i) ==
    LET above == {j \in 1 .. i : lines[j] \in Headers}
    IN  IF above = {} THEN "none" ELSE lines[Max(above)]

\* has_interface_mtu, has_peer_allowed_ips, has_endpoint
Has(lines, section, kind) ==
    \E i \in DOMAIN lines : Section(lines, i) = section /\ lines[i] \in kind

\* Fault: the list of addresses is written without the end of its line.
Rewritten_NoNewline(lines, i, endpoint) ==
    IF Section(lines, i) = "[Peer]" /\ lines[i] \in Ips
    THEN <<"AllowedIPs VK and the next line">> ELSE <<lines[i]>>

\* What the pass writes for line i; endpoint stands for an endpoint of a peer.
Rewritten(lines, i, endpoint) ==
    CASE Section(lines, i) = "[Interface]" /\ lines[i] \in Mtu -> <<"MTU 1280">>
      [] Section(lines, i) = "[Peer]" /\ lines[i] \in Ips -> <<"AllowedIPs VK">>
      [] Section(lines, i) = "[Peer]" /\ lines[i] \in Endpoint -> endpoint
      [] OTHER -> <<lines[i]>>

Pass(lines, endpoint) == FlattenSeq([i \in DOMAIN lines |-> Rewritten(lines, i, endpoint)])

\* A second pass: the line goes behind every such header.
InsertAfterAll(lines, header, line) ==
    FlattenSeq([i \in DOMAIN lines |->
        IF lines[i] = header THEN <<header, line>> ELSE <<lines[i]>>])

\* Behind the first one only.
InsertAfterFirst(lines, header, line) ==
    FlattenSeq([i \in DOMAIN lines |->
        IF lines[i] = header /\ \A j \in 1 .. i - 1 : lines[j] /= header
        THEN <<header, line>> ELSE <<lines[i]>>])

\* Fault: the flag is not looked at.
WithMtu_Always(lines, passed) == InsertAfterAll(passed, "[Interface]", "MTU 1280")

WithMtu(lines, passed) ==
    IF Has(lines, "[Interface]", Mtu) THEN passed
    ELSE InsertAfterAll(passed, "[Interface]", "MTU 1280")

\* Fault: an endpoint is replaced, but none is inserted.
save_config_to_file_NoInsert(lines) == WithMtu(lines, Pass(lines, <<"Endpoint local">>))

\* main.rs
save_config_to_file(lines) ==
    LET passed == WithMtu(lines, Pass(lines, <<"Endpoint local">>))
    IN  IF Has(lines, "[Peer]", Endpoint) THEN passed
        ELSE InsertAfterFirst(passed, "[Peer]", "Endpoint local")

\* config.rs. Endpoints of peers are dropped. The local one is inserted unless its
\* text is found anywhere, be it in a comment.
process_wireguard_config(lines) ==
    LET passed == WithMtu(lines, Pass(lines, <<>>))
        full == IF Has(lines, "[Peer]", Ips) THEN passed
                ELSE InsertAfterAll(passed, "[Peer]", "AllowedIPs VK")
    IN  IF Contains(full, "Endpoint local") \/ Contains(full, "#local") THEN full
        ELSE InsertAfterAll(full, "[Peer]", "Endpoint local")

-----------------------------------------------------------------------------
(* Saving. *)

VARIABLES
    given,   \* the config to be saved
    file,    \* config.toml
    writer,  \* who wrote it: "main", "lib" or, if nobody has, "none"
    state,   \* "given", "saved" or, after an error of fs::write, "failed"
    round    \* how often a config was supplied

vars == <<given, file, writer, state, round>>

TypeOK ==
    /\ given \in Seq(Lines) /\ file \in Seq(Lines)
    /\ writer \in {"none", "main", "lib"}
    /\ state \in {"given", "saved", "failed"}
    /\ round \in 1 .. MaxRounds

Init ==
    /\ given \in Configs
    /\ file = <<>>
    /\ writer = "none"
    /\ state = "given"
    /\ round = 1

Written(who) ==
    IF who = "main" THEN save_config_to_file(given) ELSE process_wireguard_config(given)

\* fs::write succeeds.
Save(who) ==
    /\ state = "given"
    /\ state' = "saved"
    /\ file' = Written(who)
    /\ writer' = who
    /\ UNCHANGED <<given, round>>

\* fs::write fails: the file may have been emptied and written in part. main()'s
\* task logs it, and goes on.
SaveFails(who) ==
    /\ state = "given"
    /\ state' = "failed"
    /\ \/ UNCHANGED file
       \/ \E n \in 0 .. Len(Written(who)) : file' = SubSeq(Written(who), 1, n)
    /\ writer' = who
    /\ UNCHANGED <<given, round>>

\* The environment: a user of the library gives the saved file to one of the
\* functions again. Nothing in the program does so.
SaveAgain ==
    /\ state = "saved"
    /\ round < MaxRounds
    /\ round' = round + 1
    /\ state' = "given"
    /\ given' = file
    /\ UNCHANGED <<file, writer>>

Next ==
    \/ \E who \in {"main", "lib"} : Save(who) \/ SaveFails(who)
    \/ SaveAgain

Spec == Init /\ [][Next]_vars

-----------------------------------------------------------------------------
(* Properties. *)

\* The lines of a section, of whichever headers.
LinesIn(lines, section) == {lines[i] : i \in {j \in DOMAIN lines : Section(lines, j) = section}}

WellSpelt(lines) == \A i \in DOMAIN lines : lines[i] \notin Misspelt

Single(lines, header) == \E i \in DOMAIN lines : \A j \in DOMAIN lines : lines[j] = header <=> j = i

\* A config for one interface and one peer, with no endpoint but the peer's.
Usual(lines) ==
    /\ WellSpelt(lines)
    /\ Single(lines, "[Interface]") /\ Single(lines, "[Peer]")
    /\ \A i \in DOMAIN lines : lines[i] \in Endpoint => Section(lines, i) = "[Peer]"

\* The saved config leads into the tunnel: its interface has no MTU but 1280, its
\* peer no endpoint but the local one, and each has one, however the settings were
\* ordered or repeated and wherever others of their name stand. With more peers,
\* too, no endpoint of the server's config is left, nor any MTU with more interfaces.
LeadsIntoTunnel ==
    state = "saved" /\ WellSpelt(given) =>
        /\ "Endpoint" \notin LinesIn(file, "[Peer]")
        /\ "MTU" \notin LinesIn(file, "[Interface]")
        /\ Usual(given) => /\ "Endpoint local" \in LinesIn(file, "[Peer]")
                           /\ "MTU 1280" \in LinesIn(file, "[Interface]")

\* The two functions were written apart from each other and insert in different
\* places. For a peer with AllowedIPs their files say the same of each section.
VariantsAgree ==
    Usual(given) /\ Has(given, "[Peer]", Ips) =>
        \A section \in {"none"} \cup Headers :
            LinesIn(save_config_to_file(given), section)
                = LinesIn(process_wireguard_config(given), section)

\* To save what has been saved adds nothing, however the config is spelt: inserted
\* lines do not pile up.
SavedAgainUnchanged ==
    [][state = "given" /\ state' = "saved" /\ round > 1 /\ writer' = writer
        => file' = file]_vars

=============================================================================
