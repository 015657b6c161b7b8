---------------------------- MODULE ClientConfig ----------------------------
(***************************************************************************)
(* client/src/config.c: the settings that outlive the client.              *)
(*                                                                         *)
(* A line of the file is a section, an assignment or neither (a comment, a *)
(* blank line, a line without "=").  The names of sections and keys are    *)
(* those of the file.  A volume is counted in thousandths; an address is   *)
(* the text that was typed, of which what matters here is how many blanks  *)
(* it starts with and what follows them.                                   *)
(***************************************************************************)
EXTENDS Integers, Sequences, SequencesExt

CONSTANTS Volumes, Hosts, Ports

ASSUME VolumesAssumption == Volumes \subseteq Int

Configs == [MusicVolume : Volumes, SFXVolume : Volumes,
            MusicEnabled : BOOLEAN,
            ServerIP : [blanks : {0, 1}, host : Hosts], ServerPort : Ports,
            ShowFPS : BOOLEAN]

Section(name)      == [kind |-> "section", name |-> name]
Assign(key, value) == [kind |-> "assign", key |-> key, value |-> value]
Other              == [kind |-> "other"]

\* The section in which LoadConfig looks for a key; ShowFPS also in [Game].
SectionsOf ==
    [MusicVolume |-> {"Audio"}, SFXVolume |-> {"Audio"},
     MusicEnabled |-> {"Audio"},
     ServerIP |-> {"Network"}, ServerPort |-> {"Network"},
     ShowFPS |-> {"Game", "Display"}]

InitDefaultConfig ==
    [MusicVolume |-> 500, SFXVolume |-> 700, MusicEnabled |-> TRUE,
     ServerIP |-> [blanks |-> 0, host |-> "127.0.0.1"], ServerPort |-> 5001,
     ShowFPS |-> FALSE]

\* "%.2f"
Rounded(volume) == ((volume + 5) \div 10) * 10

\* Written with a blank line, a line that is no assignment, after a section.
SaveConfig(config) ==
    << Section("Audio"),
       Assign("MusicVolume", Rounded(config.MusicVolume)),
       Assign("SFXVolume", Rounded(config.SFXVolume)),
       Assign("MusicEnabled", config.MusicEnabled), Other,
       Section("Network"),
       Assign("ServerIP", config.ServerIP),
       Assign("ServerPort", config.ServerPort), Other,
       Section("Display"),
       Assign("ShowFPS", config.ShowFPS) >>

\* The blanks in front of a value are skipped.
Value(line) ==
    IF line.key = "ServerIP" THEN [line.value EXCEPT !.blanks = 0]
                             ELSE line.value

\* Faulty: the section of a key is not looked up as SaveConfig writes it.
ReadLineGameOnly(read, line) ==
    CASE line.kind = "section" -> [read EXCEPT !.section = line.name]
      [] line.kind = "assign"
           /\ line.key \in DOMAIN SectionsOf
           /\ read.section \in SectionsOf[line.key] \ {"Display"}
         -> [read EXCEPT !.config[line.key] = Value(line)]
      [] OTHER -> read

ReadLine(read, line) ==
    CASE line.kind = "section" -> [read EXCEPT !.section = line.name]
      [] line.kind = "assign"
           /\ line.key \in DOMAIN SectionsOf
           /\ read.section \in SectionsOf[line.key]
         -> [read EXCEPT !.config[line.key] = Value(line)]
      [] OTHER -> read

\* LoadConfig of a file that exists.  What the file does not set keeps the
\* value the variable had on the stack: garbage.
LoadConfig(lines, garbage) ==
    FoldLeft(ReadLine, [config |-> garbage, section |-> ""], lines).config

\* What is saved is what the next start loads, whatever was on the stack; all
\* that changes is that volumes are rounded and blanks in front of an address
\* are gone, and then no further start changes anything.
Reloads(config, garbage) ==
    LET once  == LoadConfig(SaveConfig(config), garbage)
        twice == LoadConfig(SaveConfig(once), garbage)
    IN  /\ twice = once
        /\ once = [config EXCEPT !.MusicVolume = Rounded(@),
                                 !.SFXVolume = Rounded(@),
                                 !.ServerIP.blanks = 0]
=============================================================================
