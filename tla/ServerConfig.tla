---------------------------- MODULE ServerConfig ----------------------------
(***************************************************************************)
(* server/src/config_parser.c: where the server listens.                   *)
(*                                                                         *)
(* A line of server.ini, trimmed, is a comment or empty, a section, or an  *)
(* assignment; a line without "=" is as good as a comment.  Of a value     *)
(* there is its text, the length of the text, and the number that strtol   *)
(* makes of it: that of its leading digits, else 0.                        *)
(***************************************************************************)
EXTENDS Integers, Sequences, SequencesExt, FiniteSetsExt

CONFIG_IP_MAX_LEN   == 46
CONFIG_PORT_MAX_LEN == 6

CONSTANTS Values,       \* what the file may set a field to
          MaxLines

ASSUME ValuesAssumption ==
    Values \subseteq [text : STRING, length : Nat, number : Int]

Comment            == [kind |-> "comment"]
Section(name)      == [kind |-> "section", name |-> name]
Assign(key, value) == [kind |-> "assign", key |-> key, value |-> value]

Lines == {Comment, Section("server"), Section("game")}
           \cup {Assign(k, v) : k \in {"ip", "port", "backlog"}, v \in Values}

config_init_defaults ==
    [ip |-> "0.0.0.0", port |-> [text |-> "5001", cut |-> FALSE],
     backlog |-> 2]

set_ip(config, value) ==
    IF 0 < value.length /\ value.length < CONFIG_IP_MAX_LEN
    THEN [config EXCEPT !.ip = value.text] ELSE config

\* The text is copied, as far as it fits, and not the number.
set_port(config, value) ==
    IF 0 < value.number /\ value.number <= 65535
    THEN [config EXCEPT !.port =
            [text |-> value.text, cut |-> value.length >= CONFIG_PORT_MAX_LEN]]
    ELSE config

set_backlog(config, value) ==
    IF 0 < value.number /\ value.number <= 128
    THEN [config EXCEPT !.backlog = value.number] ELSE config

set(config, key, value) ==
    CASE key = "ip"      -> set_ip(config, value)
      [] key = "port"    -> set_port(config, value)
      [] key = "backlog" -> set_backlog(config, value)

\* Faulty: [server] goes on although another section has begun.
ReadLineSectionKept(read, line) ==
    CASE line = Section("server") -> [read EXCEPT !.in_server_section = TRUE]
      [] line.kind = "assign" /\ read.in_server_section ->
           [read EXCEPT !.config = set(@, line.key, line.value)]
      [] OTHER -> read

ReadLine(read, line) ==
    CASE line.kind = "section" ->
           [read EXCEPT !.in_server_section = line.name = "server"]
      [] line.kind = "assign" /\ read.in_server_section ->
           [read EXCEPT !.config = set(@, line.key, line.value)]
      [] OTHER -> read

config_load(file) ==
    FoldLeft(ReadLine,
             [config |-> config_init_defaults, in_server_section |-> FALSE],
             file).config

(***************************************************************************)
(* What server.ini says: the last section in front of a line is the one it *)
(* belongs to, and of the assignments of [server] to a key that can be     *)
(* taken the last one counts.                                              *)
(***************************************************************************)
InServer(file, i) ==
    \E j \in 1..(i - 1) :
        /\ file[j] = Section("server")
        /\ \A k \in (j + 1)..(i - 1) : file[k].kind # "section"

Acceptable(key, value) ==
    CASE key = "ip"      -> 1 <= value.length /\ value.length <= 45
      [] key = "port"    -> 1 <= value.number /\ value.number <= 65535
      [] key = "backlog" -> 1 <= value.number /\ value.number <= 128

Settings(file, key) ==
    {i \in DOMAIN file :
        /\ file[i].kind = "assign" /\ InServer(file, i)
        /\ file[i].key = key /\ Acceptable(key, file[i].value)}

Says(file, key, default, Field(_)) ==
    IF Settings(file, key) = {} THEN default
    ELSE Field(file[Max(Settings(file, key))].value)

Files == UNION {[1..n -> Lines] : n \in 0..MaxLines}

\* Each field has the last acceptable value that [server] sets it to, and else
\* its default.  Of a port the field keeps five characters.
AsWritten(config, file) ==
    /\ config.ip = Says(file, "ip", "0.0.0.0", LAMBDA v : v.text)
    /\ config.backlog = Says(file, "backlog", 2, LAMBDA v : v.number)
    /\ config.port = Says(file, "port", [text |-> "5001", cut |-> FALSE],
                          LAMBDA v : [text |-> v.text, cut |-> v.length > 5])
=============================================================================
