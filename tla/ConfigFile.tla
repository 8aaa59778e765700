------------------------------- MODULE ConfigFile -------------------------------
(***************************************************************************)
(* config.yaml: read when the program starts, edited line by line when the   *)
(* Web UI changes a setting (configuration/config_persistence.go,            *)
(* configuration/config.go).  The supervisor runs one edit at a time.        *)
(*                                                                         *)
(* A line is its indentation (in steps of two spaces), what it is, its key   *)
(* and value, whether a comment follows the value and whether it ends with   *)
(* a newline.  A list item has a value and no key.  The edits work on these   *)
(* lines without knowing YAML; Parses and Load say what the YAML library     *)
(* makes of the result, and the properties compare the two.                  *)
(*                                                                         *)
(* A write truncates the file and then fills it, so a full disk or the end   *)
(* of the process in between leaves a prefix, cut at the end of a line or      *)
(* anywhere within it.                                                       *)
(***************************************************************************)
EXTENDS SettingsPolicy, FiniteSetsExt

CONSTANTS
  Words,      \* what a key or a value may be: the program takes every string
  Texts,      \* files that were written before the program first read them
  Cuts,       \* bound: how many whole lines a cut write may leave
  MaxSaves,   \* bound: edits in a behaviour
  MaxFaults   \* bound: cut writes of a save and failed reads of the file

Kinds == {"key", "item", "comment", "blank", "garbled"}
Line  == [ind : Nat, kind : Kinds, key : Words, val : Words, note : BOOLEAN, nl : BOOLEAN]

(* The words that the program writes and those that the users here type.       *)
SectionWords == {"proxy", "webui", "storage", "decrypt_https"}
SettingWords ==
  {"port", "enable_remote_connection", "access_control", "mode", "networks", "output_proxy_uri",
   "add_windows_authentication", "no_proxy", "enable", "folder", "enabled", "cert_manager",
   "ca_cert_file", "mime_types", "max_size", "default_max_bytes"}
ValueWords == {"", "[]", "true", "false", "3128", "9000", "captures", "ca", "cut"} \cup Modes
TypedWords == {"http://gw", "10/8", ".corp", "text/*", "*/*", "0"} \cup Entries

(* strings.SplitAfter: all lines but the last end with a newline.             *)
IsText(lines) == lines \in Seq(Line) /\ \A i \in 1 .. Len(lines) - 1 : lines[i].nl

ASSUME ConfigFileAssumption ==
  /\ SectionWords \cup SettingWords \cup ValueWords \cup TypedWords \subseteq Words
  /\ \A text \in Texts : IsText(text)
  /\ Cuts \subseteq Nat
  /\ MaxSaves \in Nat
  /\ MaxFaults \in Nat

VARIABLES
  file,     \* the lines of config.yaml
  present,  \* does the file exist?
  original, \* history: the lines when the file was last complete and untouched by the program
  running,  \* is the program running?
  conf,     \* the settings the program uses
  writing,  \* the save being written, or Idle
  output,   \* the lines it writes
  want,     \* history: the settings as the user typed them, or found at the first start
  torn,     \* history: has a write been cut, or the default file not been written?
  saves, faults

vars == <<file, present, original, running, conf, writing, output, want, torn, saves, faults>>

-----------------------------------------------------------------------------
(* Lines *)

Key(ind, key, val)  == [ind |-> ind, kind |-> "key", key |-> key, val |-> val, note |-> FALSE, nl |-> TRUE]
Item(ind, val)      == [Key(ind, "", val) EXCEPT !.kind = "item"]
Comment(ind)        == [Key(ind, "", "") EXCEPT !.kind = "comment"]
BlankLine(ind)      == [Key(ind, "", "") EXCEPT !.kind = "blank"]
Noted(line)         == [line EXCEPT !.note = TRUE]

(* Blank lines and comments are passed over by every loop of the edits.      *)
HasContent(line) == line.kind \notin {"comment", "blank"}
Bare(line) == line.val = ""
IsHeader(line, section) ==
  line.kind = "key" /\ line.key = section /\ Bare(line) /\ ~line.note
IsKey(line, keys) == line.kind = "key" /\ line.key \in keys

Least(S, otherwise) == IF S = {} THEN otherwise ELSE Min(S)
Greatest(S, otherwise) == IF S = {} THEN otherwise ELSE Max(S)

(* Line numbers, as they follow each other.                                  *)
InOrder(numbers) ==
  LET ranked == {<<Cardinality({j \in numbers : j <= i}), i>> : i \in numbers}
  IN [k \in 1 .. Cardinality(numbers) |-> (CHOOSE p \in ranked : p[1] = k)[2]]

(* Where a section starts (0: nowhere; the code would follow a second line of  *)
(* that name within the section, which no layout here has) and the first line  *)
(* behind it.                                                                *)
HeaderOf(lines, section) ==
  Least({i \in DOMAIN lines : IsHeader(lines[i], section)}, 0)

EndOfBlock(lines, first, limit) ==
  Least({i \in first + 1 .. limit - 1 : HasContent(lines[i]) /\ lines[i].ind <= lines[first].ind}, limit)

SectionEnd(lines, first) == EndOfBlock(lines, first, Len(lines) + 1)

(* Lines are joined into a text: an unfinished line runs into the next one.  *)
Glue(first, second) ==
  CASE first.kind = "comment" -> [first EXCEPT !.nl = second.nl]
    [] first.kind = "blank"   -> [second EXCEPT !.ind = first.ind + second.ind]
    [] OTHER                  -> [first EXCEPT !.kind = "garbled", !.nl = second.nl]

Joined(lines, more) ==
  IF lines = <<>> \/ more = <<>> \/ Last(lines).nl THEN lines \o more
  ELSE Front(lines) \o <<Glue(Last(lines), Head(more))>> \o Tail(more)

(* What a write that is cut within a line may leave of it: the indentation, a    *)
(* part of the key or of a value that must be whole, a shorter value, no value, *)
(* or all but the newline.                                                   *)
CutValues(line) ==
  {"", line.val} \cup IF line.val \in {"", "true", "false", "[]"} THEN {} ELSE {"cut"}
Pieces(line) ==
  {[BlankLine(line.ind) EXCEPT !.nl = FALSE], [line EXCEPT !.nl = FALSE]} \cup
  IF ~HasContent(line) THEN {}
  ELSE {[line EXCEPT !.kind = "garbled", !.nl = FALSE]} \cup
       {[line EXCEPT !.val = val, !.note = FALSE, !.nl = FALSE] : val \in CutValues(line)}

(* What a write of these lines leaves that is cut after n of them.             *)
CutAfter(lines, n) ==
  {SubSeq(lines, 1, n) \o more : more \in {<<>>} \cup {<<piece>> : piece \in Pieces(lines[n + 1])}}
CutsOf(lines) == UNION {CutAfter(lines, n) : n \in {c \in Cuts : c < Len(lines)}}

-----------------------------------------------------------------------------
(* The edits.  Each returns the new lines, or a refusal. *)

Refused == [ok |-> FALSE, lines |-> <<>>]
Edited(lines) == [ok |-> TRUE, lines |-> lines]

(* persistStorageEnabled and persistDecryptHttpsEnabled rewrite the value of  *)
(* one line; the second only looks at direct children of the section.        *)
SetScalar(lines, section, key, direct, value) ==
  LET header == HeaderOf(lines, section)
      found  == {i \in header + 1 .. SectionEnd(lines, header) - 1 :
                   /\ IsKey(lines[i], {key})
                   /\ direct => lines[i].ind = lines[header].ind + 1}
  IN IF header = 0 \/ found = {} THEN Refused
     ELSE Edited([lines EXCEPT ![Min(found)].val = value])

(* Mutant: the lines below a removed key stay.                                *)
SkipKeyOnly(lines, first, limit) == first

(* skipYamlBlock: the last line that goes with a removed key.                *)
SkipBlock(lines, first, limit) == EndOfBlock(lines, first, limit) - 1

(* The lines of a section below its header with this key that stand directly in  *)
(* it.  At most one: the library refuses a file with two.                      *)
DirectChildren(lines, header, key) ==
  {i \in header + 1 .. SectionEnd(lines, header) - 1 :
     IsKey(lines[i], {key}) /\ lines[i].ind = lines[header].ind + 1}

(* Mutant: a comment above a removed key goes with it.                         *)
WithoutNote(lines, section, key) ==
  LET header == HeaderOf(lines, section)
      found  == DirectChildren(lines, header, key)
      first  == IF lines[Min(found) - 1].kind = "comment" THEN Min(found) - 1 ELSE Min(found)
      last   == SkipBlock(lines, Min(found), SectionEnd(lines, header))
  IN IF header = 0 \/ found = {} THEN lines
     ELSE SubSeq(lines, 1, first - 1) \o SubSeq(lines, last + 1, Len(lines))

(* The loop of the replacing edits, for one of the keys they replace: its line   *)
(* goes, with what is below it.                                              *)
Without(lines, section, key) ==
  LET header == HeaderOf(lines, section)
      found  == DirectChildren(lines, header, key)
      first  == Min(found)
      last   == SkipBlock(lines, first, SectionEnd(lines, header))
  IN IF header = 0 \/ found = {} THEN lines
     ELSE SubSeq(lines, 1, first - 1) \o SubSeq(lines, last + 1, Len(lines))

(* The rendered lines are added at the end of the section.                     *)
AddTo(lines, section, rendered) ==
  LET header == HeaderOf(lines, section)
      limit  == SectionEnd(lines, header)
  IN IF header = 0 THEN Refused
     ELSE Edited(Joined(SubSeq(lines, 1, limit - 1), rendered) \o SubSeq(lines, limit, Len(lines)))

WithoutUpstream(lines) ==
  Without(Without(Without(lines, "proxy", "output_proxy_uri"),
                  "proxy", "add_windows_authentication"), "proxy", "no_proxy")
WithoutAccess(lines, section) ==
  Without(Without(lines, section, "enable_remote_connection"), section, "access_control")
WithoutRules(lines) ==
  Without(Without(lines, "decrypt_https", "default_max_bytes"), "decrypt_https", "mime_types")

Items(ind, vals) == [i \in DOMAIN vals |-> Item(ind, vals[i])]

RenderUpstream(ind, s) ==
  <<Key(ind, "output_proxy_uri", s.uri), Key(ind, "add_windows_authentication", s.auth)>>
  \o IF s.noProxy = <<>> THEN <<Key(ind, "no_proxy", "[]")>>
     ELSE <<Key(ind, "no_proxy", "")>> \o Items(ind + 1, s.noProxy)

RenderAccess(ind, access) ==
  <<Key(ind, "access_control", ""), Key(ind + 1, "mode", access.mode)>>
  \o IF access.networks = <<>> THEN <<Key(ind + 1, "networks", "[]")>>
     ELSE <<Key(ind + 1, "networks", "")>> \o Items(ind + 2, access.networks)

RenderRule(ind, rule) ==
  <<Item(ind, rule.name)>> \o IF rule.size = "" THEN <<>> ELSE <<Key(ind + 1, "max_size", rule.size)>>

RenderRules(ind, s) ==
  (IF s.limit = "" THEN <<>> ELSE <<Key(ind, "default_max_bytes", s.limit)>>)
  \o <<Key(ind, "mime_types", "")>>
  \o FlattenSeq([i \in DOMAIN s.rules |-> RenderRule(ind + 1, s.rules[i])])

(* The Persist functions, by setting.                                        *)
EditStorage(lines, s)  == SetScalar(lines, "storage", "enable", FALSE, s.enabled)
EditDecrypt(lines, s)  == SetScalar(lines, "decrypt_https", "enabled", TRUE, s.enabled)
EditRules(lines, s)    == AddTo(WithoutRules(lines), "decrypt_https", RenderRules(1, s))
EditUpstream(lines, s) == AddTo(WithoutUpstream(lines), "proxy", RenderUpstream(1, s))

(* persistAccessControlSettings edits both sections, or none.                *)
EditAccess(lines, s) ==
  LET proxy == AddTo(WithoutAccess(lines, "proxy"), "proxy", RenderAccess(1, s.proxy))
      web   == AddTo(WithoutAccess(proxy.lines, "webui"), "webui", RenderAccess(1, s.webui))
  IN IF proxy.ok THEN web ELSE Refused

Edit(lines, s) ==
  CASE s.set = "storage"  -> EditStorage(lines, s)
    [] s.set = "decrypt"  -> EditDecrypt(lines, s)
    [] s.set = "rules"    -> EditRules(lines, s)
    [] s.set = "upstream" -> EditUpstream(lines, s)
    [] s.set = "access"   -> EditAccess(lines, s)

-----------------------------------------------------------------------------
(* What the YAML library makes of the lines.  An item may stand below its     *)
(* key at the same indentation, so it counts half a step deeper.             *)

Depth(line) == 2 * line.ind + IF line.kind = "item" THEN 1 ELSE 0

(* The line that each line belongs to (0: none).  SubSeq has TLC evaluate the   *)
(* function once.                                                            *)
Parent(lines, i) ==
  Greatest({j \in 1 .. i - 1 : HasContent(lines[j]) /\ Depth(lines[j]) < Depth(lines[i])}, 0)
Parents(lines) == SubSeq([i \in DOMAIN lines |-> Parent(lines, i)], 1, Len(lines))

Content(lines) == {i \in DOMAIN lines : HasContent(lines[i])}

Parses(lines) ==
  LET parent == Parents(lines)
  IN \A i \in Content(lines) :
       /\ lines[i].kind # "garbled"
       /\ \A j \in Content(lines) :
            j < i /\ parent[i] = parent[j] =>
              /\ Depth(lines[i]) = Depth(lines[j])
              /\ lines[i].kind = "key" => lines[i].key # lines[j].key
       /\ parent[i] # 0 =>
            LET above == lines[parent[i]]
            IN IF above.kind = "item" THEN lines[i].kind = "key" /\ lines[i].ind = above.ind + 1
               ELSE Bare(above)
       /\ parent[i] = 0 => lines[i].kind = "key"

(* The line below another one that a key leads to (0: none), the line that a      *)
(* section and a key lead to, and the items below a line.                       *)
At(lines, parent, above, key) ==
  Least({i \in DOMAIN lines : IsKey(lines[i], {key}) /\ parent[i] = above}, 0)
Child(lines, parent, above, key) == IF above = 0 THEN 0 ELSE At(lines, parent, above, key)
Field(lines, parent, section, key) == Child(lines, parent, At(lines, parent, 0, section), key)
ItemsBelow(lines, parent, i) ==
  IF i = 0 THEN <<>>
  ELSE InOrder({j \in DOMAIN lines : lines[j].kind = "item" /\ parent[j] = i})

Scalar(lines, i, zero) == IF i = 0 \/ Bare(lines[i]) THEN zero ELSE lines[i].val
Values(lines, items) == [k \in DOMAIN items |-> lines[items[k]].val]

LoadAccess(lines, parent, section) ==
  LET block == Field(lines, parent, section, "access_control")
      items == ItemsBelow(lines, parent, Child(lines, parent, block, "networks"))
      flag  == Field(lines, parent, section, "enable_remote_connection")
  IN NormalizeAccessControl(
       [mode     |-> Scalar(lines, Child(lines, parent, block, "mode"), ""),
        networks |-> Values(lines, items)],
       Scalar(lines, flag, "false") = "true")

LoadRules(lines, parent) ==
  LET items == ItemsBelow(lines, parent, Field(lines, parent, "decrypt_https", "mime_types"))
  IN [k \in DOMAIN items |->
        [name |-> lines[items[k]].val,
         size |-> Scalar(lines, Child(lines, parent, items[k], "max_size"), "")]]

(* readConfigurationFromPath: a key that is missing has the zero value.      *)
Load(lines) ==
  LET parent == Parents(lines)
      Value(section, key, zero) == Scalar(lines, Field(lines, parent, section, key), zero)
      hosts  == ItemsBelow(lines, parent, Field(lines, parent, "proxy", "no_proxy"))
  IN [uri     |-> Value("proxy", "output_proxy_uri", ""),
      auth    |-> Value("proxy", "add_windows_authentication", "false"),
      noProxy |-> Values(lines, hosts),
      proxy   |-> LoadAccess(lines, parent, "proxy"),
      webui   |-> LoadAccess(lines, parent, "webui"),
      storage |-> Value("storage", "enable", "false"),
      decrypt |-> Value("decrypt_https", "enabled", "false"),
      limit   |-> Value("decrypt_https", "default_max_bytes", ""),
      rules   |-> LoadRules(lines, parent)]

(* The settings after a save: what the supervisor puts into its stores.      *)
Apply(c, s) ==
  CASE s.set = "storage"  -> [c EXCEPT !.storage = s.enabled]
    [] s.set = "decrypt"  -> [c EXCEPT !.decrypt = s.enabled]
    [] s.set = "rules"    -> [c EXCEPT !.rules = s.rules, !.limit = s.limit]
    [] s.set = "upstream" -> [c EXCEPT !.uri = s.uri, !.auth = s.auth, !.noProxy = s.noProxy]
    [] s.set = "access"   -> [c EXCEPT !.proxy = s.proxy, !.webui = s.webui]

-----------------------------------------------------------------------------
(* Texts *)

(* yaml.Marshal of DefaultAppConfig.                                         *)
DefaultFile ==
  <<Key(0, "proxy", ""), Key(1, "port", "3128"), Key(1, "enable_remote_connection", "false"),
    Key(1, "access_control", ""), Key(2, "mode", "loopback"), Key(2, "networks", "[]"),
    Key(1, "output_proxy_uri", ""), Key(1, "add_windows_authentication", "false"),
    Key(1, "no_proxy", "[]"),
    Key(0, "webui", ""), Key(1, "port", "9000"), Key(1, "enable_remote_connection", "false"),
    Key(1, "access_control", ""), Key(2, "mode", "loopback"), Key(2, "networks", "[]"),
    Key(0, "storage", ""), Key(1, "enable", "false"), Key(1, "folder", "captures"),
    Key(0, "decrypt_https", ""), Key(1, "enabled", "false"),
    Key(1, "cert_manager", ""), Key(2, "ca_cert_file", "ca"),
    Key(1, "mime_types", "[]"), Key(1, "default_max_bytes", "")>>

(* Requests the Web UI's handlers let through (validated and normalized).    *)
Booleans == {"true", "false"}
AccessTyped ==
  {[mode |-> "loopback", networks |-> <<>>], [mode |-> "interfaces", networks |-> <<>>],
   [mode |-> "allowlist", networks |-> <<"one", "six", "mapped">>], [mode |-> "lan", networks |-> <<"one/32", "junk">>]}

SwitchRequests == [set : {"storage", "decrypt"}, enabled : Booleans]
RulesRequests ==
  {[set |-> "rules", limit |-> "", rules |-> <<>>],
   [set |-> "rules", limit |-> "0",
    rules |-> <<[name |-> "text/*", size |-> "0"], [name |-> "*/*", size |-> ""]>>]}
UpstreamRequests ==
  {[set |-> "upstream", uri |-> "", auth |-> "false", noProxy |-> <<>>],
   [set |-> "upstream", uri |-> "http://gw", auth |-> "true", noProxy |-> <<"10/8", ".corp">>]}
AccessRequests == [set : {"access"}, proxy : AccessTyped, webui : {[mode |-> "open", networks |-> <<>>]}]

Requests == SwitchRequests \cup RulesRequests \cup UpstreamRequests \cup AccessRequests

(* accessControlSettingsHandler answers 400 unless both blocks are valid.    *)
Accepted(s) ==
  s.set = "access" => ValidateAccessControl(s.proxy).ok /\ ValidateAccessControl(s.webui).ok
Checked(s) ==
  IF s.set # "access" THEN s
  ELSE [s EXCEPT !.proxy = ValidateAccessControl(s.proxy).access,
                 !.webui = ValidateAccessControl(s.webui).access]

-----------------------------------------------------------------------------
Idle == [set |-> "idle"]
NoAccess == [mode |-> "loopback", networks |-> <<>>]
NoSettings == [uri |-> "", auth |-> "false", noProxy |-> <<>>, proxy |-> NoAccess, webui |-> NoAccess,
               storage |-> "false", decrypt |-> "false", limit |-> "", rules |-> <<>>]
DefaultConfig == Load(DefaultFile)

Init ==
  /\ \/ present = FALSE /\ file = <<>>
     \/ present = TRUE /\ file \in Texts
  /\ original = file
  /\ running = FALSE
  /\ conf = NoSettings
  /\ writing = Idle
  /\ output = <<>>
  /\ want = IF present THEN Load(file) ELSE DefaultConfig
  /\ torn = FALSE
  /\ saves = 0
  /\ faults = 0

(* Mutant: a file with the default settings is taken for a damaged one.       *)
ReadableAndChanged == present /\ Parses(file) /\ Load(file) # DefaultConfig

(* readConfigurationFromPath succeeds.                                       *)
Readable == present /\ Parses(file)

(* The program starts with the settings of the file.                         *)
UseFile ==
  /\ conf' = Load(file)
  /\ UNCHANGED <<file, present, original, want, torn>>

(* Without a file that it can read it starts with the defaults and writes      *)
(* them over what is there.  It also runs when that write is cut, or the file    *)
(* cannot be opened.                                                         *)
UseDefaults ==
  /\ conf' = DefaultConfig
  /\ want' = DefaultConfig
  /\ \/ /\ file' = DefaultFile
        /\ original' = DefaultFile
        /\ present' = TRUE
        /\ torn' = FALSE
     \/ /\ file' \in CutsOf(DefaultFile)
        /\ present' = TRUE
        /\ torn' = TRUE
        /\ UNCHANGED original
     \/ /\ torn' = TRUE
        /\ UNCHANGED <<file, present, original>>

(* ReadOrCreateConfigurationIfNotExists, when the program starts.            *)
Start ==
  /\ ~running
  /\ running' = TRUE
  /\ IF Readable THEN UseFile ELSE UseDefaults
  /\ UNCHANGED <<writing, output, saves, faults>>

(* The same, when reading the file fails although it is there: no difference    *)
(* is made between that and a file that is missing or cannot be parsed.        *)
StartUnread ==
  /\ ~running
  /\ present
  /\ faults < MaxFaults
  /\ running' = TRUE
  /\ UseDefaults
  /\ faults' = faults + 1
  /\ UNCHANGED <<writing, output, saves>>

(* A Persist function has read and edited the lines; os.WriteFile has         *)
(* truncated the file.                                                       *)
BeginSave(s) ==
  /\ running
  /\ writing = Idle
  /\ saves < MaxSaves
  /\ present
  /\ Accepted(s)
  /\ \E edit \in {Edit(file, Checked(s))} :
       /\ edit.ok
       /\ output' = edit.lines
  /\ writing' = s
  /\ original' = file
  /\ file' = <<>>
  /\ saves' = saves + 1
  /\ UNCHANGED <<present, running, conf, want, torn, faults>>

(* The write is complete: the supervisor adopts the settings.                *)
EndSave ==
  /\ writing # Idle
  /\ file' = output
  /\ conf' = Apply(conf, Checked(writing))
  /\ want' = Apply(want, writing)
  /\ writing' = Idle
  /\ output' = <<>>
  /\ UNCHANGED <<present, original, running, torn, saves, faults>>

(* The disk is full: the handler answers 500, the settings stay.             *)
FailSave ==
  /\ writing # Idle
  /\ faults < MaxFaults
  /\ file' \in CutsOf(output)
  /\ writing' = Idle
  /\ output' = <<>>
  /\ torn' = TRUE
  /\ faults' = faults + 1
  /\ UNCHANGED <<present, original, running, conf, want, saves>>

(* The process ends, between two writes or within one.                       *)
Stop ==
  /\ running
  /\ writing = Idle
  /\ running' = FALSE
  /\ UNCHANGED <<file, present, original, conf, writing, output, want, torn, saves, faults>>

Crash ==
  /\ running
  /\ writing # Idle
  /\ faults < MaxFaults
  /\ file' \in CutsOf(output)
  /\ writing' = Idle
  /\ output' = <<>>
  /\ running' = FALSE
  /\ torn' = TRUE
  /\ faults' = faults + 1
  /\ UNCHANGED <<present, original, conf, want, saves>>

Next ==
  \/ Start
  \/ StartUnread
  \/ \E s \in Requests : BeginSave(s)
  \/ EndSave
  \/ FailSave
  \/ Stop
  \/ Crash

Spec == Init /\ [][Next]_vars
-----------------------------------------------------------------------------
(* The layout the edits are made for, that of the repository's config.yaml and   *)
(* of yaml.Marshal: every line is indented one step deeper than the one it        *)
(* belongs to, list items too; sections are at the margin, and the values that   *)
(* are rewritten in place are there.                                          *)
Sections == {"proxy", "webui", "storage", "decrypt_https"}
EditedInPlace == {"enable", "enabled"}

Tidy(lines) ==
  LET parent == Parents(lines) IN
  /\ Parses(lines)
  /\ \A i \in DOMAIN lines : lines[i].nl
  /\ \A i \in Content(lines) :
       /\ lines[i].ind = IF parent[i] = 0 THEN 0 ELSE lines[parent[i]].ind + 1
       /\ parent[i] # 0 /\ IsKey(lines[parent[i]], Sections) => lines[i].kind = "key"
       /\ IsKey(lines[i], Sections) => lines[i].ind = 0
       /\ IsKey(lines[i], {"enable"}) => lines[i].ind = 1
       /\ IsKey(lines[i], EditedInPlace) => ~Bare(lines[i])

-----------------------------------------------------------------------------
(* Properties *)

Access == [mode : Words \ {""}, networks : Seq(Words)]

(* The state has its type.                                                   *)
TypeOK ==
  /\ IsText(file) /\ IsText(original) /\ IsText(output)
  /\ {present, running, torn} \subseteq BOOLEAN
  /\ conf.proxy \in Access /\ conf.webui \in Access
  /\ writing \in Requests \cup {Idle}
  /\ saves \in 0 .. MaxSaves
  /\ faults \in 0 .. MaxFaults

(* Two configurations mean the same: equal settings, the same clients         *)
(* admitted, the same hosts sent past the upstream proxy and the same part of *)
(* every body kept.                                                          *)
SameMeaning(c, d) ==
  /\ <<c.uri, c.auth, c.storage, c.decrypt>> = <<d.uri, d.auth, d.storage, d.decrypt>>
  /\ \A a \in Addresses : /\ AllowsIP(c.proxy, a) = AllowsIP(d.proxy, a)
                          /\ AllowsIP(c.webui, a) = AllowsIP(d.webui, a)
  /\ \A t \in Targets : MatchesNoProxy(t, c.noProxy) = MatchesNoProxy(t, d.noProxy)
  /\ \A t \in ContentTypes :
       LimitForContentType(c.rules, c.limit, t) = LimitForContentType(d.rules, d.limit, t)

(* Unless a write was cut, config.yaml can be parsed at any time between two   *)
(* saves and gives back every setting as it was last typed: an edit of one    *)
(* setting neither loses nor damages another, whatever was saved before it    *)
(* (the Persist functions, config_persistence.go:60-89).                     *)
SavedSettingsSurvive ==
  writing = Idle /\ present /\ ~torn => Parses(file) /\ SameMeaning(Load(file), want)

SettingKeys(section) ==
  CASE section = "proxy"         -> {"output_proxy_uri", "add_windows_authentication", "no_proxy",
                                     "enable_remote_connection", "access_control"}
    [] section = "webui"         -> {"enable_remote_connection", "access_control"}
    [] section = "decrypt_https" -> {"default_max_bytes", "mime_types"}
    [] OTHER                     -> {}

(* A line that a replacing edit removes, and the lines that go with it: those    *)
(* below it, and the comments and blank lines up to the next line with content   *)
(* that is not below it, also where they are written above that line for it.     *)
IsSetting(lines, parent, i) ==
  /\ HasContent(lines[i]) /\ parent[i] # 0
  /\ lines[i].key \in SettingKeys(lines[parent[i]].key)
GoesWith(lines, i, j) ==
  \A k \in j + 1 .. i : HasContent(lines[k]) => Depth(lines[k]) > Depth(lines[j])

(* The lines that no edit owns, comments and blank lines among them, without     *)
(* the values it rewrites.                                                   *)
Unowned(lines) ==
  LET parent == Parents(lines)
  IN {i \in DOMAIN lines : \A j \in 1 .. i : IsSetting(lines, parent, j) => ~GoesWith(lines, i, j)}
Blanked(line) == IF IsKey(line, EditedInPlace) THEN [line EXCEPT !.val = ""] ELSE line
Rest(lines) ==
  LET kept == InOrder(Unowned(lines)) IN [k \in DOMAIN kept |-> Blanked(lines[kept[k]])]

(* A save leaves every line of the file that is not about its settings,        *)
(* comments and blank lines included, and the comments behind the values it     *)
(* rewrites, in place and in order.  What it may take away with a setting are    *)
(* the comments and blank lines that follow its block (skipYamlBlock,          *)
(* config_persistence.go:60-62, 71-72, 278-290).                             *)
RestPreserved ==
  writing = Idle /\ present /\ ~torn => Rest(file) = Rest(original)

(* A client is judged alike in both forms of its IPv4 address.  This machine is *)
(* admitted over IPv4 and IPv6 by every mode that exists, and any other client  *)
(* that is admitted, over IPv4 or IPv6, can reach the address that the same      *)
(* settings listen on, also after a restart and whatever a cut write left of    *)
(* the mode (access_control.go:137-166, 208-215).                            *)
PolicyTakesEffect ==
  running =>
    \A access \in {conf.proxy, conf.webui} :
      /\ \A h \in Hosts : AllowsIP(access, <<h, "plain">>) = AllowsIP(access, <<h, "in6">>)
      /\ \A a \in Addresses :
           /\ access.mode \in Modes /\ a[1] \in LoopbackHosts => AllowsIP(access, a)
           /\ AllowsIP(access, a) /\ a[1] \notin LoopbackHosts => Reaches(a, ListenHost(access))

(* Only a cut write, a missing file or a failed read makes a start fall back    *)
(* to the defaults and replace the file (config_persistence.go:25-58).        *)
OnlyDamageResets ==
  [][~running /\ running' /\ file' # file => torn \/ ~present \/ faults' > faults]_vars
=============================================================================
