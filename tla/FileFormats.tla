------------------------------ MODULE FileFormats ------------------------------
(***************************************************************************)
(* The formats that the launcher shares with other programs.                 *)
(*                                                                         *)
(* One server in list.txt (server_list.rs), which the encoder writes: a       *)
(* record of fixed size, whose texts are cut at a unit less than their room,  *)
(* combined with a table and enciphered in whole blocks; the rest of the      *)
(* record is only combined with the table.  A byte and a unit of UTF-16 are   *)
(* small numbers.  The block cipher is a library's; any bijection of blocks   *)
(* stands for it.                                                           *)
(*                                                                         *)
(* The two settings outside the launcher that it changes before it starts    *)
(* the client: the client's file lineage.cfg (lineage_cfg.rs) and the flags  *)
(* of compatibility that Windows keeps for the program (dpi_override.rs).    *)
(* A file is the sequence of words after its head: entries <<key, size,      *)
(* value ...>>, entries <<key, text ..., 0>> for the keys of texts, and      *)
(* EndMark.  The client and the player write both as they like, and a file   *)
(* may have been cut off.                                                    *)
(*                                                                         *)
(* The two have nothing in common: each has its own specification.            *)
(***************************************************************************)
EXTENDS Integers, Sequences, SequencesExt, FiniteSets

CONSTANTS
    Room,   \* units of a name and bytes of an address (32)
    Block,  \* bytes of a block (16)
    Size,   \* of a byte: they are 0 .. Size - 1, a power of 2
    Table,  \* the table with the key: as many bytes as the record has
    Chars,  \* characters, each with its units and bytes; the last stands for what cannot be read
    MaxText \* characters of a text: bounds the model

ListAssumption ==
    /\ Room \in Nat \ {0} /\ Block \in Nat \ {0} /\ MaxText \in Nat
    /\ Len(Table) = 2 * Room + 1 /\ \A i \in 1 .. Len(Table) : Table[i] \in 0 .. Size - 1
    /\ \A c \in 1 .. Len(Chars) : Chars[c].units # <<>> /\ Chars[c].bytes # <<>>

VARIABLES
    given, \* the server as it was typed
    list,  \* the record in the file, <<>> before it is built
    read   \* the server as it was read last, or given

listVars == <<given, list, read>>

Char == 1 .. Len(Chars)
Unknown == Len(Chars)
Texts == BoundedSeq(Char \ {Unknown}, MaxText)
Ports == {0, 1}

ListInit == given \in [name : Texts, ip : Texts, port : Ports] /\ list = <<>> /\ read = given

-------------------------------------------------------------------------------
\* What a text is in memory.
Units(text) == FlattenSeq([i \in 1 .. Len(text) |-> Chars[text[i]].units])
Bytes(text) == FlattenSeq([i \in 1 .. Len(text) |-> Chars[text[i]].bytes])

\* A field: what does not fit is cut, even inside a character, and the rest is 0.
Field(s) == [i \in 1 .. Room |-> IF i <= Len(s) /\ i < Room THEN s[i] ELSE 0]

\* to_bytes.
ToBytes(server) == Field(Units(server.name)) \o Field(Bytes(server.ip)) \o <<server.port>>

\* decode_utf16_z and decode_ascii_z: up to the first 0, with the code of each
\* character; a piece that is none of them is Unknown.
UpToZero(s) == SelectInSeq(s, LAMBDA x : x = 0)
\* A wrong version, to show that the properties below can fail.
NotCut(s) == s
Cut(s) == IF UpToZero(s) = 0 THEN s ELSE SubSeq(s, 1, UpToZero(s) - 1)
Decode(s, codes) ==
    LET from[i \in 1 .. Len(s) + 1] ==
            IF i > Len(s) THEN <<>>
            ELSE LET fits == {c \in Char : IsPrefix(codes[c], SubSeq(s, i, Len(s)))}
                 IN IF fits = {} THEN <<Unknown>> \o from[i + 1]
                    ELSE LET c == CHOOSE c \in fits : TRUE IN <<c>> \o from[i + Len(codes[c])]
    IN from[1]
\* A character that was cut off at the end is one Unknown in UTF-8, however
\* many of its bytes are there.
Lossy(s, codes) ==
    LET starts == {i \in 1 .. Len(s) : \E c \in Char : /\ Len(s) - i + 1 < Len(codes[c])
                                                       /\ IsPrefix(SubSeq(s, i, Len(s)), codes[c])}
    IN IF starts = {} THEN Decode(s, codes)
       ELSE LET i == CHOOSE i \in starts : \A j \in starts : i <= j
            IN Decode(SubSeq(s, 1, i - 1), codes) \o <<Unknown>>

\* from_bytes.
FromBytes(buf) ==
    [name |-> Lossy(Cut(SubSeq(buf, 1, Room)), [c \in Char |-> Chars[c].units]),
     ip   |-> Lossy(Cut(SubSeq(buf, Room + 1, 2 * Room)), [c \in Char |-> Chars[c].bytes]),
     port |-> buf[2 * Room + 1]]

\* The exclusive or of two bytes.
Xor(a, b) ==
    LET from[x \in 0 .. Size - 1] == [y \in 0 .. Size - 1 |->
            IF x = 0 THEN y ELSE IF y = 0 THEN x
            ELSE 2 * from[x \div 2][y \div 2] + (IF x % 2 = y % 2 THEN 0 ELSE 1)]
    IN from[a][b]
WithTable(data) == [i \in 1 .. Len(data) |-> Xor(data[i], Table[i])]

\* The block cipher.
Encipher(b) == [i \in 1 .. Block |-> (b[Block + 1 - i] + i) % Size]
Decipher(b) == [i \in 1 .. Block |-> (b[Block + 1 - i] + Size - ((Block + 1 - i) % Size)) % Size]

Blocks(data) == Len(data) \div Block
Chunk(data, k) == SubSeq(data, (k - 1) * Block + 1, k * Block)
Rest(data) == SubSeq(data, Blocks(data) * Block + 1, Len(data))

\* config_encrypt and config_decrypt.
Encrypt(data) ==
    LET t == WithTable(data)
    IN FlattenSeq([k \in 1 .. Blocks(t) |-> Encipher(Chunk(t, k))]) \o Rest(t)
\* A wrong version, to show that the properties below can fail.
DecryptTableFirst(data) ==
    LET t == WithTable(data)
    IN FlattenSeq([k \in 1 .. Blocks(t) |-> Decipher(Chunk(t, k))]) \o Rest(t)
Decrypt(data) ==
    WithTable(FlattenSeq([k \in 1 .. Blocks(data) |-> Decipher(Chunk(data, k))]) \o Rest(data))

Build == list = <<>> /\ list' = Encrypt(ToBytes(read)) /\ UNCHANGED <<given, read>>
Parse == list # <<>> /\ list' = <<>> /\ read' = FromBytes(Decrypt(list)) /\ UNCHANGED given

ListNext == Build \/ Parse

ListSpec == ListInit /\ [][ListNext]_listVars

-------------------------------------------------------------------------------
ListTypes ==
    /\ {given, read} \subseteq [name : Seq(Char), ip : Seq(Char), port : Ports]
    /\ list = <<>> \/ (Len(list) = 2 * Room + 1 /\ \A i \in 1 .. Len(list) : list[i] \in 0 .. Size - 1)

Short(server) == Len(Units(server.name)) < Room /\ Len(Bytes(server.ip)) < Room

\* A server whose texts have room is read as it was typed, and a text that is
\* too long does not spill into the field behind it.
ReadAsTyped ==
    /\ Short(given) => read = given
    /\ Len(Units(given.name)) < Room => read.name = given.name
    /\ Len(Bytes(given.ip)) < Room => read.ip = given.ip
    /\ read.port = given.port

\* Building and reading a list again and again does not wear it down: what the
\* first build lost, in the middle of a character or not, is all that is lost.
NothingMoreIsLost == Parse /\ read # given => read' = read

-------------------------------------------------------------------------------
CONSTANTS
    FullScreen, WindowMode, PrevMode, \* keys that the launcher knows
    TextKeys,   \* the least key of a text
    EndMark,    \* ends the entries
    MaxSize,    \* of a value (1024)
    Modes,      \* window modes that the program accepts
    AskedModes, \* modes that the page may send
    DefaultMode,
    Entries,    \* entries that the client writes
    MaxEntries, \* how many of them it writes: bounds the model
    Optimized,  \* the spellings of the flag that the launcher adds; the first is its own
    OtherFlags, \* flags of the player
    MaxFlags    \* how many flags the player sets: bounds the model

SettingsAssumption ==
    /\ {FullScreen, WindowMode, PrevMode, TextKeys, EndMark, MaxSize, MaxEntries, MaxFlags} \subseteq Nat
    /\ FullScreen # WindowMode /\ Modes \subseteq Nat /\ DefaultMode \in Modes
    /\ Optimized # <<>> /\ OtherFlags \cap ToSet(Optimized) = {}

VARIABLES
    file,  \* lineage.cfg, or Missing
    flags, \* the words of the value in the registry, <<>> if there is none
    last   \* what the last launch wanted and whether it succeeded, until something else changes

settingsVars == <<file, flags, last>>

Missing == <<0>>
NoLaunch == [windowed |-> FALSE, mode |-> 0, done |-> FALSE]

Written == {FlattenSeq(es) \o <<EndMark>> : es \in BoundedSeq(Entries, MaxEntries)}
Tilde == "~"
Words == {Tilde} \cup ToSet(Optimized) \cup OtherFlags

SettingsInit == file \in Written \cup {Missing} /\ flags = <<>> /\ last = NoLaunch

-------------------------------------------------------------------------------
\* The client that a launch started writes its file, or is killed while it
\* does, or the file goes; the player sets flags.
Ran == last # NoLaunch /\ last' = NoLaunch /\ UNCHANGED flags
ClientWrites == Ran /\ file' \in Written
FileLost == Ran /\ file' = Missing
CutOff == Ran /\ file # Missing /\ \E n \in 0 .. Len(file) - 1 : file' = SubSeq(file, 1, n)
PlayerSetsFlags == flags' \in BoundedSeq(Words, MaxFlags) /\ last' = NoLaunch /\ UNCHANGED file

-------------------------------------------------------------------------------
Absent == -1
Damaged == -2

\* A wrong version, to show that the properties below can fail.
FoundInValues(f, key) ==
    IF \E i \in 1 .. Len(f) - 1 : f[i] = key
    THEN 1 + (CHOOSE i \in 1 .. Len(f) - 1 : f[i] = key /\ \A j \in 1 .. i - 1 : f[j] # key)
    ELSE Absent

\* The loop of update_value: where the size of the entry with a key stands.
Found(f, key) ==
    LET from[i \in 1 .. Len(f) + 1] ==
            IF i > Len(f) \/ f[i] = EndMark THEN Absent
            ELSE IF f[i] >= TextKeys
                 THEN LET zeros == {j \in i + 1 .. Len(f) : f[j] = 0}
                      IN IF zeros = {} THEN Damaged
                         ELSE from[1 + (CHOOSE j \in zeros : \A k \in zeros : j <= k)]
            ELSE IF i = Len(f) \/ f[i + 1] > MaxSize \/ i + 1 + f[i + 1] > Len(f) THEN Damaged
            ELSE IF f[i] = key THEN i + 1
            ELSE from[i + 2 + f[i + 1]]
    IN IF f = <<>> THEN Damaged ELSE from[1]

\* create_minimal_cfg.
Minimal(key, value) ==
    LET mode == IF key = WindowMode THEN value ELSE DefaultMode
    IN <<FullScreen, 1, IF key = FullScreen THEN value ELSE 0,
         WindowMode, 1, mode, PrevMode, 1, mode, EndMark>>

\* update_value, for values of one word: the file afterwards and whether it
\* reports success.  A missing key is a success.
Update(f, key, value) ==
    LET data == IF f = Missing THEN Minimal(key, value) ELSE f
        at   == Found(data, key)
    IN IF at = Damaged \/ (at > 0 /\ data[at] # 1) THEN [file |-> data, ok |-> FALSE]
       ELSE IF at = Absent THEN [file |-> data, ok |-> TRUE]
       ELSE [file |-> [data EXCEPT ![at + 1] = value], ok |-> TRUE]

\* A wrong version, to show that the properties below can fail.
MergedAlways(existing) == <<Tilde>> \o existing \o <<Optimized[1]>>
\* merge_compat_flags.
Merged(existing) ==
    LET kept == SelectSeq(existing, LAMBDA w : w # Tilde)
    IN <<Tilde>> \o IF ToSet(kept) \cap ToSet(Optimized) # {} THEN kept ELSE Append(kept, Optimized[1])

\* A wrong version, to show that the properties below can fail.
DisplayModeFirst(f, windowed, mode) ==
    IF windowed /\ mode \in Modes THEN Update(f, WindowMode, mode)
    ELSE Update(f, FullScreen, IF windowed THEN 0 ELSE 1)

\* apply_display_mode_config.
DisplayMode(f, windowed, mode) ==
    LET full == Update(f, FullScreen, IF windowed THEN 0 ELSE 1)
    IN IF ~full.ok \/ ~windowed THEN full
       ELSE IF mode \notin Modes THEN [full EXCEPT !.ok = FALSE]
       ELSE Update(full.file, WindowMode, mode)

\* What launch_game changes before it creates the process; whatever fails
\* here is only logged.
Launch(windowed, mode) ==
    LET display == DisplayMode(file, windowed, mode)
    IN /\ \/ file' = display.file /\ last' = [windowed |-> windowed, mode |-> mode, done |-> display.ok]
          \/ /\ UNCHANGED file \* the file cannot be written
             /\ last' = [windowed |-> windowed, mode |-> mode, done |-> FALSE]
       /\ \/ windowed /\ UNCHANGED flags
          \/ ~windowed /\ flags' = Merged(flags)
          \/ ~windowed /\ UNCHANGED flags \* the registry cannot be written

SettingsNext ==
    \/ ClientWrites \/ FileLost \/ CutOff \/ PlayerSetsFlags
    \/ \E windowed \in BOOLEAN, mode \in AskedModes : Launch(windowed, mode)

SettingsSpec == SettingsInit /\ [][SettingsNext]_settingsVars

-------------------------------------------------------------------------------
SettingsTypes ==
    /\ file = Missing \/ \A i \in 1 .. Len(file) : file[i] \in Nat
    /\ flags \in Seq(Words)
    /\ last \in [windowed : BOOLEAN, mode : AskedModes \cup {0}, done : BOOLEAN]

AnyEntries == Entries \cup {<<k, 1, v>> : k \in {FullScreen, WindowMode, PrevMode}, v \in Modes \cup {0, 1}}

\* A launch changes nothing in the client's file but the two values, wherever
\* they are, and never its length: a value that looks like a key, a text and
\* a file that is cut off do not mislead the walk over the entries.
OtherWordsStay ==
    last' # NoLaunch /\ file \notin {Missing, <<>>} =>
        /\ Len(file') = Len(file)
        /\ \A i \in 1 .. Len(file) :
               file'[i] # file[i] =>
                   \* the entries before end in front of one of the two keys
                   \E es \in BoundedSeq(AnyEntries, MaxEntries) :
                       /\ Len(FlattenSeq(es)) = i - 3
                       /\ IsPrefix(FlattenSeq(es), file) /\ file[i - 2] \in {FullScreen, WindowMode}

\* The entries of a file that the client has written, or the launcher.
Value(f, key) == IF Found(f, key) > 0 THEN f[Found(f, key) + 1] ELSE Absent

\* A launch that reports success leaves a file in which the mode that the
\* player chose stands, if the client has an entry for it: both values, whose
\* order in the file is the client's.
ModeApplied ==
    last.done /\ file # Missing =>
        /\ Value(file, FullScreen) \in {Absent, IF last.windowed THEN 0 ELSE 1}
        /\ last.windowed => Value(file, WindowMode) \in {Absent, last.mode}

\* The player's flags stay, in their order, and a launch after a launch changes
\* nothing: the value does not grow with every start.
FlagsStay ==
    flags' # flags /\ last' # NoLaunch =>
        /\ SelectSeq(flags', LAMBDA w : w \in OtherFlags) = SelectSeq(flags, LAMBDA w : w \in OtherFlags)
        /\ Merged(flags') = flags'
        /\ Cardinality({i \in 1 .. Len(flags') : flags'[i] \in ToSet(Optimized)}) = 1
===============================================================================
