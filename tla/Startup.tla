------------------------------- MODULE Startup -------------------------------
(***************************************************************************)
(* From the start of the machine to the server's command loop: TOS and the *)
(* resident programs put cookies into the jar, among them a communication  *)
(* extension (extras/gdb-extensions); the server splits its command line   *)
(* (gdbserver/start.s), looks at the options (main.c), reads the jar       *)
(* (cookies.c) and chooses a driver (comm.c); gdb may then name another    *)
(* program to run (packet.c).                                              *)
(*                                                                         *)
(* A jar is a block of slots.  Each has a name and a value; the slot       *)
(* without name behind the cookies has the number of slots as its value if *)
(* it was written by TOS or by a program that keeps its convention; those  *)
(* behind it are zero.  A word of a command line is one element of it, as  *)
(* a space is.                                                             *)
(***************************************************************************)
EXTENDS Integers, Sequences, FiniteSets, FiniteSetsExt

CONSTANTS
  Machines,    \* what the upper word of the _MCH cookie may be
  JarSizes,    \* slots of the jar of TOS
  Residents,   \* other resident programs, each with one cookie
  MaxRoom,     \* slots they add to a jar that is full
  Extensions,  \* communication extensions, all with the cookie SDBG
  Options,     \* words that begin with "--", and are known
  BadOptions,  \* others that do
  ComWords,    \* words that begin with "COM"; others name a program
  Letters,     \* the letters of the words that name a program
  RunArgs,     \* arguments gdb gives to the program it names
  Lines        \* command lines: sequences of words and spaces

ASSUME MachinesAssumption == Machines \subseteq Nat
ASSUME JarAssumption == JarSizes \subseteq Nat /\ \A n \in JarSizes : n > 2
\* A cookie has a name other than zero.
ASSUME ResidentsAssumption == "none" \notin Residents /\ MaxRoom \in Nat
\* What a word begins with tells what it is.
ASSUME OptionsAssumption ==
  /\ {"--multi", "--once"} \subseteq Options
  /\ Options \cap BadOptions = {} /\ ComWords \cap (Options \cup BadOptions) = {}
Space == " "
\* Two words have a space between them.
ASSUME LinesAssumption ==
  Lines \subseteq Seq(STRING) /\ \A l \in Lines : \A k \in 1..(Len(l) - 1) : Space \in {l[k], l[k + 1]}

VARIABLES
  mch,        \* the machine
  jar,        \* what the pointer at 0x5a0 points at; <<>> if it is zero
  installed,  \* the cookies that were set, with their values
  phase,      \* "boot", "split", "options", "init", "serving" or "failed"
  line,       \* the server's command line
  argv, i,    \* its arguments, and where start.s is in the line or HandleOptions in them
  loadRequest, option_multi, run_once, com_method, inferior_filename,
  inferior_args, result,
  comDev      \* the driver

bootVars   == <<mch, jar, installed>>
optionVars == <<loadRequest, option_multi, run_once, com_method, inferior_filename,
                inferior_args, result>>
startupVars == <<bootVars, phase, line, argv, i, optionVars, comDev>>

End == "none"     \* the name zero

Slot(name, value) == [cookie |-> name, value |-> value]
Empty(n) == [k \in 1..n |-> Slot(End, 0)]

-----------------------------------------------------------------------------
(* The cookie jar *)

\* TOS 1.06 and later have a jar; those before are for the ST only.
StartupInit ==
  /\ mch \in Machines
  /\ \/ mch = 0 /\ jar = <<>>
     \/ \E n \in JarSizes : jar = <<Slot("_CPU", 0), Slot("_MCH", mch), Slot(End, n)>>
                                    \o Empty(n - 3)
  /\ installed = [c \in {jar[k].cookie : k \in DOMAIN jar} \ {End} |->
                   IF c = "_MCH" THEN mch ELSE 0]
  /\ phase = "boot" /\ line = <<>> /\ argv = <<>> /\ i = 1
  /\ loadRequest = FALSE /\ option_multi = FALSE /\ run_once = FALSE
  /\ com_method = "" /\ inferior_filename = <<>> /\ inferior_args = <<>>
  /\ result = 0 /\ comDev = "none"

\* The slot of the first cookie without a name, from 1.
LastCookie == Min({k \in DOMAIN jar : jar[k].cookie = End})

Has(name) == \E k \in 1..(LastCookie - 1) : jar[k].cookie = name

Remember(name, value) ==
  installed' = [c \in DOMAIN installed \union {name} |->
                 IF c = name THEN value ELSE installed[c]]

serverVars == <<mch, phase, line, argv, i, optionVars, comDev>>

\* Another program keeps the convention: the number of slots moves along with
\* the end, and a jar without room is replaced.
ResidentStarts(r) ==
  /\ phase = "boot" /\ jar # <<>> /\ r \notin DOMAIN installed
  /\ \/ /\ LastCookie < jar[LastCookie].value
        /\ jar' = [jar EXCEPT ![LastCookie] = Slot(r, r),
                              ![LastCookie + 1] = Slot(End, jar[LastCookie].value)]
     \/ /\ LastCookie >= jar[LastCookie].value
        /\ \E room \in 1..MaxRoom :
             jar' = SubSeq(jar, 1, LastCookie - 1)
                    \o <<Slot(r, r), Slot(End, LastCookie + room)>> \o Empty(room - 1)
  /\ Remember(r, r)
  /\ UNCHANGED serverVars

\* Mutant of IsFull: the end is not counted.
IsFullLate == LastCookie = jar[LastCookie].value + 1

\* The end is in the last slot.
IsFull == LastCookie = jar[LastCookie].value

\* SetCookie: somebody has the cookie; the extension does not stay in memory.
FoundSameCookie ==
  /\ phase = "boot" /\ jar # <<>> /\ Has("SDBG")
  /\ UNCHANGED startupVars

\* The cookie takes the place of the end, and what is behind it is the new one.
\* Without a jar the code would take the vectors at address zero for one.
PutCookie(ext) ==
  /\ phase = "boot" /\ jar # <<>> /\ ~Has("SDBG") /\ ~IsFull
  /\ jar' = [jar EXCEPT ![LastCookie] = Slot("SDBG", ext)]
  /\ Remember("SDBG", ext)
  /\ UNCHANGED serverVars

\* A copy with four more slots, the number of slots in the last one.
NeedMoreCookies(ext) ==
  /\ phase = "boot" /\ jar # <<>> /\ ~Has("SDBG") /\ IsFull
  /\ jar' = SubSeq(jar, 1, LastCookie - 1) \o <<Slot("SDBG", ext)>>
            \o Empty(3) \o <<Slot(End, LastCookie + 4)>>
  /\ Remember("SDBG", ext)
  /\ UNCHANGED serverVars

-----------------------------------------------------------------------------
(* The command line *)

ServerStarts(l) ==
  /\ phase = "boot" /\ phase' = IF l = <<>> THEN "options" ELSE "split"
  /\ line' = l /\ argv' = <<>>
  /\ i' = IF l = <<>> THEN 1 ELSE Len(l)
  /\ UNCHANGED <<bootVars, optionVars, comDev>>

\* Mutant of EndsGap: there is an argument behind every space.
EndsGapAlways(k) == line[k] = Space /\ k < Len(line)

\* A space, and what is behind it begins an argument.
EndsGap(k) == line[k] = Space /\ k < Len(line) /\ line[k + 1] # Space

\* A space is written over with a zero once it is met.
WordAt(k) == IF line[k] = Space THEN "" ELSE line[k]

\* The line is gone through from its end.
Split ==
  /\ phase = "split" /\ i > 0 /\ i' = i - 1
  /\ argv' = IF EndsGap(i) THEN <<WordAt(i + 1)>> \o argv ELSE argv
  /\ UNCHANGED <<bootVars, phase, line, optionVars, comDev>>

\* The first character begins an argument whatever it is.
SplitEnds ==
  /\ phase = "split" /\ i = 0 /\ i' = 1 /\ phase' = "options"
  /\ argv' = <<WordAt(1)>> \o argv
  /\ UNCHANGED <<bootVars, line, optionVars, comDev>>

\* HandleOptions: what the loop is at.
Arg == argv[i]

NextArg == /\ phase = "options" /\ i <= Len(argv)
           /\ i' = i + 1
           /\ UNCHANGED <<bootVars, phase, line, argv, comDev>>

InferiorArg ==
  /\ NextArg /\ loadRequest
  /\ inferior_args' = Append(inferior_args, Arg)
  /\ UNCHANGED <<loadRequest, option_multi, run_once, com_method, inferior_filename, result>>

Option ==
  /\ NextArg /\ ~loadRequest /\ Arg \in Options
  /\ option_multi' = (option_multi \/ Arg = "--multi")
  /\ run_once' = (run_once \/ Arg = "--once")
  /\ UNCHANGED <<loadRequest, com_method, inferior_filename, inferior_args, result>>

UnknownOption ==
  /\ NextArg /\ ~loadRequest /\ Arg \in BadOptions
  /\ result' = -1
  /\ UNCHANGED <<loadRequest, option_multi, run_once, com_method, inferior_filename, inferior_args>>

ComMethod ==
  /\ NextArg /\ ~loadRequest /\ Arg \in ComWords
  /\ com_method' = Arg
  /\ UNCHANGED <<loadRequest, option_multi, run_once, inferior_filename, inferior_args, result>>

\* The words that are not the name of a program.
OwnWords == Options \union BadOptions \union ComWords

Spelling(word) == IF word = "" THEN <<>> ELSE Letters[word]

InferiorFile ==
  /\ NextArg /\ ~loadRequest /\ Arg \notin OwnWords
  /\ inferior_filename' = Spelling(Arg) /\ loadRequest' = TRUE
  /\ UNCHANGED <<option_multi, run_once, com_method, inferior_args, result>>

\* The end of HandleOptions; main does not start a server after an error.
OptionsDone ==
  /\ phase = "options" /\ i > Len(argv)
  /\ loadRequest' = (loadRequest /\ ~option_multi)
  /\ result' = IF result = 0 /\ loadRequest' THEN 1 ELSE result
  /\ phase' = IF result' < 0 THEN "failed" ELSE "init"
  /\ UNCHANGED <<bootVars, line, argv, i, option_multi, run_once, com_method,
                 inferior_filename, inferior_args, comDev>>

-----------------------------------------------------------------------------
(* The driver *)

\* Mutant of Cookie: the jar is only read as far as it had cookies at first.
CookieEarly(name) ==
  IF jar # <<>> /\ \E k \in 1..2 : jar[k].cookie = name
  THEN (CHOOSE k \in 1..2 : jar[k].cookie = name) ELSE 0

\* GetCookies: the slot a cookie is in, zero if there is none.
Cookie(name) ==
  IF jar # <<>> /\ Has(name) THEN Max({k \in 1..(LastCookie - 1) : jar[k].cookie = name}) ELSE 0

Cookie_MCH == IF Cookie("_MCH") = 0 THEN 0 ELSE jar[Cookie("_MCH")].value

\* InitComm: the name it looks for.
ComString == IF com_method # "" THEN com_method
             ELSE IF Cookie("SDBG") # 0 THEN "SDBG" ELSE "AUX"

\* No word of a command line that is kept in com_method begins with "AUX".  Both
\* extensions want exactly "SDBG", and are of the version the server supports.
InitComm ==
  /\ phase = "init"
  /\ comDev' = IF ComString = "AUX" /\ Cookie_MCH < 3 THEN "MFP"
               ELSE IF ComString = "AUX" /\ Cookie_MCH = 3 THEN "SCC"
               ELSE IF ComString = "SDBG" /\ Cookie("SDBG") # 0 THEN "plugin"
               ELSE "none"
  /\ phase' = IF comDev' = "none" THEN "failed" ELSE "serving"
  /\ UNCHANGED <<bootVars, line, argv, i, optionVars>>

\* GetInferiorNameAndArgs for vRun, when no program is loaded: the letters of the
\* name are written over those of the last one, and no zero behind them.
VRun(word, args) ==
  /\ phase = "serving"
  /\ inferior_filename' = Spelling(word)
       \o SubSeq(inferior_filename, Len(Spelling(word)) + 1, Len(inferior_filename))
  /\ inferior_args' = args
  /\ UNCHANGED <<bootVars, phase, line, argv, i, loadRequest, option_multi, run_once,
                 com_method, result, comDev>>

\* The server ends; the next one starts with its variables as they were linked.
ServerEnds ==
  /\ phase \in {"serving", "failed"} /\ phase' = "boot"
  /\ line' = <<>> /\ argv' = <<>> /\ i' = 1
  /\ loadRequest' = FALSE /\ option_multi' = FALSE /\ run_once' = FALSE
  /\ com_method' = "" /\ inferior_filename' = <<>> /\ inferior_args' = <<>>
  /\ result' = 0 /\ comDev' = "none"
  /\ UNCHANGED bootVars

StartupNext ==
  \/ \E r \in Residents : ResidentStarts(r)
  \/ \E ext \in Extensions : PutCookie(ext) \/ NeedMoreCookies(ext)
  \/ FoundSameCookie
  \/ \E l \in Lines : ServerStarts(l)
  \/ Split \/ SplitEnds
  \/ InferiorArg \/ Option \/ UnknownOption \/ ComMethod \/ InferiorFile
  \/ OptionsDone \/ InitComm \/ ServerEnds
  \/ \E word \in DOMAIN Letters \union {""}, args \in RunArgs : VRun(word, args)

StartupSpec == StartupInit /\ [][StartupNext]_startupVars

-----------------------------------------------------------------------------
(* Properties *)

\* Whatever the order in which extensions and other programs become resident,
\* a walk through the jar ends inside its block and finds every cookie that
\* was set, once and with its value (midi-extension/start.s:61-132).
JarIntact ==
  jar # <<>> =>
    \E end \in DOMAIN jar :
      /\ jar[end].cookie = End
      /\ end = Cardinality(DOMAIN installed) + 1
      /\ {<<jar[k].cookie, jar[k].value>> : k \in 1..(end - 1)}
           = {<<c, installed[c]>> : c \in DOMAIN installed}

\* Without COM on the command line the server uses the extension, if there is
\* one, and otherwise the serial port of this machine (comm.c:251-284,
\* cookies.c:22-65).
DefaultDriver ==
  (phase = "serving" /\ com_method = "") \/ (phase = "failed" /\ com_method = "" /\ result >= 0) =>
    comDev = IF "SDBG" \in DOMAIN installed THEN "plugin"
             ELSE IF mch < 3 THEN "MFP" ELSE IF mch = 3 THEN "SCC" ELSE "none"

\* The words are those at the given places of the line, all of them in their order.
Lists(words, places) ==
  \E at \in [DOMAIN words -> places] :
    /\ \A p \in places : \E k \in DOMAIN words : at[k] = p
    /\ \A j, k \in DOMAIN words : j < k => at[j] < at[k]
    /\ \A k \in DOMAIN words : words[k] = line[at[k]]

\* Where words begin, from the given place on.
Places(from) == {k \in DOMAIN line : k >= from /\ line[k] # Space}

\* What the first "last" arguments say, with the name of the program among them,
\* or behind them if they do not have it.
Parsed(name, last) ==
  LET before == {argv[k] : k \in 1..(name - 1)}
  IN  /\ name \in 1..(last + 1)
      /\ before \subseteq OwnWords /\ (name <= last => argv[name] \notin OwnWords)
      /\ inferior_filename = Spelling(IF name <= last THEN argv[name] ELSE "")
      /\ inferior_args = SubSeq(argv, name + 1, last)
      /\ (run_once <=> "--once" \in before)

\* --multi is among the options, which end where the program is named.
Multi(name) == "--multi" \in {argv[k] : k \in 1..(name - 1)}

\* The words behind the name of the program are its arguments, options among
\* them, and those before it are the server's, however many spaces are between
\* them; a program is loaded at once unless --multi says otherwise
\* (start.s:38-77, main.c:42-137).  Whether a line that names none turns --multi
\* on is left open: main.c:29 says so, and the code does not.  A line that begins
\* with a space is left out: its first argument is empty, and taken for the name.
ProgramArguments ==
  phase = "init" /\ line # <<>> /\ line[1] # Space =>
    /\ Lists(argv, Places(1))
    /\ \E name \in 1..(Len(argv) + 1) :
         /\ Parsed(name, Len(argv))
         /\ result = 1 <=> name <= Len(argv) /\ ~Multi(name)
         /\ Multi(name) => option_multi
         /\ name <= Len(argv) => (option_multi <=> Multi(name))

\* The program that vRun runs is the one gdb names, and the last one if it names
\* none: the name is taken from the packet (server.c:353-355), and GetHexString
\* "Will not replace old filename if no new exists" (packet.c:389).
VRunTakesName ==
  [][\A word \in DOMAIN Letters \union {""}, args \in RunArgs :
       VRun(word, args) =>
         inferior_filename' = IF word = "" THEN inferior_filename ELSE Spelling(word)]_startupVars
=============================================================================
