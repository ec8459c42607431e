-------------------------------- MODULE Shell --------------------------------
(***************************************************************************)
(* The kernel shell, kernel/src/sys/shell.c: it edits a line key by key    *)
(* and runs the command on it.  A word is a sequence of characters.  The   *)
(* files are external: a table from paths to contents, or to the names in  *)
(* a directory.  Blocks of the heap and nodes of the file system that the  *)
(* shell has to give back are in held.                                     *)
(***************************************************************************)
EXTENDS KeyMap, Words, SequencesExt, FiniteSetsExt

CONSTANTS
    Keys,           \* the data of key events
    LineSize,       \* bytes of the line, 256 in the code
    Command,        \* the word of each command: "help", "ls", "print", "page", "echo"
    Files,          \* the files there are: path |-> content
    Directories,    \* the directories: path |-> names, in the order they are read
    SubDirectories, \* names that are directories
    Dots,           \* the names "." and ".."
    MaxPages        \* pages page_alloc can hand out

ASSUME ShellAssumption ==
    /\ LineSize \in Nat \ {0} /\ MaxPages \in Nat
    /\ DOMAIN Command = {"help", "ls", "print", "page", "echo"}
    /\ IsInjective(Command) /\ \A name \in DOMAIN Command : Len(Command[name]) >= 2
    /\ DOMAIN Files \cap DOMAIN Directories = {}
    /\ \A path \in DOMAIN Directories :
          Directories[path] \in Seq(Range(Directories[path]) \ {",", "(d)"})

VARIABLES
    line, line_len,
    pc,             \* "prompt", the command that runs, "free" or a way it ended
    command, arguments,
    i, limit,       \* loop variables of ls
    held,
    pages,          \* handed out by the page command
    shown,          \* history: what stands behind the prompt on the terminal
    printed         \* history: what the latest command printed

editing == <<line, line_len, shown>>
info == <<command, arguments>>
loop == <<i, limit>>
vars == <<editing, info, loop, pc, held, pages, printed>>

Separators == {" "}
Cleared == [k \in 0..LineSize - 1 |-> "nul"]

Init ==
    /\ line = Cleared /\ line_len = 0 /\ shown = <<>>
    /\ pc = "prompt" /\ command = <<>> /\ arguments = <<>>
    /\ i = 0 /\ limit = 0 /\ held = {} /\ pages = 0 /\ printed = <<>>

-----------------------------------------------------------------------------
(* run_kernel_shell *)

Put(ch) ==
    /\ line' = [line EXCEPT ![line_len] = ch] /\ line_len' = line_len + 1
    /\ shown' = Append(shown, ch)
    /\ UNCHANGED pc

(* Fault: the character goes from the terminal only. *)
EraseShownOnly ==
    /\ line_len > 0
    /\ line' = [line EXCEPT ![line_len] = "nul"] /\ UNCHANGED line_len
    /\ shown' = IF shown = <<>> THEN shown ELSE Front(shown)
    /\ UNCHANGED pc

(* The cell behind the last character is cleared, which leaves the character
   that is erased in the line until another is put over it. *)
Erase ==
    /\ line_len > 0
    /\ line' = [line EXCEPT ![line_len] = "nul"] /\ line_len' = line_len - 1
    /\ shown' = Front(shown)
    /\ UNCHANGED pc

(* process_command returns at once when there is nothing on the line. *)
Enter ==
    /\ pc' = IF line_len = 0 THEN "prompt" ELSE "parse"
    /\ line' = IF line_len = 0 THEN Cleared ELSE line
    /\ UNCHANGED <<line_len, shown>>

(* One event of the input device.  A full line takes no key at all. *)
ReadKey ==
    /\ pc = "prompt"
    /\ UNCHANGED <<info, loop, held, pages, printed>>
    /\ \E key \in Keys : \E ch \in KeyCodeToAscii(key) :
          IF ch = "nul" \/ line_len >= LineSize THEN UNCHANGED <<editing, pc>>
          ELSE IF ch = "nl" THEN Enter
          ELSE IF ch = "bs" /\ line_len = 0 THEN UNCHANGED <<editing, pc>>
          ELSE IF ch = "bs" THEN Erase
          ELSE Put(ch)

(* free_command_info, and the line is cleared for the next prompt. *)
FreeCommandInfo ==
    /\ pc = "free"
    /\ held' = held \ ({<<"command", 0>>, <<"arguments", 0>>}
                         \cup {<<"argument", k>> : k \in 1..Len(arguments)})
    /\ pc' = "prompt" /\ line' = Cleared /\ line_len' = 0 /\ shown' = <<>>
    /\ command' = <<>> /\ arguments' = <<>> /\ i' = 0 /\ limit' = 0 /\ printed' = <<>>
    /\ UNCHANGED pages

-----------------------------------------------------------------------------
(* parse_command *)

(* The line as strlen sees it. *)
Text == [k \in 1..Min({n \in DOMAIN line : line[n] = "nul"} \cup {LineSize}) |-> line[k - 1]]

(* What strcspn and strtok find; Strings has the functions themselves. *)
CommandEnd(text) == Min({n \in 1..Len(text) : text[n] \in Separators} \cup {Len(text) + 1}) - 1

Tokens(text) == WordsOf(text, Separators)

(* Fault: room for one argument in three characters. *)
MaxArgumentsTooFew == line_len \div 3

MaxArguments == line_len \div 2

(* The words are copied until the array is full; the first one is stored before
   the room is looked at, and with no room at all it lands in the header of the
   heap's next chunk.  What becomes of the heap then is not followed further. *)
Parse ==
    LET words == Tokens(Text)
        stored == SubSeq(words, 1, Min({Len(words), Max({1, MaxArguments})}))
    IN  /\ pc = "parse"
        /\ command' = SubSeq(Text, 1, CommandEnd(Text))
        /\ arguments' = stored
        /\ held' = {<<"command", 0>>, <<"arguments", 0>>}
                     \cup {<<"argument", k>> : k \in 1..Len(stored)}
        /\ pc' = IF MaxArguments = 0 /\ stored # <<>> THEN "heap overrun"
                 ELSE IF \E name \in DOMAIN Command : Command[name] = command'
                 THEN CHOOSE name \in DOMAIN Command : Command[name] = command'
                 ELSE "unknown"
        /\ UNCHANGED <<editing, loop, pages, printed>>

-----------------------------------------------------------------------------
(* process_command *)

Say(words) == printed' = printed \o words
GoesTo(place) == pc' = place /\ UNCHANGED <<editing, info, pages>>

(* help, sysinfo, dumpdisks and what is no command: a message. *)
Message ==
    /\ pc \in {"help", "unknown"}
    /\ Say(<<pc>>) /\ GoesTo("free") /\ UNCHANGED <<loop, held>>

Echo ==
    /\ pc = "echo"
    /\ Say(Tail(arguments)) /\ GoesTo("free") /\ UNCHANGED <<loop, held>>

(* page_alloc stops the kernel when there is no page. *)
Page ==
    /\ pc = "page"
    /\ IF pages = MaxPages THEN pc' = "panic" /\ UNCHANGED <<pages, printed>>
       ELSE pc' = "free" /\ pages' = pages + 1 /\ Say(<<"page">>)
    /\ UNCHANGED <<editing, info, loop, held>>

Path == IF Len(arguments) < 2 THEN <<>> ELSE arguments[2]

Exists == Len(arguments) >= 2 /\ Path \in DOMAIN Files \cup DOMAIN Directories

(* ls and print without an argument, or with one that is no path. *)
NoFile ==
    /\ pc \in {"ls", "print"}
    /\ ~Exists
    /\ Say(<<"error">>) /\ GoesTo("free") /\ UNCHANGED <<loop, held>>

(* read_fs does nothing for a directory, whose size is 0. *)
PrintFile ==
    /\ pc = "print" /\ Exists
    /\ Say(IF Path \in DOMAIN Files THEN Files[Path] ELSE <<>>)
    /\ GoesTo("free") /\ UNCHANGED <<loop, held>>

OpenDirectory ==
    /\ pc = "ls" /\ Exists
    /\ held' = held \cup {<<"node", 0>>}
    /\ i' = 0 /\ limit' = 0
    /\ GoesTo("list") /\ UNCHANGED printed

(* readdir_fs finds nothing in a file. *)
Names == IF Path \in DOMAIN Directories THEN Directories[Path] ELSE <<>>

(* Fault: a dot is only noted, without going on to the next name. *)
ListNameStuck ==
    /\ pc = "list" /\ i < Len(Names)
    /\ LET name == Names[i + 1] IN
       IF name \in Dots THEN limit' = 1 /\ UNCHANGED <<printed, i>>
       ELSE /\ Say((IF i > limit THEN <<",">> ELSE <<>>) \o <<name>>
                     \o (IF name \in SubDirectories THEN <<"(d)">> ELSE <<>>))
            /\ i' = i + 1 /\ UNCHANGED limit
    /\ GoesTo("list") /\ UNCHANGED held

(* Fault: a comma goes in front of the first name when dots were passed over. *)
ListNameCommaFirst ==
    /\ pc = "list" /\ i < Len(Names)
    /\ i' = i + 1
    /\ LET name == Names[i + 1] IN
       IF name \in Dots THEN limit' = limit + 1 /\ UNCHANGED printed
       ELSE /\ Say((IF i > 0 THEN <<",">> ELSE <<>>) \o <<name>>
                     \o (IF name \in SubDirectories THEN <<"(d)">> ELSE <<>>))
            /\ UNCHANGED limit
    /\ GoesTo("list") /\ UNCHANGED held

(* One round of the loop: the node finddir_fs returns is closed in it. *)
ListName ==
    /\ pc = "list" /\ i < Len(Names)
    /\ i' = i + 1
    /\ LET name == Names[i + 1] IN
       IF name \in Dots THEN limit' = limit + 1 /\ UNCHANGED printed
       ELSE /\ Say((IF i > limit THEN <<",">> ELSE <<>>) \o <<name>>
                     \o (IF name \in SubDirectories THEN <<"(d)">> ELSE <<>>))
            /\ UNCHANGED limit
    /\ GoesTo("list") /\ UNCHANGED held

(* Fault: the directory stays open. *)
ListEndsOpen ==
    /\ pc = "list" /\ i >= Len(Names)
    /\ GoesTo("free") /\ UNCHANGED <<loop, printed, held>>

ListEnds ==
    /\ pc = "list" /\ i >= Len(Names)
    /\ held' = held \ {<<"node", 0>>}
    /\ GoesTo("free") /\ UNCHANGED <<loop, printed>>

Stopped == pc \in {"heap overrun", "panic"} /\ UNCHANGED vars

Run == Parse \/ Message \/ Echo \/ Page \/ NoFile \/ PrintFile
        \/ OpenDirectory \/ ListName \/ ListEnds \/ FreeCommandInfo

Next == ReadKey \/ Run \/ Stopped

(* The shell runs on its own; it need not be given a key. *)
Spec == Init /\ [][Next]_vars /\ WF_vars(Run)

-----------------------------------------------------------------------------
(* Properties *)

Typed == [k \in 1..line_len |-> line[k - 1]]

(* What stands behind the prompt is what the line holds, however it was typed
   and corrected; behind it in the array one erased character may be left, and
   nothing else, so that the text ends inside the array when it is parsed. *)
LineIsShown ==
    /\ Typed = shown
    /\ \A k \in line_len + 1..LineSize - 1 : line[k] = "nul"
    /\ pc # "prompt" => line_len < LineSize

Erased == line_len < LineSize /\ line[line_len] # "nul"

(* A command gets every word of the line that is shown, although the room for
   them is half the length of the line: unless an erased character is left
   behind the line, the command has one letter, or there is no command.  What is
   stored goes behind the array only when the line is a single character. *)
ArgumentsAreWords ==
    /\ pc \in DOMAIN Command /\ ~Erased => arguments = Tokens(shown)
    /\ pc = "heap overrun" => line_len = 1

(* Every way a command ends gives back the memory and the nodes it took. *)
CommandsGiveBack == pc = "prompt" => held = {}

(* ls prints all the names of the directory but the dots, with a comma between
   two of them. *)
ListsDirectory ==
    pc = "free" /\ command = Command["ls"] /\ Len(arguments) >= 2
        /\ arguments[2] \in DOMAIN Directories =>
        LET names == Without(Directories[arguments[2]], Dots) IN
        /\ Without(printed, {",", "(d)"}) = names
        /\ Cardinality({k \in DOMAIN printed : printed[k] = ","}) = Max({0, Len(names) - 1})
        /\ names # <<>> => printed[1] = names[1]

(* Enter is answered by the next prompt. *)
EnterIsAnswered == pc = "parse" ~> pc \in {"prompt", "heap overrun", "panic"}
=============================================================================
