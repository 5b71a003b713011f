------------------------------ MODULE Services ------------------------------
(***************************************************************************)
(* The parts of the kernel that keep their state to themselves: message    *)
(* queues and pipes (kernel/ipc), the keyboard driver, the shell, the      *)
(* framebuffer terminal and the conversion of numbers to text.  The shell  *)
(* knows the keyboard only through the events that keyboard_poll delivers, *)
(* and takes any sequence of them; the terminal is connected to neither    *)
(* (printk writes to the serial port).  With nothing in common their       *)
(* product shows nothing their sum does not, so one of them moves while    *)
(* the others are as they began.                                           *)
(***************************************************************************)
EXTENDS MsgQueue, Pipe, Keyboard, Shell, Terminal, Format

consoleVars == <<kbdVars, shellVars, termVars, formatVars>>
svars == <<vars, pipeVars, consoleVars>>

ConsoleInit == KbdInit /\ ShellInit /\ TermInit /\ FormatInit
ServicesInit == Init /\ PipeInit /\ ConsoleInit

ipc_step ==
    /\ ConsoleInit /\ UNCHANGED consoleVars
    /\ \/ PipeInit /\ Next /\ UNCHANGED pipeVars
       \/ Init /\ PipeNext /\ UNCHANGED vars

console_step ==
    /\ Init /\ PipeInit /\ UNCHANGED <<vars, pipeVars>>
    /\ \/ /\ ShellInit /\ TermInit /\ FormatInit
          /\ KbdNext /\ UNCHANGED <<shellVars, termVars, formatVars>>
       \/ /\ KbdInit /\ TermInit /\ FormatInit
          /\ ShellNext /\ UNCHANGED <<kbdVars, termVars, formatVars>>
       \/ /\ KbdInit /\ ShellInit /\ FormatInit
          /\ TermNext /\ UNCHANGED <<kbdVars, shellVars, formatVars>>
       \/ /\ KbdInit /\ ShellInit /\ TermInit
          /\ FormatNext /\ UNCHANGED <<kbdVars, shellVars, termVars>>

\* Nobody has to type, send or write, and no timer interrupt has to come: once
\* a thread runs the controller holds it back (TimerHeldByIdle of module Kernel).
ServicesSpec == ServicesInit /\ [][ipc_step \/ console_step]_svars

=============================================================================
