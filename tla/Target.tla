-------------------------------- MODULE Target --------------------------------
(***************************************************************************)
(* gdb first reads the target description and then uses the registers it   *)
(* describes.  The server decides twice whether there is an FPU: once in   *)
(* gdbserver/target_xml.c for the description and once in server.c for the *)
(* registers themselves.                                                   *)
(***************************************************************************)
EXTENDS TargetXml, Registers

vars == <<xmlVars, regVars>>

Init == XmlInit /\ RegInit

Describe == XmlNext /\ UNCHANGED regVars

\* gdb asks for no register before it knows which there are.
Use == /\ reading = "done"
       /\ RegNext
       /\ UNCHANGED xmlVars

\* The instance is used up.
Finished == reading = "done" /\ executing /\ time = MaxChanges /\ UNCHANGED vars

Next == Describe \/ Use \/ Finished

\* gdb goes on reading and the server answers.
Spec == Init /\ [][Next]_vars /\ WF_vars(Describe)

-----------------------------------------------------------------------------
(* Properties *)

\* gdb reaches the end of the description, whose length the server never tells
\* it: some transfer is marked as the last (packet.c:602-610).
DescriptionArrives == <>(reading = "done")
===============================================================================
