------------------------------ MODULE InfoText ------------------------------
(***************************************************************************)
(* The text that Narco (src/arduino/narco.cpp) makes of its columns for    *)
(* the display. It is kept between two calls of getInfoText, which only    *)
(* ever writes marks into it; every operation of Narco can come between.   *)
(***************************************************************************)
EXTENDS Narco

VARIABLES m_infoText,           \* what is shown of each column
          told, toldEver        \* columns full and columns jammed when getInfoText was called
                                \* last, and at any call since power-up

textVars == <<narcoVars, m_infoText, told, toldEver>>

Nothing == [full |-> {}, jammed |-> {}]

PowerUp == /\ full' = {} /\ jammed' = {} /\ cursor' = {} /\ motor' = {}
           /\ m_infoText' = [c \in Column |-> "_"]
           /\ told' = Nothing /\ toldEver' = Nothing

TextInit == /\ NarcoInit
            /\ m_infoText = [c \in Column |-> "_"]
            /\ told = Nothing /\ toldEver = Nothing

\* update, setJammed and getDeployColumn leave the text alone.
Unasked == /\ \E r \in Reading : (UpdateWithJam(r) /\ UNCHANGED cursor) \/ GetDeployColumn(r)
           /\ UNCHANGED <<motor, m_infoText, told, toldEver>>

SetJammed(c) == /\ MarkJammed(c)
                /\ UNCHANGED <<full, cursor, motor, m_infoText, told, toldEver>>

\* The switches are read again, and what is shown are marks of what they say.
GetInfoText(r) == /\ UpdateWithJam(r)
                  /\ m_infoText' = Marked(full', jammed', m_infoText)
                  /\ told' = [full |-> full', jammed |-> jammed']
                  /\ toldEver' = [full |-> toldEver.full \cup full', jammed |-> toldEver.jammed \cup jammed']
                  /\ UNCHANGED <<cursor, motor>>

TextNext == \/ Unasked
            \/ \E c \in 0 .. N + 1 : SetJammed(c)
            \/ \E r \in Reading : GetInfoText(r)
            \/ PowerUp

TextSpec == TextInit /\ [][TextNext]_textVars
-----------------------------------------------------------------------------
\* The text on the display (narco.cpp:210-222) is old where no mark was due: it may go on
\* showing a column as full or jammed that is neither. But it never shows a
\* column as fit for sale that was jammed when it was made, nor as empty one that
\* was full, and it invents nothing: every mark was true once.
TextErrsOneWay ==
  \A c \in Column : /\ m_infoText[c] = "#" => c \in toldEver.full \ told.jammed
                    /\ m_infoText[c] = "J" => c \in toldEver.jammed \ (told.full \ told.jammed)
                    /\ m_infoText[c] = "_" => c \notin toldEver.full \cup toldEver.jammed
=============================================================================
