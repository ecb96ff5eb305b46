------------------------------- MODULE MCInbox -------------------------------
(* Small instances of Inbox.  Telegram counts seconds and WhatsApp         *)
(* milliseconds, so that 1 and 2 stand for times of the same day as 10.    *)
EXTENDS Inbox

CONSTANTS p1, p2, a, b, m1, m2, x, y

OneProcess == {p1}
TwoProcesses == {p1, p2}

(* The chat a has the first topic; the second was made by hand.            *)
TopicOfA == <<a>>
AndByHand == <<a, Nobody>>
Chats == {a, b}
Messages == {m1, m2}
OneMessage == {m1}
Origins == [k \in Messages |-> IF k = m1 THEN "telegram" ELSE "whatsapp"]
OneOrigin == [k \in OneMessage |-> "telegram"]
Ties == {x, y}

V(kind, order, tie) == [kind |-> kind, order |-> order, tie |-> tie]

FromTelegram(kind, of, order, tie) ==
    [src |-> "telegram", kind |-> kind, of |-> of, chat |-> Nobody,
     thread |-> 1, author |-> Nobody, mine |-> FALSE,
     ver |-> V("telegram.message", order, tie)]

FromWhatsApp(kind, of, vkind, order, mine) ==
    [src |-> "whatsapp", kind |-> kind, of |-> of, chat |-> a, thread |-> 0,
     author |-> Nobody, mine |-> mine, ver |-> V(vkind, order, x)]

(* Written on Telegram; edited there in that second, which clashes, and in *)
(* the next; edited on the phone, with the time and without; and its echo. *)
Written   == FromTelegram("create", m1, 1, x)
Clash     == FromTelegram("edit", m1, 1, y)
Edited    == FromTelegram("edit", m1, 2, x)
ByPhone   == FromWhatsApp("edit", m1, "wa.edit", 10, TRUE)
Undated   == FromWhatsApp("edit", m1, "wa.edit", 0, TRUE)
Echo      == FromWhatsApp("create", m1, "wa.message", 10, TRUE)

(* Written by b in the group a.                                            *)
Received  == [FromWhatsApp("create", m2, "wa.message", 10, FALSE)
                EXCEPT !.author = b]
Corrected == [FromWhatsApp("edit", m2, "wa.edit", 11, FALSE)
                EXCEPT !.author = b]
Reacted   == FromWhatsApp("reaction", m2, "wa.reaction", 11, TRUE)
TakenBack == FromWhatsApp("revoke", m2, "wa.revoke", 12, FALSE)

(* Of the group b, which has no topic.                                     *)
Notice    == [FromWhatsApp("create", m2, "wa.system", 10, FALSE)
                EXCEPT !.chat = b]
Liked     == [FromWhatsApp("reaction", m2, "wa.reaction", 11, FALSE)
                EXCEPT !.chat = b]

(* Of a kind the program does not know.                                    *)
Unheard   == [FromWhatsApp("other", Nobody, "wa.message", 10, FALSE)
                EXCEPT !.chat = b]

Ordered(kind, t) == [FromTelegram(kind, Nobody, 1, x)
                       EXCEPT !.chat = b, !.thread = t]

TwoSides == {Written, Clash, Edited, ByPhone, Undated, Echo, Notice,
             Liked, Ordered("sync", 1)}
AllKinds == {Written, Clash, Edited, ByPhone, Echo,
             Received, Corrected, Reacted, TakenBack,
             Unheard,
             Ordered("sync", 1), Ordered("bind", 2)}
Clashes  == {Written, Edited, Clash}
=============================================================================
