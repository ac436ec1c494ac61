--------------------------- MODULE MCSubscribers ----------------------------
(* Subscribers for TLC: a channel, a group and a private chat, and a monitor *)
(* that gets to one chat in a round.                                         *)
EXTENDS Subscribers

CONSTANTS channel, group, person

MCChats == {channel, group}
MCChannels == {channel}
MCPeople == {person}
MCManaged == {group, person}

=============================================================================
