------------------------------ MODULE MCOutbox ------------------------------
EXTENDS Outbox

\* The first run was started by a message of a chat, the second by a background
\* task: its reply goes to both home chats.
PeerThenHomes == <<<<"wechat">>, <<"feishu", "wechat">>>>
=============================================================================
