---------------------------- MODULE ToolActions ----------------------------
(***************************************************************************)
(* The actions of the agent's tool (tools/tool.ts, dispatch), as a table:  *)
(* what parameters an action must be given, which names it resolves to ids *)
(* before it does anything, in that order, and what it does then:          *)
(*   query     asks Zalo                                                   *)
(*   change    has Zalo do something                                       *)
(*   upload    fetches what is to be sent, then has Zalo send it           *)
(*   known     has Zalo act on a message the msg-id store must know        *)
(*   own       answers from what the process knows                         *)
(*   list      reads the configuration                                     *)
(* and what AgentTool has actions of their own for.                        *)
(***************************************************************************)
H(actions, needs, resolves, does) ==
  {[action |-> a, needs |-> needs, resolves |-> resolves, does |-> does] :
     a \in actions}

U == <<"user">>
G == <<"group">>
GU == <<"group", "user">>
UG == <<"user", "group">>

SendActions ==
  H({"send", "send-styled"}, {"threadId", "message"}, <<>>, "change")
  \cup H({"send-link", "send-video"}, {"threadId", "url"}, <<>>, "change")
  \cup H({"send-image"}, {"threadId", "url"}, <<>>, "upload")
  \cup H({"send-file"}, {"threadId", "filePath"}, <<>>, "upload")
  \cup H({"send-voice"}, {"threadId", "voiceUrl"}, <<>>, "change")

MessageActions ==
  H({"send-sticker"}, {"sticker"}, <<>>, "change")
  \cup H({"send-card"}, {"threadId", "userId"}, U, "change")
  \cup H({"send-bank-card"}, {"threadId", "bankCard"}, <<>>, "change")
  \cup H({"send-typing"}, {"threadId"}, <<>>, "change")
  \cup H({"forward-message"}, {"msgId", "threadIds"}, <<>>, "change")
  \cup H({"delete-message"}, {"msgId", "threadId"}, <<>>, "change")
  \cup H({"undo-message"}, {"msgId"}, <<>>, "known")
  \cup H({"add-reaction"}, {"msgId", "icon"}, <<>>, "known")

FriendActions ==
  H({"friends", "get-sent-requests"}, {}, <<>>, "query")
  \cup H({"find-user"}, {"phoneNumber"}, <<>>, "query")
  \cup H({"find-user-by-username"}, {"username"}, <<>>, "query")
  \cup H({"send-friend-request", "undo-friend-request", "unfriend"},
          {"userId"}, U, "change")
  \cup H({"get-friend-requests"}, {}, <<>>, "own")
  \cup H({"accept-friend-request"}, {"userId"}, <<>>, "accept")
  \cup H({"reject-friend-request"}, {"userId"}, <<>>, "reject")

ContactActions ==
  H({"get-online-friends", "get-close-friends", "get-friend-recommendations",
     "get-alias-list"}, {}, <<>>, "query")
  \cup H({"check-friend-status"}, {"userId"}, <<>>, "query")
  \cup H({"set-friend-nickname"}, {"userId", "nickname"}, U, "change")
  \cup H({"remove-friend-nickname"}, {"userId"}, U, "change")
  \cup H({"get-related-friend-groups"}, {"userId"}, U, "query")
  \cup H({"get-multi-users-by-phones"}, {"phoneNumbers"}, <<>>, "query")
  \cup H({"send-to-stranger"}, {"userId", "message"}, <<>>, "change")

GroupActions ==
  H({"groups"}, {}, <<>>, "query")
  \cup H({"get-group-info"}, {"groupId"}, G, "query")
  \cup H({"create-group"}, {"groupName", "memberIds"}, U, "change")
  \cup H({"add-to-group"}, {"groupId", "memberIds"}, GU, "change")
  \cup H({"remove-from-group", "add-group-admin", "remove-group-admin",
           "change-group-owner"}, {"groupId", "userId"}, GU, "change")
  \cup H({"leave-group", "disperse-group", "enable-group-link",
           "disable-group-link"}, {"groupId"}, G, "change")
  \cup H({"rename-group"}, {"groupId", "groupName"}, G, "change")
  \cup H({"update-group-settings"}, {"groupId", "groupSettings"}, G, "change")

GroupMemberActions ==
  H({"get-group-link", "get-pending-members", "get-group-blocked",
     "get-group-members-info", "get-group-chat-history"},
    {"groupId"}, G, "query")
  \cup H({"review-pending-members"}, {"groupId", "memberIds", "isApprove"}, G,
          "change")
  \cup H({"block-group-member", "unblock-group-member"}, {"groupId", "userId"},
       GU, "change")
  \cup H({"join-group-link"}, {"link"}, <<>>, "change")
  \cup H({"invite-to-groups"}, {"userId", "groupIds"}, U, "change")
  \cup H({"get-group-invites"}, {}, <<>>, "query")
  \cup H({"join-group-invite", "delete-group-invite"}, {"groupId"}, <<>>, "change")
  \cup H({"change-group-avatar"}, {"groupId", "url"}, G, "upload")
  \cup H({"upgrade-group-to-community"}, {"groupId"}, G, "change")

PollActions ==
  H({"create-poll"}, {"threadId", "title", "options"}, <<>>, "change")
  \cup H({"vote-poll"}, {"pollId", "threadId", "optionId"}, <<>>, "change")
  \cup H({"lock-poll"}, {"pollId", "threadId"}, <<>>, "change")
  \cup H({"get-poll-detail"}, {"pollId", "threadId"}, <<>>, "query")
  \cup H({"add-poll-options"}, {"pollId", "threadId", "options"}, <<>>, "change")
  \cup H({"share-poll"}, {"pollId", "threadId", "threadIds"}, <<>>, "change")
  \cup H({"create-reminder"}, {"threadId", "title", "startTime"}, <<>>, "change")
  \cup H({"remove-reminder", "edit-reminder"}, {"reminderId", "threadId"}, <<>>,
          "change")
  \cup H({"list-reminders"}, {"threadId"}, <<>>, "query")

ConversationActions ==
  H({"mute-conversation", "unmute-conversation", "pin-conversation",
     "unpin-conversation", "delete-chat", "hide-conversation",
     "unhide-conversation", "mark-unread", "unmark-unread"},
    {"threadId"}, <<>>, "change")
  \cup H({"get-hidden-conversations", "get-unread-marks", "get-auto-delete-chats",
           "get-archived-chats", "get-mute-status", "get-pinned-conversations"},
       {}, <<>>, "query")
  \cup H({"set-auto-delete-chat"}, {"threadId", "ttl"}, <<>>, "change")
  \cup H({"update-archived-chat"}, {"threadId", "isArchived"}, <<>>, "change")

SettingActions ==
  H({"list-quick-messages", "list-auto-replies", "get-settings"}, {}, <<>>,
    "query")
  \cup H({"add-quick-message"}, {"keyword", "message"}, <<>>, "change")
  \cup H({"remove-quick-message"}, {"itemId"}, <<>>, "change")
  \cup H({"update-quick-message"}, {"itemId", "keyword", "message"}, <<>>, "change")
  \cup H({"create-auto-reply"}, {"message", "startTime", "endTime"}, <<>>, "change")
  \cup H({"update-auto-reply"}, {"replyId", "message", "startTime", "endTime"},
          <<>>, "change")
  \cup H({"delete-auto-reply"}, {"replyId"}, <<>>, "change")
  \cup H({"update-setting"}, {"settingKey", "settingValue"}, <<>>, "change")
  \cup H({"update-active-status"}, {"active"}, <<>>, "change")

ProfileActions ==
  H({"me", "get-qr", "get-avatar-list", "get-biz-account"}, {}, <<>>, "query")
  \cup H({"status"}, {}, <<>>, "own")
  \cup H({"get-user-info", "last-online"}, {"userId"}, U, "query")
  \cup H({"update-profile"}, {}, <<>>, "profile")
  \cup H({"update-profile-bio"}, {"bio"}, <<>>, "change")
  \cup H({"change-avatar"}, {"url"}, <<>>, "upload")
  \cup H({"delete-avatar", "reuse-avatar"}, {"photoId"}, <<>>, "change")

BoardActions ==
  H({"search-stickers"}, {"keyword"}, <<>>, "query")
  \cup H({"search-sticker-detail"}, {"stickerId"}, <<>>, "query")
  \cup H({"parse-link"}, {"url"}, <<>>, "query")
  \cup H({"send-report"}, {"threadId"}, <<>>, "change")
  \cup H({"create-note"}, {"threadId", "title"}, <<>>, "change")
  \cup H({"edit-note"}, {"threadId", "topicId"}, <<>>, "change")
  \cup H({"get-boards"}, {"threadId"}, <<>>, "query")
  \cup H({"get-labels", "get-catalogs"}, {}, <<>>, "query")
  \cup H({"create-catalog", "create-product"}, {"name"}, <<>>, "change")
  \cup H({"update-catalog"}, {"catalogId", "name"}, <<>>, "change")
  \cup H({"delete-catalog"}, {"catalogId"}, <<>>, "change")
  \cup H({"update-product"}, {"productId"}, <<>>, "change")
  \cup H({"delete-product"}, {"productId", "catalogId"}, <<>>, "change")
  \cup H({"get-products"}, {"catalogId"}, <<>>, "query")

ConfigActions ==
  H({"block-user"}, {"userId"}, U, "deny")
  \cup H({"unblock-user"}, {"userId"}, U, "undeny")
  \cup H({"list-blocked", "list-allowed"}, {}, <<>>, "list")
  \cup H({"block-user-in-group"}, {"userId", "groupId"}, UG, "group deny")
  \cup H({"unblock-user-in-group"}, {"userId", "groupId"}, UG, "group undeny")
  \cup H({"allow-user-in-group"}, {"userId", "groupId"}, UG, "group allow")
  \cup H({"unallow-user-in-group"}, {"userId", "groupId"}, UG, "group unallow")
  \cup H({"list-allowed-in-group", "list-blocked-in-group"}, {"groupId"}, G, "list")
  \cup H({"group-mention"}, {"groupId", "requireMention"}, G, "mention")

NewActions ==
  H({"zalo-block-user", "zalo-unblock-user"}, {"userId"}, U, "change")
  \cup H({"get-reminder", "get-reminder-responses"}, {"reminderId"}, <<>>, "query")
  \cup H({"get-friend-board"}, {"threadId"}, <<>>, "query")
  \cup H({"get-full-avatar"}, {"userId"}, U, "query")

Dispatch ==
  SendActions \cup MessageActions \cup FriendActions \cup ContactActions
  \cup GroupActions \cup GroupMemberActions \cup PollActions
  \cup ConversationActions \cup SettingActions \cup ProfileActions
  \cup BoardActions \cup ConfigActions \cup NewActions
=============================================================================
