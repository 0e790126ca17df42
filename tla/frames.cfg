SPECIFICATION Spec
CONSTANTS
    OnKeys <- Keys
    StyleNames <- RcStyles
    fg_color = 9
    bg_color = 8
    Uninitialised = {0, 3}
    Requests <- ClientRequests
    Notices <- ServerNotices
INVARIANT ReadsBack
INVARIANT RepliesLaidOut
INVARIANT BuffersSuffice
