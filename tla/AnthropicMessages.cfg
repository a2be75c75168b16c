SPECIFICATION MessagesSpec
CONSTANTS
    Conversations <- SomeConversations
    Indexes = {0, 1}
    Finishes = {"stop", "tool_calls"}
    LogLimit = 2
    MaxLines = 4
INVARIANTS
    
    ClientGetsAnswer
PROPERTIES
    TranslationKeepsTools
