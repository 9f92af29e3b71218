CONSTANTS
    Adapters = {"openai_api", "anthropic_api", "ollama", "azure_openai", "bedrock", "claude_oauth", "copilot_oauth", "claude_web", "chatgpt_web", "cli_acp", "cli_headless"}
    Honours = {"openai_api", "anthropic_api", "claude_oauth", "copilot_oauth"}
    PoolSize = 2
    MaxTurns = 3
SPECIFICATION Spec
INVARIANTS
    TypeOK
    UpstreamIsShownTheConversation
    ClientIsToldTheAnswer
    ResultsFollowTheirCalls
    
CHECK_DEADLOCK FALSE
