CONSTANTS
    Adapters = {"openai_api", "anthropic_api", "ollama", "azure_openai", "bedrock", "vertex_ai", "claude_oauth", "copilot_oauth", "claude_web", "chatgpt_web", "cli_acp", "cli_headless"}
    Honours = {"openai_api", "anthropic_api", "claude_oauth", "copilot_oauth"}
    PoolSize = 2
    MaxTurns = 1
SPECIFICATION Spec
INVARIANTS
    StreamedAnswersAreBilled
CHECK_DEADLOCK FALSE
